----------------------------- MODULE GuestProofs -----------------------------
(***************************************************************************)
(* What a program started by any command line relies on.                   *)
(***************************************************************************)
EXTENDS Guest, FiniteSetTheorems, TLAPS

HP == INSTANCE HarnessProofs WITH pc <- hpc, rc <- hrc

-----------------------------------------------------------------------------
(* A guest that fuzzes is a guest of Harness.                              *)

\* The composition adds no step to the harness, it only starts it later.
LEMMA ImplementsHarness == Spec => HP!Spec
<1>1. GuestInit => HP!Init
  BY DEF GuestInit, H!Init, H!Values, HP!Init, HP!Values
<1>2. ASSUME H!Guest PROVE HP!Guest
  BY <1>2
     DEF H!Guest, HP!Guest, H!ClearTrigger, HP!ClearTrigger, H!ClearFails,
         HP!ClearFails, H!FormatPath, HP!FormatPath, H!FormatFails,
         HP!FormatFails, H!WatchPath, HP!WatchPath, H!WatchFails,
         HP!WatchFails, H!Read, HP!Read, H!ReadFails, HP!ReadFails,
         H!WaitEvent, HP!WaitEvent, H!Out, HP!Out, H!HarnessStart,
         HP!HarnessStart, H!Test, HP!Test, H!HarnessStop, HP!HarnessStop,
         H!Goto, HP!Goto, H!store, HP!store, H!locals, HP!locals
<1>3. ASSUME NEW v \in H!Values, H!OperatorWrites(v) PROVE HP!Next
  BY <1>3 DEF H!Values, HP!Values, H!OperatorWrites, HP!OperatorWrites, H!locals,
              HP!locals, HP!Next
<1>4. [Next]_vars => [HP!Next]_HP!vars
  BY <1>2, <1>3 DEF Next, vars, hvars, BootSteps, FuzzSteps, OperatorSteps, HP!Next,
                    HP!vars, HP!store, HP!locals
<1> QED
  BY <1>1, <1>4, PTL DEF Spec, HP!Spec

-----------------------------------------------------------------------------
(* The inductive invariant of Boot.                                        *)

Started == pc \notin {"boot", "tokenize", "dead"}

OnMiniOS == cmd.platform = "minios"

\* Only Mini-OS tokenizes; elsewhere the words are there from the beginning.
Places ==
  /\ cmd \in CommandLines
  /\ ~ OnMiniOS => Started /\ argv = [k \in DOMAIN cmd.words |-> k]

\* A blank lies between the word at b and what is read now.
Ended(b) == \E e \in DOMAIN cmd.text : b < e /\ e < pos /\ cmd.text[e] = "blank"

\* The tokenizer at pos: the blanks before it are gone; the words before it are
\* in argv, in order, and have an end; the current one is not there yet.
Tokens ==
  ~ Started =>
    /\ pos =< Len(cmd.text) + 1
    /\ DOMAIN str = DOMAIN cmd.text
    /\ \A e \in DOMAIN str :
         str[e] = IF e < pos /\ cmd.text[e] = "blank" THEN "NUL" ELSE cmd.text[e]
    /\ Len(argv) < MAX_ARGV_NUM
    /\ token_start = 0 =>
         \/ pos = 1
         \/ cmd.text[pos - 1] = "blank"
    /\ token_start # 0 =>
         /\ token_start \in Starts(cmd.text) /\ token_start < pos
         /\ \A j \in DOMAIN cmd.text :
              token_start =< j /\ j < pos => cmd.text[j] = "char"
         /\ Len(argv) < MAX_ARGV_NUM - 1
         /\ \A k \in DOMAIN argv : argv[k] < token_start
    /\ \A j, k \in DOMAIN argv : j < k => argv[j] < argv[k]
    /\ \A k \in DOMAIN argv : argv[k] \in Starts(cmd.text) /\ Ended(argv[k])
    /\ \A s \in Starts(cmd.text) :
         s < pos => s = token_start \/ \E k \in DOMAIN argv : argv[k] = s

\* What the parsers let through.
Choices ==
  /\ settings.children >= 1
  /\ settings.clone => OnMiniOS
  /\ settings.app = "fuzz" => \E k \in DOMAIN cmd.words : cmd.words[k].arg = "fuzz"

\* The harness waits for main().
Waits == hpc # "clear" => Fuzzing

IInv == TypeOK /\ Places /\ Tokens /\ TokensAreWords /\ Choices /\ Waits

\* What the assumption says of one command line.
LEMMA Line ==
  ASSUME Places
  PROVE  /\ cmd.platform \in {"minios", "posix", "unikraft"}
         /\ cmd.text \in Seq({"char", "blank"})
         /\ cmd.words \in Seq(Words)
         /\ OnMiniOS => Len(cmd.words) = Cardinality(Starts(cmd.text))
         /\ MAX_ARGV_NUM \in Nat /\ MAX_ARGV_NUM >= 2
BY BootAssumption DEF Places, OnMiniOS

\* Nothing is tokenized or parsed yet.
LEMMA InitInv == GuestInit => IInv
<1> SUFFICES ASSUME GuestInit PROVE IInv
  OBVIOUS
<1> USE DEF GuestInit, Init
<1>1. Places
  BY DEF Places, OnMiniOS, Started
<1>2. TypeOK
  BY <1>1, Line DEF TypeOK, PCs, Outcomes, Defaults
<1>3. Tokens
  BY <1>1, Line DEF Tokens, Started, Starts
<1>4. TokensAreWords
  BY DEF TokensAreWords
<1>5. Choices /\ Waits
  BY DEF Choices, Defaults, Waits, H!Init
<1> QED
  BY <1>1, <1>2, <1>3, <1>4, <1>5 DEF IInv

-----------------------------------------------------------------------------
(* The steps of the tokenizer.                                             *)

\* What TypeOK, Choices and Waits say is left alone before parsing starts.
LEMMA TokenizerKeeps ==
  ASSUME IInv, pc \in {"boot", "tokenize"}, pc' \in PCs \ {"running"},
         UNCHANGED << cmd, parser, hvars >>,
         str' \in Seq({"char", "blank", "NUL"}),
         pos' \in Nat \ {0}, token_start' \in Nat, argv' \in Seq(Nat \ {0})
  PROVE  /\ TypeOK' /\ Places' /\ Choices' /\ Waits'
         /\ OnMiniOS
<1> USE DEF IInv
<1>1. OnMiniOS /\ OnMiniOS'
  BY DEF Places, Started, OnMiniOS
<1>2. TypeOK' /\ Places'
  BY <1>1 DEF TypeOK, Places, parser
<1>3. Choices' /\ Waits'
  BY <1>1 DEF Choices, Waits, Fuzzing, parser, hvars
<1> QED
  BY <1>1, <1>2, <1>3

\* argv with the current word behind it, or as it was.
LEMMA WordAdded ==
  ASSUME IInv, ~ Started, OnMiniOS
  PROVE  /\ AddToken \in Seq(Nat \ {0})
         /\ Len(AddToken) < MAX_ARGV_NUM
         /\ \A j, k \in DOMAIN AddToken : j < k => AddToken[j] < AddToken[k]
         /\ \A k \in DOMAIN AddToken : AddToken[k] \in Starts(cmd.text)
         /\ \A k \in DOMAIN AddToken : AddToken[k] = token_start \/ Ended(AddToken[k])
         /\ \A k \in DOMAIN argv : k \in DOMAIN AddToken /\ AddToken[k] = argv[k]
         /\ token_start # 0 => \E k \in DOMAIN AddToken : AddToken[k] = token_start
<1> USE Line DEF IInv, AddToken, Tokens
<1>0. argv \in Seq(Nat \ {0}) /\ token_start \in Nat /\ MAX_ARGV_NUM \in Nat
  BY DEF TypeOK
<1>1. CASE token_start = 0
  BY <1>0, <1>1
<1>2. CASE token_start # 0
  <2> DEFINE a == Append(argv, token_start)
  <2>1. /\ a \in Seq(Nat \ {0}) /\ Len(a) = Len(argv) + 1
        /\ DOMAIN a = 1 .. Len(a) /\ DOMAIN argv = 1 .. Len(argv)
        /\ \A k \in DOMAIN argv : a[k] = argv[k]
        /\ a[Len(a)] = token_start
    BY <1>0, <1>2
  <2>2. AddToken = a
    BY <1>2
  <2>3. \A k \in DOMAIN argv : argv[k] < token_start
    BY <1>2
  <2>4. \A j, k \in DOMAIN a : j < k => a[j] < a[k]
    BY <1>0, <2>1, <2>3
  <2>5. Len(a) < MAX_ARGV_NUM
    BY <1>0, <1>2, <2>1
  <2>6. \A k \in DOMAIN a : a[k] \in Starts(cmd.text) /\ (a[k] = token_start \/ Ended(a[k]))
    BY <1>2, <2>1
  <2>7. \A k \in DOMAIN argv : k \in DOMAIN a
    BY <2>1, <1>0
  <2> HIDE DEF a, AddToken, IInv, Tokens
  <2>8. \E k \in DOMAIN a : a[k] = token_start
    <3>1. Len(argv) \in Nat
      BY <1>0
    <3>2. Len(a) \in DOMAIN a
      BY <2>1, <3>1
    <3> QED
      BY <2>1, <3>2
  <2> QED
    BY <2>1, <2>2, <2>4, <2>5, <2>6, <2>7, <2>8
<1> QED
  BY <1>1, <1>2

\* A blank: it becomes a NUL and ends the word before it, if there is one.
LEMMA TokenEndsInv ==
  ASSUME IInv, TokenEnds, UNCHANGED hvars
  PROVE  IInv'
<1> USE DEF TokenEnds, Tokenizing
<1>1. ~ Started /\ ~ Started' /\ pc' = pc /\ pc \in PCs
  BY DEF Started, PCs
<1>2. /\ str \in Seq({"char", "blank", "NUL"}) /\ pos \in Nat \ {0}
      /\ argv \in Seq(Nat \ {0}) /\ token_start \in Nat
  BY DEF IInv, TypeOK
<1>3. OnMiniOS
  BY <1>1 DEF IInv, Places
<1>4. pos \in DOMAIN str /\ DOMAIN str = DOMAIN cmd.text /\ cmd.text[pos] = "blank"
  BY <1>1, <1>2 DEF IInv, Tokens
<1>5. TypeOK' /\ Places' /\ Choices' /\ Waits'
  <2>1. str' \in Seq({"char", "blank", "NUL"})
    BY <1>2, <1>4
  <2>2. argv' \in Seq(Nat \ {0})
    BY <1>1, <1>3, WordAdded
  <2> QED
    BY <1>1, <1>2, <2>1, <2>2, TokenizerKeeps
<1>6. Tokens'
  <2> USE <1>1, <1>3, <1>4
  <2>1. /\ Len(argv') < MAX_ARGV_NUM
        /\ \A j, k \in DOMAIN argv' : j < k => argv'[j] < argv'[k]
        /\ \A k \in DOMAIN argv' : argv'[k] \in Starts(cmd.text)
    BY WordAdded
  <2>2. ASSUME NEW k \in DOMAIN argv'
        PROVE  \E e \in DOMAIN cmd.text :
                 argv'[k] < e /\ e < pos + 1 /\ cmd.text[e] = "blank"
    <3>1. CASE argv'[k] = token_start
      BY <1>2, <2>1, <3>1, Line DEF IInv, Tokens, Starts
    <3>2. CASE Ended(argv'[k])
      <4>1. PICK e \in DOMAIN cmd.text :
              argv'[k] < e /\ e < pos /\ cmd.text[e] = "blank"
        BY <3>2 DEF Ended
      <4>2. e \in Nat
        BY Line DEF IInv
      <4> QED
        BY <1>2, <4>1, <4>2
    <3> QED
      BY <3>1, <3>2, WordAdded
  <2>3. ASSUME NEW s \in Starts(cmd.text), s < pos + 1
        PROVE  \E k \in DOMAIN argv' : argv'[k] = s
    <3>1. s < pos
      BY <1>2, <2>3, Line DEF Starts, IInv
    <3>2. s = token_start \/ \E k \in DOMAIN argv : argv[k] = s
      BY <3>1 DEF IInv, Tokens
    <3>3. s # 0
      BY Line DEF Starts, IInv
    <3> QED
      BY <3>2, <3>3, WordAdded
  <2>4. \A e \in DOMAIN str' :
          str'[e] = IF e < pos' /\ cmd.text[e] = "blank" THEN "NUL" ELSE cmd.text[e]
    BY <1>2 DEF IInv, Tokens
  <2>5. pos' =< Len(cmd.text) + 1 /\ DOMAIN str' = DOMAIN cmd.text
    BY <1>2, Line DEF IInv
  <2>6. \A k \in DOMAIN argv' : Ended(argv[k])'
    BY <2>2 DEF Ended
  <2>7. pos' - 1 = pos /\ cmd' = cmd /\ token_start' = 0 /\ pos' = pos + 1
    BY <1>2
  <2> QED
    BY <2>1, <2>6, <2>3, <2>4, <2>5, <2>7 DEF Tokens
<1>7. TokensAreWords'
  BY <1>1 DEF TokensAreWords, Started
<1> QED
  BY <1>5, <1>6, <1>7 DEF IInv

\* A character: the current word goes on, or one begins.
LEMMA TokenCharInv ==
  ASSUME IInv, TokenChar, UNCHANGED hvars
  PROVE  IInv'
<1> USE DEF TokenChar, Tokenizing
<1>1. ~ Started /\ ~ Started' /\ pc' = pc /\ pc \in PCs
  BY DEF Started, PCs
<1>2. /\ str \in Seq({"char", "blank", "NUL"}) /\ pos \in Nat \ {0}
      /\ argv \in Seq(Nat \ {0}) /\ token_start \in Nat
  BY DEF IInv, TypeOK
<1>3. OnMiniOS
  BY <1>1 DEF IInv, Places
<1>4. /\ pos \in DOMAIN str /\ DOMAIN str = DOMAIN cmd.text
      /\ cmd.text[pos] = "char"
  BY <1>1, <1>2 DEF IInv, Tokens
<1>5. TypeOK' /\ Places' /\ Choices' /\ Waits'
  BY <1>1, <1>2, TokenizerKeeps
<1>6. Tokens'
  <2> USE <1>1, <1>2, <1>3, <1>4
  <2> DEFINE t == IF token_start = 0 THEN pos ELSE token_start
  <2>1. t \in Starts(cmd.text)
    BY Line DEF IInv, Tokens, Starts
  <2>2. t # 0 /\ t < pos + 1
    BY DEF IInv, Tokens
  <2>3. \A j \in DOMAIN cmd.text : t =< j /\ j < pos + 1 => cmd.text[j] = "char"
    BY Line DEF IInv, Tokens
  <2>4. \A k \in DOMAIN argv : argv[k] < t
    <3> TAKE k \in DOMAIN argv
    <3>1. PICK e \in DOMAIN cmd.text : argv[k] < e /\ e < pos /\ cmd.text[e] = "blank"
      BY DEF IInv, Tokens, Ended
    <3>2. argv[k] \in Nat /\ e \in Nat
      BY Line DEF IInv
    <3> QED
      BY <3>1, <3>2 DEF IInv, Tokens
  <2>5. \A e \in DOMAIN str :
          str[e] = IF e < pos + 1 /\ cmd.text[e] = "blank" THEN "NUL" ELSE cmd.text[e]
    BY Line DEF IInv, Tokens
  <2>6. \A k \in DOMAIN argv : Ended(argv[k])'
    <3> TAKE k \in DOMAIN argv
    <3>1. PICK e \in DOMAIN cmd.text : argv[k] < e /\ e < pos /\ cmd.text[e] = "blank"
      BY DEF IInv, Tokens, Ended
    <3>2. e < pos + 1
      BY <3>1, Line DEF IInv
    <3> QED
      BY <3>1, <3>2 DEF Ended
  <2>7. ASSUME NEW s \in Starts(cmd.text), s < pos + 1
        PROVE  s = t \/ \E k \in DOMAIN argv : argv[k] = s
    <3>1. CASE s < pos
      <4>1. s = token_start \/ \E k \in DOMAIN argv : argv[k] = s
        BY <3>1 DEF IInv, Tokens
      <4>2. s # 0
        BY Line DEF Starts, IInv
      <4> QED
        BY <4>1, <4>2
    <3>2. CASE ~ (s < pos)
      <4>1. s = pos /\ (pos = 1 \/ cmd.text[pos - 1] = "blank")
        BY <2>7, <3>2, Line DEF Starts, IInv
      <4>2. CASE token_start # 0
        <5>1. pos - 1 \in DOMAIN cmd.text /\ token_start =< pos - 1
          BY <4>2, Line DEF IInv, Tokens, Starts
        <5>2. cmd.text[pos - 1] = "char"
          BY <4>2, <5>1 DEF IInv, Tokens
        <5> QED
          BY <4>1, <5>1, <5>2 DEF IInv, Tokens
      <4> QED
        BY <4>1, <4>2
    <3> QED
      BY <3>1, <3>2
  <2>8. Len(argv) < MAX_ARGV_NUM - 1 /\ Len(argv) < MAX_ARGV_NUM
    BY Line DEF IInv
  <2>9. /\ pos' = pos + 1 /\ token_start' = t
        /\ UNCHANGED << pc, cmd, str, argv >>
    OBVIOUS
  <2>10. pos + 1 =< Len(cmd.text) + 1
    BY Line DEF IInv
  <2>11. /\ \A j, k \in DOMAIN argv : j < k => argv[j] < argv[k]
         /\ \A k \in DOMAIN argv : argv[k] \in Starts(cmd.text)
    BY DEF IInv, Tokens
  <2> HIDE DEF t, TokenChar, Tokenizing
  <2> QED
    BY <2>1, <2>2, <2>3, <2>4, <2>5, <2>6, <2>7, <2>8, <2>9, <2>10, <2>11 DEF Tokens
<1>7. TokensAreWords'
  BY <1>1 DEF TokensAreWords, Started
<1> QED
  BY <1>5, <1>6, <1>7 DEF IInv

\* The end of the text, or of the room in argv.
LEMMA TokenizedInv ==
  ASSUME IInv, Tokenized, UNCHANGED hvars
  PROVE  IInv'
<1> USE DEF Tokenized, Goto
<1>1. ~ Started /\ Started' /\ pc' \in PCs \ {"running"}
  BY DEF Started, PCs
<1>2. /\ str \in Seq({"char", "blank", "NUL"}) /\ pos \in Nat \ {0}
      /\ argv \in Seq(Nat \ {0}) /\ token_start \in Nat
  BY DEF IInv, TypeOK
<1>3. OnMiniOS
  BY <1>1 DEF IInv, Places
<1>4. argv' = AddToken /\ AddToken \in Seq(Nat \ {0})
  BY <1>1, <1>3, WordAdded
<1>5. TypeOK' /\ Places' /\ Choices' /\ Waits'
  BY <1>1, <1>2, <1>4, TokenizerKeeps
<1>6. Tokens'
  BY <1>1 DEF Tokens
<1>7. TokensAreWords'
  <2> USE <1>1, <1>2, <1>3
  <2>1. ASSUME NEW s \in Starts(cmd.text)
        PROVE  \/ \E k \in DOMAIN AddToken : AddToken[k] = s
               \/ Len(AddToken) = MAX_ARGV_NUM - 1 /\ \A k \in DOMAIN AddToken : AddToken[k] < s
    <3>1. CASE s < pos
      <4>1. s = token_start \/ \E k \in DOMAIN argv : argv[k] = s
        BY <3>1 DEF IInv, Tokens
      <4>2. s # 0
        BY Line DEF Starts, IInv
      <4> QED
        BY <4>1, <4>2, WordAdded
    <3>2. CASE ~ (s < pos)
      <4>1. Len(argv) = MAX_ARGV_NUM - 1
        BY <3>2, Line DEF Starts, IInv, Tokens, Tokenizing
      <4>2. AddToken = argv
        BY <4>1 DEF AddToken, IInv, Tokens
      <4>3. ASSUME NEW k \in DOMAIN argv PROVE argv[k] < s
        <5>1. PICK e \in DOMAIN cmd.text : argv[k] < e /\ e < pos
          BY DEF IInv, Tokens, Ended
        <5>2. argv[k] \in Nat /\ e \in Nat /\ s \in Nat
          BY Line DEF IInv, Starts
        <5> QED
          BY <3>2, <5>1, <5>2
      <4> QED
        BY <4>1, <4>2, <4>3
    <3> QED
      BY <3>1, <3>2
  <2>2. ASSUME NEW k \in DOMAIN AddToken, NEW e \in DOMAIN str, AddToken[k] < e,
               \A j \in AddToken[k] .. e - 1 : cmd.text[j] = "char"
        PROVE  str[e] = IF cmd.text[e] = "char" THEN "char" ELSE "NUL"
    <3>0. e \in Nat /\ AddToken[k] \in Nat /\ DOMAIN str = DOMAIN cmd.text
          /\ cmd.text[e] \in {"char", "blank"}
      BY <1>4, Line DEF IInv, Tokens
    <3>1. cmd.text[e] = "blank" => e < pos
      <4>1. CASE Ended(AddToken[k])
        <5>1. PICK b \in DOMAIN cmd.text :
                AddToken[k] < b /\ b < pos /\ cmd.text[b] = "blank"
          BY <4>1 DEF Ended
        <5>2. b \in Nat
          BY Line DEF IInv
        <5>3. ~ (b =< e - 1)
          BY <2>2, <3>0, <5>1, <5>2
        <5> QED
          BY <3>0, <5>1, <5>2, <5>3
      <4>2. CASE AddToken[k] = token_start
        <5>1. token_start # 0
          BY <1>4, <4>2
        <5>2. ~ (pos =< Len(str))
          BY <5>1, Line DEF IInv, Tokens, Tokenizing
        <5> QED
          BY <5>2, <3>0
      <4> QED
        BY <4>1, <4>2, WordAdded
    <3> QED
      BY <3>0, <3>1 DEF IInv, Tokens
  <2>3. UNCHANGED << cmd, str >>
    OBVIOUS
  <2>4. /\ Len(AddToken) < MAX_ARGV_NUM
        /\ \A j, k \in DOMAIN AddToken : j < k => AddToken[j] < AddToken[k]
        /\ \A k \in DOMAIN AddToken : AddToken[k] \in Starts(cmd.text)
    BY WordAdded
  <2> HIDE DEF Tokenized
  <2> QED
    BY <1>4, <2>1, <2>2, <2>3, <2>4 DEF TokensAreWords
<1> QED
  BY <1>5, <1>6, <1>7 DEF IInv

\* The thread starts, or there is none.
LEMMA CreateThreadInv ==
  ASSUME IInv, CreateThread, UNCHANGED hvars
  PROVE  IInv'
<1> USE DEF CreateThread, Goto
<1>1. pc' \in PCs \ {"running"} /\ ~ Started /\ ~ Started'
  BY DEF Started, PCs, Outcomes
<1>2. TypeOK' /\ Places' /\ Choices' /\ Waits'
  BY <1>1, TokenizerKeeps DEF IInv, TypeOK, tokenizer
<1>3. Tokens' /\ TokensAreWords'
  BY <1>1 DEF IInv, Tokens, TokensAreWords, Started, tokenizer, Ended
<1> QED
  BY <1>2, <1>3 DEF IInv

-----------------------------------------------------------------------------
(* The steps of the parsers.                                               *)

\* Every entry of argv points to a word of the line.
LEMMA WordsThere ==
  ASSUME IInv, Started, NEW k \in DOMAIN argv
  PROVE  /\ WordAt(k) \in Words
         /\ ~ OnMiniOS => k \in DOMAIN cmd.words /\ WordAt(k) = cmd.words[k]
<1> USE Line DEF IInv
<1>1. cmd.words \in Seq(Words)
  OBVIOUS
<1>2. CASE ~ OnMiniOS
  <2>1. argv[k] = k /\ k \in DOMAIN cmd.words
    BY <1>2 DEF Places
  <2> QED
    BY <1>1, <1>2, <2>1 DEF WordAt, OnMiniOS
<1>3. CASE OnMiniOS
  <2> DEFINE S == Starts(cmd.text)
             B == {s \in S : s =< argv[k]}
  <2>1. S \subseteq 1 .. Len(cmd.text)
    BY DEF Starts
  <2>2. IsFiniteSet(1 .. Len(cmd.text))
    BY FS_Interval
  <2>3. IsFiniteSet(S)
    BY <2>1, <2>2, FS_Subset
  <2>4. B \subseteq S
    OBVIOUS
  <2>5. IsFiniteSet(B) /\ Cardinality(B) =< Cardinality(S)
    BY <2>3, <2>4, FS_Subset
  <2>6. argv[k] \in B
    BY <1>3, <2>1 DEF TokensAreWords, Started, OnMiniOS
  <2>7. Cardinality(B) \in Nat /\ Cardinality(B) # 0
    BY <2>5, <2>6, FS_CardinalityType, FS_EmptySet
  <2>8. Cardinality(S) = Len(cmd.words)
    BY <1>3
  <2>9. Cardinality(B) \in DOMAIN cmd.words
    BY <1>1, <2>5, <2>7, <2>8
  <2>10. WordAt(k) = cmd.words[Cardinality(B)]
    BY <1>3 DEF WordAt, OnMiniOS
  <2> HIDE DEF B
  <2> QED
    BY <1>1, <1>3, <2>9, <2>10
<1> QED
  BY <1>2, <1>3

\* The arguments of the words.
LEMMA ArgumentsThere ==
  ASSUME IInv, Started, NEW k \in DOMAIN argv
  PROVE  WordAt(k).arg \in Arguments \cup {"none"}
<1>1. WordAt(k) \in Words
  BY WordsThere
<1> QED
  BY <1>1 DEF Words, Word

\* The values of settings.
Settings == [app : Arguments \cup {"NONE"},
             time : BOOLEAN, fork : BOOLEAN, clone : BOOLEAN,
             children : Int, sleep : Int,
             memory : Arguments \cup {"NULL", "none"}]

\* Main's thread after the tokenizer: the line and argv stay, and the settings are
\* what main() may rely on.
LEMMA MainKeeps ==
  ASSUME IInv, Started, pc # "running", pc' \in PCs \ {"boot", "tokenize", "dead"},
         UNCHANGED << cmd, tokenizer, hvars >>,
         i' \in Nat \ {0}, rc' \in {0, -1},
         settings' \in Settings, Choices'
  PROVE  IInv'
<1> USE DEF IInv, tokenizer
<1>1. Started'
  BY DEF Started
<1>2. TypeOK'
  BY DEF TypeOK, Settings
<1>3. Places' /\ Tokens'
  BY <1>1 DEF Places, Tokens, OnMiniOS
<1>4. TokensAreWords'
  BY <1>1 DEF TokensAreWords, Started
<1>5. Waits'
  BY DEF Waits, Fuzzing, hvars
<1> QED
  BY <1>2, <1>3, <1>4, <1>5

\* The program stops while it parses.
LEMMA StopInv ==
  ASSUME IInv, pc = "parse", NEW o \in {"usage", "refused", "helped", "crashed"},
         Stop(o), UNCHANGED hvars
  PROVE  IInv'
<1> USE DEF Stop, Goto, parser
<1>1. Started /\ pc' \in PCs \ {"boot", "tokenize", "dead"}
  BY DEF Started, PCs, Outcomes
<1>2. Choices'
  BY DEF IInv, Choices, OnMiniOS
<1> QED
  BY <1>1, <1>2, MainKeeps DEF IInv, TypeOK, Settings

\* An iteration that sets what main() may rely on.
LEMMA SetInv ==
  ASSUME IInv, pc = "parse", NEW field \in DOMAIN Defaults, NEW value, NEW n \in {1, 2},
         Set(field, value, n), UNCHANGED hvars,
         [settings EXCEPT ![field] = value] \in Settings,
         field = "children" => value >= 1,
         field = "clone" => OnMiniOS,
         field = "app" /\ value = "fuzz" =>
           \E k \in DOMAIN cmd.words : cmd.words[k].arg = "fuzz"
  PROVE  IInv'
<1> USE DEF Set
<1>1. Started /\ pc' \in PCs \ {"boot", "tokenize", "dead"}
  BY DEF Started, PCs
<1>2. i \in Nat \ {0} /\ rc \in {0, -1} /\ settings \in Settings
  BY DEF IInv, TypeOK, Settings
<1>3. i' \in Nat \ {0} /\ rc' \in {0, -1} /\ settings' \in Settings
  BY <1>2
<1>4. Choices'
  BY <1>2 DEF IInv, Choices, Settings, OnMiniOS
<1> QED
  BY <1>1, <1>3, <1>4, MainKeeps DEF Settings

\* The numbers that sscanf() and atoi() return.
LEMMA Numbers ==
  \A a, old : old \in Int => sscanf(a, old) \in Int /\ atoi(a) \in Int
BY DEF sscanf, atoi, Numeral

\* The iteration of os/minios/cmdline.c.
LEMMA MiniOSInv ==
  ASSUME IInv, UNCHANGED hvars,
         \/ Help \/ App \/ Children \/ Sleep \/ Memory \/ Invalid
         \/ \E o \in {"time", "fork", "clone"} : Flag(o)
  PROVE  IInv'
<1>1. pc = "parse" /\ OnMiniOS /\ Started /\ i =< Len(argv)
  BY DEF Help, App, Children, Sleep, Memory, Invalid, Flag, IsOption, Parsing,
         OnMiniOS, Started
<1>2. i \in Nat \ {0} /\ rc \in {0, -1} /\ settings \in Settings
  BY DEF IInv, TypeOK, Settings
<1>3. Following \subseteq Arguments \cup {"NULL", "none"}
  <2>1. i < Len(argv) => i + 1 \in DOMAIN argv
    BY <1>2 DEF IInv, TypeOK
  <2> QED
    BY <1>1, <2>1, ArgumentsThere DEF Following
<1>4. "fuzz" \notin Built /\ Built \subseteq Arguments
  BY <1>1 DEF Built, OnMiniOS, Arguments
<1>5. CASE Help
  BY <1>1, <1>5, StopInv DEF Help
<1>6. ASSUME App PROVE IInv'
  <2>1. PICK a \in Following :
          \/ Stop("crashed") \/ Stop("refused")
          \/ string_to_app(a) # "NONE" /\ Set("app", a, 2)
    BY <1>6 DEF App
  <2>2. CASE Stop("crashed") \/ Stop("refused")
    BY <1>1, <2>2, StopInv
  <2>3. CASE string_to_app(a) # "NONE" /\ Set("app", a, 2)
    <3>1. a \in Built
      BY <2>3 DEF string_to_app
    <3>2. [settings EXCEPT !["app"] = a] \in Settings
      BY <1>2, <1>4, <3>1 DEF Settings
    <3> QED
      BY <1>1, <1>4, <2>3, <3>1, <3>2, SetInv DEF Defaults
  <2> QED
    BY <2>1, <2>2, <2>3
<1>7. ASSUME Children PROVE IInv'
  <2>1. PICK a \in Following :
          \/ Stop("crashed") \/ Stop("refused")
          \/ /\ ~ (sscanf(a, settings.children) < 1)
             /\ Set("children", sscanf(a, settings.children), 2)
    BY <1>7 DEF Children
  <2>2. CASE Stop("crashed") \/ Stop("refused")
    BY <1>1, <2>2, StopInv
  <2>3. CASE /\ ~ (sscanf(a, settings.children) < 1)
             /\ Set("children", sscanf(a, settings.children), 2)
    <3> DEFINE n == sscanf(a, settings.children)
    <3>1. n \in Int
      BY <1>2, Numbers DEF Settings
    <3>2. n >= 1 /\ Set("children", n, 2)
      BY <2>3, <3>1
    <3> HIDE DEF n
    <3>3. [settings EXCEPT !["children"] = n] \in Settings
      BY <1>2, <3>1 DEF Settings
    <3> QED
      BY <1>1, <3>2, <3>3, SetInv DEF Defaults
  <2> QED
    BY <2>1, <2>2, <2>3
<1>8. ASSUME Sleep PROVE IInv'
  <2>1. PICK a \in Following :
          Stop("crashed") \/ Set("sleep", sscanf(a, settings.sleep), 2)
    BY <1>8 DEF Sleep
  <2>2. CASE Stop("crashed")
    BY <1>1, <2>2, StopInv
  <2>3. CASE Set("sleep", sscanf(a, settings.sleep), 2)
    <3> DEFINE n == sscanf(a, settings.sleep)
    <3>1. n \in Int
      BY <1>2, Numbers DEF Settings
    <3>2. Set("sleep", n, 2)
      BY <2>3
    <3> HIDE DEF n
    <3>3. [settings EXCEPT !["sleep"] = n] \in Settings
      BY <1>2, <3>1 DEF Settings
    <3> QED
      BY <1>1, <3>2, <3>3, SetInv DEF Defaults
  <2> QED
    BY <2>1, <2>2, <2>3
<1>9. ASSUME Memory PROVE IInv'
  <2>1. PICK a \in Following : Set("memory", a, 2)
    BY <1>9 DEF Memory
  <2>2. [settings EXCEPT !["memory"] = a] \in Settings
    BY <1>2, <1>3 DEF Settings
  <2> QED
    BY <1>1, <2>1, <2>2, SetInv DEF Defaults
<1>10. ASSUME NEW o \in {"time", "fork", "clone"}, Flag(o) PROVE IInv'
  <2>1. [settings EXCEPT ![o] = TRUE] \in Settings
    BY <1>2 DEF Settings
  <2> QED
    BY <1>1, <1>10, <2>1, SetInv DEF Flag, Defaults
<1>11. ASSUME Invalid PROVE IInv'
  <2>1. Choices'
    BY <1>11 DEF Invalid, IInv, Choices, OnMiniOS
  <2>2. i' \in Nat \ {0} /\ UNCHANGED << pc, cmd, tokenizer, rc, settings >>
    BY <1>2, <1>11 DEF Invalid
  <2> QED
    BY <1>1, <1>2, <2>1, <2>2, MainKeeps DEF Settings, PCs
<1> QED
  BY <1>5, <1>6, <1>7, <1>8, <1>9, <1>10, <1>11

\* The iteration of os/posix/cmdline.c.
LEMMA PosixInv ==
  ASSUME IInv, UNCHANGED hvars,
         \/ GetoptHelp \/ GetoptApp \/ GetoptChildren \/ GetoptSleep \/ GetoptMemory
         \/ GetoptRejects
         \/ \E o \in {"time", "fork", "clone"} : GetoptFlag(o)
  PROVE  IInv'
<1>1. pc = "parse" /\ ~ OnMiniOS /\ Started /\ i =< Len(argv)
  BY DEF GetoptHelp, GetoptApp, GetoptChildren, GetoptSleep, GetoptMemory,
         GetoptRejects, GetoptFlag, Getopt, Parsing, OnMiniOS, Started
<1>2. i \in Nat \ {0} /\ rc \in {0, -1} /\ settings \in Settings
  BY DEF IInv, TypeOK, Settings
<1>3. argv \in Seq(Nat \ {0})
  BY DEF IInv, TypeOK
<1>4. Used \in {1, 2}
  BY DEF Used
\* Where optarg is used there is one.
<1>5. ASSUME NEW o \in {"app", "children", "sleep", "memory"}, Getopt(o)
      PROVE  /\ optarg \in Arguments \cup {"none"}
             /\ \E k \in DOMAIN cmd.words : cmd.words[k].arg = optarg
  <2>1. i \in DOMAIN argv /\ WordAt(i) \in Words
    BY <1>1, <1>2, <1>3, WordsThere
  <2>2. NeedsArg(WordAt(i))
    BY <1>5, <2>1 DEF Getopt, Known, NeedsArg, short_opts, short_args, long_opts, TakesArg
  <2>3. i + 1 \in DOMAIN argv
    BY <1>2, <1>3, <1>5, <2>2 DEF Getopt
  <2> QED
    BY <1>1, <2>3, WordsThere, ArgumentsThere DEF optarg
<1>6. CASE GetoptHelp
  BY <1>1, <1>6, StopInv DEF GetoptHelp
<1>7. ASSUME GetoptApp PROVE IInv'
  <2>1. CASE Stop("refused")
    BY <1>1, <2>1, StopInv
  <2>2. CASE string_to_app(optarg) # "NONE" /\ Set("app", optarg, Used)
    <3>1. optarg \in Arguments /\ \E k \in DOMAIN cmd.words : cmd.words[k].arg = optarg
      BY <1>5, <1>7, <2>2 DEF GetoptApp, string_to_app, Built, Arguments
    <3> DEFINE a == optarg
    <3>2. [settings EXCEPT !["app"] = a] \in Settings
      BY <1>2, <3>1 DEF Settings
    <3>3. a = "fuzz" => \E k \in DOMAIN cmd.words : cmd.words[k].arg = "fuzz"
      BY <3>1
    <3>4. Set("app", a, Used)
      BY <2>2
    <3> HIDE DEF a
    <3> QED
      BY <1>1, <1>4, <3>2, <3>3, <3>4, SetInv DEF Defaults
  <2> QED
    BY <1>7, <2>1, <2>2 DEF GetoptApp
<1>8. ASSUME GetoptChildren PROVE IInv'
  <2> DEFINE n == atoi(optarg)
  <2>1. CASE Stop("refused")
    BY <1>1, <2>1, StopInv
  <2>2. CASE ~ (n < 1) /\ Set("children", n, Used)
    <3>1. n \in Int
      BY Numbers DEF atoi
    <3>2. n >= 1 /\ Set("children", n, Used)
      BY <2>2, <3>1
    <3> HIDE DEF n
    <3>3. [settings EXCEPT !["children"] = n] \in Settings
      BY <1>2, <3>1 DEF Settings
    <3> QED
      BY <1>1, <1>4, <3>2, <3>3, SetInv DEF Defaults
  <2> QED
    BY <1>8, <2>1, <2>2 DEF GetoptChildren
<1>9. ASSUME GetoptSleep PROVE IInv'
  <2> DEFINE n == atoi(optarg)
  <2>1. CASE Stop("refused")
    BY <1>1, <2>1, StopInv
  <2>2. CASE Set("sleep", n, Used)
    <3>1. n \in Int /\ Set("sleep", n, Used)
      BY <2>2, Numbers DEF atoi
    <3> HIDE DEF n
    <3>2. [settings EXCEPT !["sleep"] = n] \in Settings
      BY <1>2, <3>1 DEF Settings
    <3> QED
      BY <1>1, <1>4, <3>1, <3>2, SetInv DEF Defaults
  <2> QED
    BY <1>9, <2>1, <2>2 DEF GetoptSleep
<1>10. ASSUME GetoptMemory PROVE IInv'
  <2> DEFINE a == optarg
  <2>1. a \in Arguments \cup {"NULL", "none"} /\ Set("memory", a, Used)
    BY <1>5, <1>10 DEF GetoptMemory
  <2> HIDE DEF a
  <2>2. [settings EXCEPT !["memory"] = a] \in Settings
    BY <1>2, <2>1 DEF Settings
  <2> QED
    BY <1>1, <1>4, <2>1, <2>2, SetInv DEF Defaults
<1>11. ASSUME NEW o \in {"time", "fork", "clone"}, GetoptFlag(o) PROVE IInv'
  <2>1. i \in DOMAIN argv /\ WordAt(i) \in Words
    BY <1>1, <1>2, <1>3, WordsThere
  <2>2. o # "clone"
    BY <1>11, <2>1 DEF GetoptFlag, Getopt, Known, short_opts, long_opts
  <2>3. [settings EXCEPT ![o] = TRUE] \in Settings
    BY <1>2 DEF Settings
  <2> QED
    BY <1>1, <1>4, <1>11, <2>2, <2>3, SetInv DEF GetoptFlag, Defaults
<1>12. ASSUME GetoptRejects PROVE IInv'
  <2>1. Choices'
    BY <1>12 DEF GetoptRejects, IInv, Choices, OnMiniOS
  <2>2. /\ i' \in Nat \ {0} /\ rc' = -1
        /\ UNCHANGED << pc, cmd, tokenizer, settings >>
    BY <1>2, <1>12 DEF GetoptRejects
  <2> QED
    BY <1>1, <1>2, <2>1, <2>2, MainKeeps DEF PCs
<1> QED
  BY <1>6, <1>7, <1>8, <1>9, <1>10, <1>11, <1>12

\* The rest of main().
LEMMA MainInv ==
  ASSUME IInv, UNCHANGED hvars, Parsed \/ AppInit \/ StartApp
  PROVE  IInv'
<1> USE DEF Parsed, AppInit, StartApp, Goto, parser
<1>1. Started /\ pc # "running" /\ pc' \in PCs \ {"boot", "tokenize", "dead"}
  BY DEF Started, PCs, Outcomes
<1>2. UNCHANGED << cmd, tokenizer, parser >>
  OBVIOUS
<1>3. Choices'
  BY <1>2 DEF IInv, Choices, OnMiniOS
<1> QED
  BY <1>1, <1>2, <1>3, MainKeeps DEF IInv, TypeOK, Settings

-----------------------------------------------------------------------------
\* The harness and its operator leave the command line and main() alone.
LEMMA HarnessKeeps ==
  ASSUME IInv, UNCHANGED bvars, Waits'
  PROVE  IInv'
BY DEF IInv, bvars, tokenizer, parser, TypeOK, Places, Tokens, TokensAreWords,
       Choices, Started, OnMiniOS, Ended

\* Every step keeps the invariant.
LEMMA NextInv == IInv /\ [Next]_vars => IInv'
<1> SUFFICES ASSUME IInv, [Next]_vars PROVE IInv'
  OBVIOUS
<1>1. CASE UNCHANGED vars
  BY <1>1, HarnessKeeps DEF vars, hvars, bvars, IInv, Waits, Fuzzing, parser
<1>2. CASE BootSteps
  <2>1. UNCHANGED hvars
    BY <1>2 DEF BootSteps
  <2>2. CASE CreateThread \/ TokenEnds \/ TokenChar \/ Tokenized
    BY <2>1, <2>2, CreateThreadInv, TokenEndsInv, TokenCharInv, TokenizedInv
  <2>3. CASE \/ Help \/ App \/ Children \/ Sleep \/ Memory \/ Invalid
             \/ \E o \in {"time", "fork", "clone"} : Flag(o)
    BY <2>1, <2>3, MiniOSInv
  <2>4. CASE \/ GetoptHelp \/ GetoptApp \/ GetoptChildren \/ GetoptSleep
             \/ GetoptMemory \/ GetoptRejects
             \/ \E o \in {"time", "fork", "clone"} : GetoptFlag(o)
    BY <2>1, <2>4, PosixInv
  <2>5. CASE Parsed \/ AppInit \/ StartApp
    BY <2>1, <2>5, MainInv
  <2> QED
    BY <1>2, <2>2, <2>3, <2>4, <2>5 DEF BootSteps, BootStep
<1>3. CASE FuzzSteps \/ OperatorSteps
  <2>1. Fuzzing /\ UNCHANGED bvars
    BY <1>3 DEF FuzzSteps, OperatorSteps
  <2>2. Waits'
    BY <2>1 DEF Waits, Fuzzing, bvars, parser
  <2> QED
    BY <2>1, <2>2, HarnessKeeps
<1> QED
  BY <1>1, <1>2, <1>3 DEF Next

\* The invariant, for every command line and every size of argv.
THEOREM BootInvariant == Spec => []IInv
  BY InitInv, NextInv, PTL DEF Spec

\* Every variable keeps its type: the tokenizer and the parsers stay inside the
\* text and argv, whatever the line.
THEOREM GuestTypeCorrect == Spec => []GuestTypeOK
<1>1. Spec => []HP!TypeOK
  BY HP!HarnessTypes, ImplementsHarness, PTL
<1>2. IInv /\ HP!TypeOK => GuestTypeOK
  BY DEF IInv, GuestTypeOK, HP!TypeOK, HP!PCs, HP!Waiting, HP!Fuzzing, HP!Values,
         H!TypeOK, H!PCs, H!Waiting, H!Fuzzing, H!Values
<1> QED
  BY <1>1, <1>2, BootInvariant, PTL

\* cmdline_tokenize() finds every word, in order, as long as there is room, and
\* ends each, for every text.
THEOREM WordsFound == Spec => []TokensAreWords
<1>1. IInv => TokensAreWords
  BY DEF IInv
<1> QED
  BY <1>1, BootInvariant, PTL

\* No command line starts an application without a positive number of children,
\* or with clones where there are none.
THEOREM PrologueMayStart == Spec => []PrologueAssumptionsHold
<1>1. IInv => PrologueAssumptionsHold
  BY DEF IInv, Choices, PrologueAssumptionsHold, OnMiniOS
<1> QED
  BY <1>1, BootInvariant, PTL

\* The harness starts only in a guest that was told to fuzz, and after a success
\* of wait_harness_trigger() only when the operator asked for it in this run.
THEOREM FuzzesOnRequest == Spec => []TriggeredByOperator
<1>1. Spec => []HP!TriggeredByOperator
  BY HP!StartsTriggered, ImplementsHarness, PTL
<1>2. IInv /\ HP!TriggeredByOperator => TriggeredByOperator
  BY DEF IInv, Waits, Choices, Fuzzing, TriggeredByOperator, H!Fuzzing,
         HP!TriggeredByOperator, HP!Fuzzing
<1> QED
  BY <1>1, <1>2, BootInvariant, PTL

-----------------------------------------------------------------------------
(* A line that means something is followed to the letter.                  *)

\* Where the words of the line's items begin.
PlacesOf(c) == CHOOSE at \in Positions(c) : SpellsOut(c, at)

At == PlacesOf(cmd)

\* The lines the parser of the platform can be asked to follow: every item
\* means something, and argv or the parser has what it takes.
Understood ==
  /\ LineIsProper
  /\ IF OnMiniOS THEN Len(cmd.words) < MAX_ARGV_NUM
     ELSE \A k \in DOMAIN cmd.items : PosixTakes(cmd.items[k])

\* What the first n items of a line mean.
WithOption(c, n, o) == {k \in 1 .. n : c.items[k].opt = o}

LastOf(I) == CHOOSE k \in I : \A j \in I : j =< k

Says(item, o) == IF o \in TakesArg THEN item.arg ELSE TRUE

MeantBy(c, n, o, default) ==
  IF WithOption(c, n, o) = {} THEN default
  ELSE Says(c.items[LastOf(WithOption(c, n, o))], o)

MeaningBy(c, n) ==
  [o \in DOMAIN Defaults |->
     IF o \in {"children", "sleep"} THEN sscanf(MeantBy(c, n, o, "none"), Defaults[o])
     ELSE MeantBy(c, n, o, Defaults[o])]

\* Between two iterations the settings are what the items so far mean, and the
\* next word is the first of an item: no argument is ever taken for an option.
Followed ==
  Understood =>
    /\ rc = 0
    /\ pc \in {"boot", "tokenize", "parse"} =>
         \E k \in 1 .. Len(cmd.items) + 1 : i = At[k] /\ settings = MeaningBy(cmd, k - 1)
    /\ pc \in {"init", "switch", "running", "usage"} => settings = MeaningBy(cmd, Len(cmd.items))
    /\ pc \in Outcomes \ {"dead"} =>
         pc = IF settings.app = "NONE" THEN "usage" ELSE "running"

\* What an item sets its option's variable to.
Value(item) ==
  IF item.opt \in {"children", "sleep"} THEN Numeral[item.arg]
  ELSE IF item.opt \in TakesArg THEN item.arg ELSE TRUE

\* The items of the line are spelled out.
LEMMA Spelled ==
  ASSUME Places
  PROVE  /\ At \in Positions(cmd) /\ SpellsOut(cmd, At)
         /\ cmd.items \in Seq(Items) /\ Len(cmd.items) \in Nat
         /\ DOMAIN cmd.items = 1 .. Len(cmd.items)
<1>1. \E at \in Positions(cmd) : SpellsOut(cmd, at)
  BY BootAssumption DEF Places
<1>2. cmd.items \in Seq(Items)
  BY BootAssumption DEF Places
<1> QED
  BY <1>1, <1>2 DEF At, PlacesOf

\* What one item more changes in the settings: its option, and no other.
LEMMA MeaningGrows ==
  ASSUME NEW c, NEW k \in Nat \ {0}, c.items[k] \in Items, Proper(c.items[k])
  PROVE  MeaningBy(c, k) = [MeaningBy(c, k - 1) EXCEPT ![c.items[k].opt] = Value(c.items[k])]
<1>1. PICK m \in Nat : k = m + 1
  <2>1. k - 1 \in Nat /\ k = (k - 1) + 1
    OBVIOUS
  <2> QED
    BY <2>1
<1>2. k - 1 = m
  BY <1>1
<1>3. PICK item : item = c.items[k]
  OBVIOUS
<1>4. \A o, default :
        MeantBy(c, k, o, default) =
          IF item.opt = o THEN Says(item, o) ELSE MeantBy(c, m, o, default)
  <2> TAKE o, default
  <2> DEFINE I == WithOption(c, k, o)
  <2>1. CASE item.opt = o
    <3>1. k \in I /\ \A j \in I : j =< k /\ j \in Nat
      BY <1>3, <2>1 DEF WithOption
    <3>2. LastOf(I) = k
      <4> HIDE DEF I
      <4>1. \A j \in I : (\A l \in I : l =< j) <=> j = k
        BY <3>1
      <4> QED
        BY <3>1, <4>1 DEF LastOf
    <3>3. MeantBy(c, k, o, default) = Says(c.items[LastOf(I)], o)
      BY <3>1 DEF MeantBy
    <3> QED
      BY <1>3, <2>1, <3>2, <3>3
  <2>2. CASE item.opt # o
    <3>1. I = WithOption(c, m, o)
      BY <1>1, <1>3, <2>2 DEF WithOption
    <3> QED
      BY <2>2, <3>1 DEF MeantBy
  <2> QED
    BY <2>1, <2>2
<1>5. /\ item.opt \in {"app", "time", "fork", "clone", "children", "sleep", "memory"}
      /\ item.opt \in {"children", "sleep"} => item.arg \in DOMAIN Numeral
  BY <1>3 DEF Proper, Options, Numeral
<1>6. \A o \in DOMAIN Defaults : o # item.opt => MeaningBy(c, k)[o] = MeaningBy(c, m)[o]
  BY <1>4 DEF MeaningBy
<1>7. item.opt \in DOMAIN Defaults
  BY <1>5 DEF Defaults
<1>8. MeaningBy(c, k)[item.opt] = Value(item)
  <2>1. CASE item.opt \in {"children", "sleep"}
    <3>1. MeaningBy(c, k)[item.opt] = sscanf(item.arg, Defaults[item.opt])
      BY <1>4, <1>7, <2>1 DEF MeaningBy, TakesArg, Says
    <3> QED
      BY <1>5, <2>1, <3>1 DEF Value, sscanf
  <2>2. CASE item.opt \notin {"children", "sleep"}
    <3>1. MeaningBy(c, k)[item.opt] = MeantBy(c, k, item.opt, Defaults[item.opt])
      BY <1>7, <2>2 DEF MeaningBy
    <3> QED
      BY <1>4, <2>2, <3>1 DEF Value, Says
  <2> QED
    BY <2>1, <2>2
<1>9. MeaningBy(c, k) = [MeaningBy(c, m) EXCEPT ![item.opt] = Value(item)]
  <2> DEFINE D == DOMAIN Defaults
             g == [MeaningBy(c, m) EXCEPT ![item.opt] = Value(item)]
  <2>1. /\ DOMAIN MeaningBy(c, k) = D /\ DOMAIN MeaningBy(c, m) = D
        /\ MeaningBy(c, k) = [o \in D |-> MeaningBy(c, k)[o]]
    BY DEF MeaningBy
  <2> HIDE DEF D
  <2>2. g = [o \in D |-> IF o = item.opt THEN Value(item) ELSE MeaningBy(c, m)[o]]
    BY <2>1
  <2>3. \A o \in D : MeaningBy(c, k)[o] =
                        IF o = item.opt THEN Value(item) ELSE MeaningBy(c, m)[o]
    BY <1>6, <1>8 DEF D
  <2> QED
    BY <2>1, <2>2, <2>3
<1> QED
  BY <1>2, <1>3, <1>9

\* What all the items mean is what the line means.
LEMMA AllItems ==
  ASSUME Places
  PROVE  MeaningBy(cmd, Len(cmd.items)) = Meaning
<1>1. DOMAIN cmd.items = 1 .. Len(cmd.items)
  BY Spelled
<1>2. \A o, default : MeantBy(cmd, Len(cmd.items), o, default) = Meant(o, default)
  BY <1>1 DEF MeantBy, Meant, WithOption, LastOf, Says
<1>3. /\ DOMAIN Defaults = DOMAIN Meaning
      /\ Meaning = [o \in DOMAIN Defaults |-> Meaning[o]]
  BY DEF Meaning, Defaults
<1>4. ASSUME NEW o \in DOMAIN Defaults
      PROVE  Meaning[o] = IF o \in {"children", "sleep"}
                            THEN sscanf(Meant(o, "none"), Defaults[o])
                            ELSE Meant(o, Defaults[o])
  <2>1. /\ Meaning["app"] = Meant("app", "NONE") /\ Meaning["memory"] = Meant("memory", "NULL")
        /\ Meaning["children"] = sscanf(Meant("children", "none"), 1)
        /\ Meaning["sleep"] = sscanf(Meant("sleep", "none"), 1000)
    BY DEF Meaning, Defaults
  <2>2. /\ Meaning["time"] = Meant("time", FALSE)
        /\ Meaning["fork"] = Meant("fork", FALSE)
        /\ Meaning["clone"] = Meant("clone", FALSE)
    BY DEF Meaning, Defaults
  <2>3. /\ Defaults["app"] = "NONE" /\ Defaults["memory"] = "NULL"
        /\ Defaults["children"] = 1 /\ Defaults["sleep"] = 1000
        /\ Defaults["time"] = FALSE /\ Defaults["fork"] = FALSE /\ Defaults["clone"] = FALSE
    BY DEF Defaults
  <2>4. CASE o \in {"app", "memory"}
    BY <2>1, <2>3, <2>4
  <2>5. CASE o \in {"children", "sleep"}
    BY <2>1, <2>3, <2>5
  <2>6. CASE o \in {"time", "fork", "clone"}
    <3>1. Defaults[o] = FALSE
      BY <2>3, <2>6
    <3>2. Meaning[o] = Meant(o, FALSE)
      <4>1. o = "time" \/ o = "fork" \/ o = "clone"
        BY <2>6
      <4> QED
        BY <2>2, <4>1, Zenon
    <3>3. o \notin {"children", "sleep"}
      BY <2>6
    <3> QED
      BY <3>1, <3>2, <3>3
  <2> QED
    BY <2>4, <2>5, <2>6 DEF Defaults
<1> QED
  BY <1>2, <1>3, <1>4 DEF MeaningBy

\* On Mini-OS argv has the words of the line, each at its place.
LEMMA WordsInOrder ==
  ASSUME IInv, Started, OnMiniOS, Len(cmd.words) < MAX_ARGV_NUM
  PROVE  /\ Len(argv) = Len(cmd.words)
         /\ \A k \in DOMAIN argv : WordAt(k) = cmd.words[k]
<1> DEFINE S == Starts(cmd.text)
           n == Len(argv)
<1>1. /\ argv \in Seq(Nat \ {0}) /\ n \in Nat /\ MAX_ARGV_NUM \in Nat
      /\ cmd.words \in Seq(Words) /\ Len(cmd.words) \in Nat
      /\ Len(cmd.words) = Cardinality(S)
  BY Line DEF IInv, TypeOK
<1>2. S \subseteq 1 .. Len(cmd.text) /\ Len(cmd.text) \in Nat
  BY Line DEF IInv, Starts
<1>3. IsFiniteSet(S)
  <2>1. IsFiniteSet(1 .. Len(cmd.text))
    BY <1>2, FS_Interval
  <2> QED
    BY <1>2, <2>1, FS_Subset
<1>4. /\ \A j, k \in 1 .. n : j < k => argv[j] < argv[k]
      /\ \A k \in 1 .. n : argv[k] \in S
      /\ \A s \in S : \/ \E k \in 1 .. n : argv[k] = s
                      \/ n = MAX_ARGV_NUM - 1
      /\ DOMAIN argv = 1 .. n
  BY <1>1 DEF IInv, TokensAreWords, Started, OnMiniOS
<1>5. \A j, k \in 1 .. n : j # k => argv[j] # argv[k]
  <2> TAKE j, k \in 1 .. n
  <2>1. argv[j] \in Nat /\ argv[k] \in Nat
    BY <1>1
  <2> QED
    BY <1>4, <2>1
<1> DEFINE f == [k \in 1 .. n |-> argv[k]]
<1>6. f \in Injection(1 .. n, S)
  BY <1>4, <1>5 DEF Injection, IsInjective
<1>7. IsFiniteSet(1 .. n) /\ Cardinality(1 .. n) = n
  <2> HIDE DEF n
  <2>1. n \in Int /\ 1 \in Int
    BY <1>1
  <2>2. IsFiniteSet(1 .. n) /\ Cardinality(1 .. n) = IF 1 > n THEN 0 ELSE n - 1 + 1
    BY <2>1, FS_Interval
  <2> QED
    BY <1>1, <2>2
<1>8. n =< Cardinality(S) /\ (n = Cardinality(S) <=> f \in Surjection(1 .. n, S))
  BY <1>3, <1>6, <1>7, FS_Injection
<1>9. n = Cardinality(S)
  <2>1. CASE n = MAX_ARGV_NUM - 1
    BY <1>1, <1>8, <2>1
  <2>2. CASE n # MAX_ARGV_NUM - 1
    <3>1. f \in Surjection(1 .. n, S)
      BY <1>4, <2>2 DEF Surjection
    <3> QED
      BY <1>8, <3>1
  <2> QED
    BY <2>1, <2>2
<1>10. \A s \in S : \E k \in 1 .. n : argv[k] = s
  <2>1. f \in Surjection(1 .. n, S)
    BY <1>8, <1>9
  <2> QED
    BY <2>1 DEF Surjection
<1>11. ASSUME NEW k \in 1 .. n PROVE WordAt(k) = cmd.words[k]
  <2> DEFINE B == {s \in S : s =< argv[k]}
             g == [j \in 1 .. k |-> argv[j]]
  <2>1. \A j \in 1 .. n : argv[j] \in Nat /\ (argv[j] =< argv[k] <=> j =< k)
    <3> TAKE j \in 1 .. n
    <3>1. argv[j] \in Nat /\ argv[k] \in Nat
      BY <1>1
    <3> QED
      BY <1>4, <3>1
  <2>2. g \in [1 .. k -> B]
    BY <1>1, <1>4, <2>1
  <2>3. \A j, m \in 1 .. k : g[j] = g[m] => j = m
    BY <1>1, <1>5
  <2>4. \A s \in B : \E j \in 1 .. k : g[j] = s
    <3> TAKE s \in B
    <3>1. PICK j \in 1 .. n : argv[j] = s
      BY <1>10
    <3>2. j \in 1 .. k
      BY <2>1, <3>1, <1>1
    <3> QED
      BY <3>1, <3>2
  <2>5. ExistsBijection(1 .. k, B)
    <3> HIDE DEF g, B
    <3> QED
      BY <2>2, <2>3, <2>4 DEF ExistsBijection, Bijection, Injection, IsInjective, Surjection
  <2>6. Cardinality(B) = k
    BY <2>5, FS_CountingElements
  <2> QED
    BY <2>6 DEF WordAt, OnMiniOS
<1> QED
  BY <1>1, <1>4, <1>9, <1>11

\* Every word of an understood line is in argv, at its place.
LEMMA WordsUnderstood ==
  ASSUME IInv, Started, Understood
  PROVE  /\ Len(argv) = Len(cmd.words) /\ Len(cmd.words) \in Nat
         /\ DOMAIN argv = 1 .. Len(argv)
         /\ \A k \in DOMAIN argv : WordAt(k) = cmd.words[k]
<1>1. cmd.words \in Seq(Words) /\ argv \in Seq(Nat \ {0})
  BY Line DEF IInv, TypeOK
<1>2. CASE OnMiniOS
  BY <1>1, <1>2, WordsInOrder DEF Understood
<1>3. CASE ~ OnMiniOS
  <2>1. argv = [k \in DOMAIN cmd.words |-> k]
    BY <1>3 DEF IInv, Places
  <2>2. DOMAIN argv = 1 .. Len(cmd.words)
    BY <1>1, <2>1
  <2>3. Len(argv) = Len(cmd.words)
    BY <1>1, <2>2
  <2> QED
    BY <1>1, <1>3, <2>2, <2>3, WordsThere
<1> QED
  BY <1>2, <1>3

\* The words of the item that is parsed next.
LEMMA ItemHere ==
  ASSUME IInv, Started, Understood, NEW k \in 1 .. Len(cmd.items), i = At[k]
  PROVE  /\ cmd.items[k] \in Items /\ Proper(cmd.items[k])
         /\ ~ OnMiniOS => PosixTakes(cmd.items[k])
         /\ i =< Len(argv) /\ i \in Nat
         /\ WordAt(i) = Word(cmd.items[k].opt, cmd.items[k].form, "none")
         /\ IF cmd.items[k].opt \in TakesArg
              THEN i < Len(argv) /\ WordAt(i + 1).arg = cmd.items[k].arg /\ At[k + 1] = i + 2
              ELSE At[k + 1] = i + 1
<1>0. PICK item : item = cmd.items[k]
  OBVIOUS
<1> DEFINE W == WordsOf(item)
<1>1. /\ item \in Items /\ Proper(item)
      /\ ~ OnMiniOS => PosixTakes(item)
      /\ At \in Positions(cmd) /\ SpellsOut(cmd, At)
      /\ k \in DOMAIN cmd.items /\ Len(cmd.items) \in Nat
  BY <1>0, Spelled DEF IInv, Understood, LineIsProper
<1>2. /\ Len(cmd.words) \in Nat /\ Len(argv) = Len(cmd.words)
      /\ \A j \in 1 .. Len(argv) : WordAt(j) = cmd.words[j]
  BY WordsUnderstood
<1>3. k + 1 \in 1 .. Len(cmd.items) + 1 /\ k \in 1 .. Len(cmd.items) + 1
  BY <1>1
<1>4. At[k] \in 1 .. Len(cmd.words) + 1 /\ At[k + 1] \in 1 .. Len(cmd.words) + 1
  BY <1>1, <1>3 DEF Positions
<1>5. /\ At[k + 1] = At[k] + Len(W)
      /\ \A j \in DOMAIN W : cmd.words[At[k] + j - 1] = W[j]
  BY <1>0, <1>1 DEF SpellsOut
<1>6. item.opt # "stray" /\ (item.opt \in TakesArg <=> item.arg # "none")
  BY <1>1 DEF Proper, Options
<1>7. CASE item.opt \in TakesArg
  <2>1. W = << Word(item.opt, item.form, "none"), Word("none", "none", item.arg) >>
    BY <1>6, <1>7 DEF WordsOf
  <2> HIDE DEF W
  <2>2. Len(W) = 2 /\ 1 \in DOMAIN W /\ 2 \in DOMAIN W
    BY <2>1
  <2>3. /\ At[k + 1] = i + 2
        /\ cmd.words[i + 1 - 1] = Word(item.opt, item.form, "none")
        /\ cmd.words[i + 2 - 1] = Word("none", "none", item.arg)
    BY <1>5, <2>1, <2>2
  <2>4. i \in 1 .. Len(argv) /\ i + 1 \in 1 .. Len(argv)
    BY <1>2, <1>4, <2>3
  <2>5. i + 1 - 1 = i /\ i + 2 - 1 = i + 1
    BY <2>4
  <2>6. WordAt(i) = Word(item.opt, item.form, "none")
        /\ WordAt(i + 1) = Word("none", "none", item.arg)
    BY <1>2, <2>3, <2>4, <2>5
  <2>7. WordAt(i + 1).arg = item.arg
    BY <2>6 DEF Word
  <2>8. i < Len(argv) /\ i \in Nat /\ i =< Len(argv)
    BY <2>4, <1>2
  <2>9. IF item.opt \in TakesArg
          THEN i < Len(argv) /\ WordAt(i + 1).arg = item.arg /\ At[k + 1] = i + 2
          ELSE At[k + 1] = i + 1
    BY <1>7, <2>3, <2>7, <2>8
  <2> QED
    BY <1>0, <1>1, <2>6, <2>8, <2>9
<1>8. CASE item.opt \notin TakesArg
  <2>1. W = << Word(item.opt, item.form, "none") >>
    BY <1>6, <1>8 DEF WordsOf
  <2> HIDE DEF W
  <2>2. Len(W) = 1 /\ 1 \in DOMAIN W
    BY <2>1
  <2>3. /\ At[k + 1] = i + 1
        /\ cmd.words[i + 1 - 1] = Word(item.opt, item.form, "none")
    BY <1>5, <2>1, <2>2
  <2>4. i \in 1 .. Len(argv) /\ i + 1 - 1 = i
    BY <1>2, <1>4, <2>3
  <2>5. WordAt(i) = Word(item.opt, item.form, "none")
    BY <1>2, <2>3, <2>4
  <2>6. i \in Nat /\ i =< Len(argv)
    BY <2>4, <1>2
  <2>7. IF item.opt \in TakesArg
          THEN i < Len(argv) /\ WordAt(i + 1).arg = item.arg /\ At[k + 1] = i + 2
          ELSE At[k + 1] = i + 1
    BY <1>8, <2>3
  <2> QED
    BY <1>0, <1>1, <2>5, <2>6, <2>7
<1> QED
  BY <1>7, <1>8

\* An iteration over an item sets what the item means and goes on behind it.
LEMMA ItemDone ==
  ASSUME IInv, Understood, NEW k \in 1 .. Len(cmd.items), pc = "parse",
         i = At[k], settings = MeaningBy(cmd, k - 1), rc = 0,
         Set(cmd.items[k].opt, Value(cmd.items[k]), At[k + 1] - i),
         cmd.items[k] \in Items, Proper(cmd.items[k])
  PROVE  Followed'
<1>1. UNCHANGED << cmd, pc, rc >> /\ i' = i + (At[k + 1] - i)
  BY DEF Set
<1>2. Len(cmd.items) \in Nat /\ At \in Positions(cmd)
  BY Spelled DEF IInv
<1>3. k + 1 \in 1 .. Len(cmd.items) + 1 /\ k \in Nat \ {0} /\ (k + 1) - 1 = k
  BY <1>2
<1>4. At[k + 1] \in Int /\ i \in Int
  BY <1>2, <1>3 DEF Positions, IInv, TypeOK
<1>5. i' = At[k + 1]
  BY <1>1, <1>4
<1>6. settings' = MeaningBy(cmd, k)
  BY <1>3, MeaningGrows DEF Set
<1>7. \E m \in 1 .. Len(cmd.items) + 1 : i' = At[m] /\ settings' = MeaningBy(cmd, m - 1)
  BY <1>3, <1>5, <1>6
<1> QED
  BY <1>1, <1>7 DEF Followed, At, Outcomes

\* The parser of Mini-OS.
LEMMA MiniOSFollows ==
  ASSUME IInv, Followed, Understood, UNCHANGED hvars,
         \/ Help \/ App \/ Children \/ Sleep \/ Memory \/ Invalid
         \/ \E o \in {"time", "fork", "clone"} : Flag(o)
  PROVE  Followed'
<1>1. pc = "parse" /\ OnMiniOS /\ Started /\ i =< Len(argv)
  BY DEF Help, App, Children, Sleep, Memory, Invalid, Flag, IsOption, Parsing,
         OnMiniOS, Started
<1>2. PICK k \in 1 .. Len(cmd.items) + 1 : i = At[k] /\ settings = MeaningBy(cmd, k - 1)
  BY <1>1 DEF Followed
<1>3. k \in 1 .. Len(cmd.items)
  <2>1. Len(cmd.items) \in Nat /\ At[Len(cmd.items) + 1] = Len(cmd.words) + 1
    BY Spelled DEF IInv, SpellsOut
  <2>2. Len(argv) = Len(cmd.words) /\ Len(cmd.words) \in Nat
    BY <1>1, WordsUnderstood
  <2> QED
    BY <1>1, <1>2, <2>1, <2>2
<1>0. PICK item : item = cmd.items[k]
  OBVIOUS
<1>4. /\ item \in Items /\ Proper(item) /\ i \in Nat
      /\ WordAt(i) = Word(item.opt, item.form, "none")
      /\ IF item.opt \in TakesArg
           THEN i < Len(argv) /\ WordAt(i + 1).arg = item.arg /\ At[k + 1] = i + 2
           ELSE At[k + 1] = i + 1
  BY <1>0, <1>1, <1>2, <1>3, ItemHere
<1>5. WordAt(i).opt = item.opt
  BY <1>4 DEF Word
<1>6. /\ item.opt \in Options \ {"help"}
      /\ item.opt \in TakesArg => Following = {item.arg} /\ item.arg \in Arguments
      /\ At[k + 1] - i = IF item.opt \in TakesArg THEN 2 ELSE 1
  BY <1>4 DEF Proper, Following, Items, TakesArg
<1>7. Set(item.opt, Value(item), At[k + 1] - i)
  <2>1. CASE item.opt = "app"
    <3>1. App /\ Following = {item.arg} /\ At[k + 1] - i = 2
      BY <1>5, <1>6, <2>1
         DEF Help, App, Children, Sleep, Memory, Invalid, Flag, IsOption, TakesArg
    <3>2. item.arg \in Built /\ "NONE" \notin Built /\ "NULL" \notin Built
      BY <1>4, <2>1 DEF Proper, Built
    <3> QED
      BY <2>1, <3>1, <3>2 DEF App, string_to_app, Value, TakesArg
  <2>2. CASE item.opt = "children"
    <3>1. Children /\ Following = {item.arg} /\ At[k + 1] - i = 2
      BY <1>5, <1>6, <2>2
         DEF Help, App, Children, Sleep, Memory, Invalid, Flag, IsOption, TakesArg
    <3>2. item.arg = "3"
      BY <1>4, <2>2 DEF Proper
    <3>3. \A old : sscanf("3", old) = 3 /\ Numeral["3"] = 3
      BY DEF sscanf, Numeral
    <3> QED
      BY <2>2, <3>1, <3>2, <3>3 DEF Children, Value
  <2>3. CASE item.opt = "sleep"
    <3>1. Sleep /\ Following = {item.arg} /\ At[k + 1] - i = 2
      BY <1>5, <1>6, <2>3
         DEF Help, App, Children, Sleep, Memory, Invalid, Flag, IsOption, TakesArg
    <3>2. item.arg \in {"3", "0"}
      BY <1>4, <2>3 DEF Proper
    <3>3. \A old : sscanf(item.arg, old) = Numeral[item.arg] /\ item.arg # "NULL"
      BY <3>2 DEF sscanf, Numeral
    <3> QED
      BY <2>3, <3>1, <3>3 DEF Sleep, Value
  <2>4. CASE item.opt = "memory"
    <3>1. Memory /\ Following = {item.arg} /\ At[k + 1] - i = 2
      BY <1>5, <1>6, <2>4
         DEF Help, App, Children, Sleep, Memory, Invalid, Flag, IsOption, TakesArg
    <3> QED
      BY <2>4, <3>1 DEF Memory, Value, TakesArg
  <2>5. CASE item.opt \in {"time", "fork", "clone"}
    <3>1. Flag(item.opt) /\ At[k + 1] - i = 1
      BY <1>5, <1>6, <2>5
         DEF Help, App, Children, Sleep, Memory, Invalid, Flag, IsOption, TakesArg
    <3> QED
      BY <2>5, <3>1 DEF Flag, Value, TakesArg
  <2> QED
    BY <1>6, <2>1, <2>2, <2>3, <2>4, <2>5 DEF Options
<1> QED
  BY <1>0, <1>1, <1>2, <1>3, <1>4, <1>7, ItemDone DEF Followed

\* getopt_long() with the options of os/posix/cmdline.c.
LEMMA PosixFollows ==
  ASSUME IInv, Followed, Understood, UNCHANGED hvars,
         \/ GetoptHelp \/ GetoptApp \/ GetoptChildren \/ GetoptSleep \/ GetoptMemory
         \/ GetoptRejects
         \/ \E o \in {"time", "fork", "clone"} : GetoptFlag(o)
  PROVE  Followed'
<1>1. pc = "parse" /\ ~ OnMiniOS /\ Started /\ i =< Len(argv) /\ Parsing(FALSE)
  BY DEF GetoptHelp, GetoptApp, GetoptChildren, GetoptSleep, GetoptMemory,
         GetoptRejects, GetoptFlag, Getopt, Parsing, OnMiniOS, Started
<1>2. PICK k \in 1 .. Len(cmd.items) + 1 : i = At[k] /\ settings = MeaningBy(cmd, k - 1)
  BY <1>1 DEF Followed
<1>3. k \in 1 .. Len(cmd.items)
  <2>1. Len(cmd.items) \in Nat /\ At[Len(cmd.items) + 1] = Len(cmd.words) + 1
    BY Spelled DEF IInv, SpellsOut
  <2>2. Len(argv) = Len(cmd.words) /\ Len(cmd.words) \in Nat
    BY <1>1, WordsUnderstood
  <2> QED
    BY <1>1, <1>2, <2>1, <2>2
<1>0. PICK item : item = cmd.items[k]
  OBVIOUS
<1>4. /\ item \in Items /\ Proper(item) /\ i \in Nat /\ PosixTakes(item)
      /\ WordAt(i) = Word(item.opt, item.form, "none")
      /\ IF item.opt \in TakesArg
           THEN i < Len(argv) /\ WordAt(i + 1).arg = item.arg /\ At[k + 1] = i + 2
           ELSE At[k + 1] = i + 1
  BY <1>0, <1>1, <1>2, <1>3, ItemHere
<1>5. WordAt(i).opt = item.opt /\ WordAt(i).form = item.form
  BY <1>4 DEF Word
<1>6. /\ item.opt \in Options \ {"help"} /\ item.form \in {"short", "long"}
      /\ item.form = "short" => item.opt \in {"app", "memory"}
      /\ item.form = "long" => item.opt # "clone"
  BY <1>4 DEF Proper, Items, Forms, PosixTakes
<1>7. Known(WordAt(i)) /\ (NeedsArg(WordAt(i)) <=> item.opt \in TakesArg)
  BY <1>5, <1>6 DEF Known, NeedsArg, short_opts, short_args, long_opts, TakesArg
<1>8. Getopt(item.opt) /\ Used = At[k + 1] - i
      /\ (item.opt \in TakesArg => optarg = item.arg)
  <2>1. Getopt(item.opt)
    BY <1>1, <1>4, <1>5, <1>7 DEF Getopt
  <2>2. item.opt \in TakesArg => optarg = item.arg
    BY <1>4 DEF optarg
  <2>3. Used = IF item.opt \in TakesArg THEN 2 ELSE 1
    BY <1>7 DEF Used
  <2>4. Used = At[k + 1] - i
    BY <1>4, <2>3
  <2> QED
    BY <2>1, <2>2, <2>4
<1>9. \A o : Getopt(o) => o = item.opt
  BY <1>5 DEF Getopt
<1>10. ~ GetoptHelp /\ ~ GetoptRejects
  BY <1>6, <1>8, <1>9 DEF GetoptHelp, GetoptRejects
<1>11. Set(item.opt, Value(item), At[k + 1] - i)
  <2>1. CASE item.opt = "app"
    <3>1. GetoptApp
      BY <1>9, <1>10, <2>1
         DEF GetoptApp, GetoptChildren, GetoptSleep, GetoptMemory, GetoptFlag
    <3>2. item.arg \in Built /\ "NONE" \notin Built
      BY <1>4, <2>1 DEF Proper, Built
    <3> QED
      BY <1>8, <2>1, <3>1, <3>2 DEF GetoptApp, string_to_app, Value, TakesArg
  <2>2. CASE item.opt = "children"
    <3>1. GetoptChildren
      BY <1>9, <1>10, <2>2
         DEF GetoptApp, GetoptChildren, GetoptSleep, GetoptMemory, GetoptFlag
    <3>2. item.arg = "3"
      BY <1>4, <2>2 DEF Proper
    <3>3. atoi("3") = 3 /\ Numeral["3"] = 3
      BY DEF atoi, sscanf, Numeral
    <3> QED
      BY <1>8, <2>2, <3>1, <3>2, <3>3 DEF GetoptChildren, Value, TakesArg
  <2>3. CASE item.opt = "sleep"
    <3>1. GetoptSleep
      BY <1>9, <1>10, <2>3
         DEF GetoptApp, GetoptChildren, GetoptSleep, GetoptMemory, GetoptFlag
    <3>2. item.arg \in {"3", "0"}
      BY <1>4, <2>3 DEF Proper
    <3>3. atoi(item.arg) = Numeral[item.arg] /\ ~ (Numeral[item.arg] < 0)
      BY <3>2 DEF atoi, sscanf, Numeral
    <3> QED
      BY <1>8, <2>3, <3>1, <3>3 DEF GetoptSleep, Value, TakesArg
  <2>4. CASE item.opt = "memory"
    <3>1. GetoptMemory
      BY <1>9, <1>10, <2>4
         DEF GetoptApp, GetoptChildren, GetoptSleep, GetoptMemory, GetoptFlag
    <3> QED
      BY <1>8, <2>4, <3>1 DEF GetoptMemory, Value, TakesArg
  <2>5. CASE item.opt \in {"time", "fork"}
    <3>1. GetoptFlag(item.opt)
      BY <1>9, <1>10, <2>5
         DEF GetoptApp, GetoptChildren, GetoptSleep, GetoptMemory, GetoptFlag
    <3> QED
      BY <1>8, <2>5, <3>1 DEF GetoptFlag, Value, TakesArg
  <2>6. item.opt # "clone"
    BY <1>6
  <2> QED
    BY <1>6, <2>1, <2>2, <2>3, <2>4, <2>5, <2>6 DEF Options
<1> QED
  BY <1>0, <1>1, <1>2, <1>3, <1>4, <1>11, ItemDone DEF Followed

\* Before the first item the settings are the defaults.
LEMMA InitFollowed == IInv /\ GuestInit => Followed
<1> SUFFICES ASSUME IInv, GuestInit PROVE Followed
  OBVIOUS
<1>1. Len(cmd.items) \in Nat /\ At[1] = 1
  BY Spelled DEF IInv, SpellsOut
<1>2. \A o, default : MeantBy(cmd, 0, o, default) = default
  <2>1. 1 .. 0 = {}
    OBVIOUS
  <2> QED
    BY <2>1 DEF MeantBy, WithOption
<1>3. MeaningBy(cmd, 0) = Defaults
  <2>1. \A old : sscanf("none", old) = old
    BY DEF sscanf, Numeral
  <2>2. Defaults = [o \in DOMAIN Defaults |-> Defaults[o]]
    BY DEF Defaults
  <2>3. MeaningBy(cmd, 0) = [o \in DOMAIN Defaults |-> Defaults[o]]
    BY <1>2, <2>1 DEF MeaningBy
  <2> QED
    BY <2>2, <2>3
<1>4. i = At[1] /\ settings = MeaningBy(cmd, 1 - 1) /\ 1 \in 1 .. Len(cmd.items) + 1
  BY <1>1, <1>3 DEF GuestInit, Init
<1> QED
  BY <1>4 DEF Followed, GuestInit, Init, Outcomes

\* Every step follows the line.
LEMMA NextFollowed == IInv /\ Followed /\ [Next]_vars => Followed'
<1> SUFFICES ASSUME IInv, Followed, [Next]_vars, Understood' PROVE Followed'
  BY DEF Followed
<1>1. CASE UNCHANGED << bvars >>
  BY <1>1 DEF bvars, parser, Followed, Understood, LineIsProper, OnMiniOS, PosixTakes,
              Proper, Built, At
<1>2. CASE BootSteps
  <2>1. UNCHANGED hvars /\ cmd' = cmd
    BY <1>2 DEF BootSteps, BootStep, CreateThread, TokenEnds, TokenChar, Tokenized,
                Help, App, Children, Sleep, Memory, Invalid, Flag, GetoptHelp,
                GetoptApp, GetoptChildren, GetoptSleep, GetoptMemory, GetoptRejects,
                GetoptFlag, Parsed, AppInit, StartApp, Set, Stop
  <2>2. Understood
    BY <2>1 DEF Understood, LineIsProper, OnMiniOS, PosixTakes, Proper, Built
  <2>3. CASE CreateThread \/ TokenEnds \/ TokenChar \/ Tokenized
    <3>1. /\ UNCHANGED << cmd, parser >> /\ pc \in {"boot", "tokenize"}
          /\ pc' \in {"tokenize", "parse", "dead"}
      BY <2>3 DEF CreateThread, TokenEnds, TokenChar, Tokenized, Tokenizing, Goto
    <3> QED
      BY <2>2, <3>1 DEF Followed, parser, At, Outcomes
  <2>4. CASE \/ Help \/ App \/ Children \/ Sleep \/ Memory \/ Invalid
             \/ \E o \in {"time", "fork", "clone"} : Flag(o)
    BY <2>1, <2>2, <2>4, MiniOSFollows
  <2>5. CASE \/ GetoptHelp \/ GetoptApp \/ GetoptChildren \/ GetoptSleep
             \/ GetoptMemory \/ GetoptRejects
             \/ \E o \in {"time", "fork", "clone"} : GetoptFlag(o)
    BY <2>1, <2>2, <2>5, PosixFollows
  <2>6. CASE Parsed
    <3>1. PICK k \in 1 .. Len(cmd.items) + 1 : i = At[k] /\ settings = MeaningBy(cmd, k - 1)
      BY <2>2, <2>6 DEF Followed, Parsed
    <3>2. Len(cmd.items) \in Nat
      BY Spelled DEF IInv
    <3>3. k = Len(cmd.items) + 1
      <4>1. SUFFICES ASSUME k \in 1 .. Len(cmd.items) PROVE FALSE
        BY <3>1, <3>2
      <4>2. pc = "parse" /\ Started /\ i > Len(argv)
        BY <2>6 DEF Parsed, Started
      <4>3. i =< Len(argv) /\ i \in Nat /\ Len(argv) \in Nat
        BY <2>2, <3>1, <4>1, <4>2, ItemHere, WordsUnderstood
      <4> QED
        BY <4>2, <4>3
    <3>4. (Len(cmd.items) + 1) - 1 = Len(cmd.items)
      BY <3>2
    <3>5. settings = MeaningBy(cmd, Len(cmd.items))
      BY <3>1, <3>3, <3>4
    <3>6. rc = 0 /\ pc' = "init" /\ UNCHANGED << cmd, parser >>
      BY <2>2, <2>6 DEF Followed, Parsed, Goto
    <3> QED
      BY <3>5, <3>6 DEF Followed, parser, Outcomes
  <2>7. CASE AppInit \/ StartApp
    <3>1. /\ UNCHANGED << cmd, parser >> /\ pc \in {"init", "switch"}
          /\ \/ pc' = "switch"
             \/ pc' = IF settings.app = "NONE" THEN "usage" ELSE "running"
      BY <2>7 DEF AppInit, StartApp, Goto
    <3> QED
      BY <2>2, <3>1 DEF Followed, parser, Outcomes
  <2> QED
    BY <1>2, <2>3, <2>4, <2>5, <2>6, <2>7 DEF BootSteps, BootStep
<1> QED
  BY <1>1, <1>2 DEF Next, FuzzSteps, OperatorSteps, vars, bvars

\* A proper line that its parser takes starts the application it names with the
\* settings it gives and main.c's initial values for the rest, for every such
\* line, however many items it has and however its text is spaced.  Not the short
\* -t, -f, -c and -s of Linux and Unikraft: their parser does not take them as the
\* usage text has them (UsageHolds).
THEOREM LinesStart == Spec => []ProperLinesStart
<1>1. IInv /\ Followed => ProperLinesStart
  <2> SUFFICES ASSUME IInv, Followed, Understood PROVE StartsAsMeant
    BY DEF ProperLinesStart, ParserTakes, Understood, OnMiniOS
  <2>1. Meaning.app = Meant("app", "NONE")
    BY DEF Meaning, Defaults
  <2>2. MeaningBy(cmd, Len(cmd.items)) = Meaning
    BY AllItems DEF IInv
  <2> QED
    BY <2>1, <2>2 DEF StartsAsMeant, Followed, Outcomes
<1>2. IInv /\ Followed /\ [Next]_vars => Followed'
  BY NextFollowed
<1>3. IInv /\ GuestInit => Followed
  BY InitFollowed
<1> QED
  BY <1>1, <1>2, <1>3, BootInvariant, PTL DEF Spec

=============================================================================

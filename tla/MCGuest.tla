------------------------------- MODULE MCGuest ------------------------------
(* Command lines for Guest.                                                *)
EXTENDS Guest

\* Every option with every argument that tells something, or without one.
ArgumentsOf(o) ==
  CASE o = "app"      -> {"server", "fuzz", "3", "none"}
    [] o = "children" -> {"3", "0", "server", "none"}
    [] o = "sleep"    -> {"3", "-5", "none"}
    [] o = "memory"   -> {"3", "none"}
    [] OTHER          -> {"none"}

\* Every option, and a word that is none.
SomeItems ==
  UNION {[opt : {o}, form : Forms, arg : ArgumentsOf(o)] : o \in Options}
    \cup {[opt |-> "stray", form |-> "short", arg |-> "3"]}

Line(platform, text, items) ==
  [platform |-> platform, text |-> text, items |-> items,
   words |-> IF items = << >> THEN << >>
             ELSE IF Len(items) = 1 THEN WordsOf(items[1])
             ELSE WordsOf(items[1]) \o WordsOf(items[2])]

\* Up to two items.
ItemLists == {<< >>} \cup {<< a >> : a \in SomeItems} \cup SomeItems \X SomeItems

\* n words, a blank between two.
PlainText(n) == [k \in 1 .. 2 * n - 1 |-> IF k % 2 = 1 THEN "char" ELSE "blank"]

PlainLines(platform) ==
  {Line(platform, PlainText(Len(Line(platform, << >>, l).words)), l) : l \in ItemLists}

\* A line of four words in every text of up to nine characters that has as many.
Spaced ==
  LET items == << [opt |-> "app", form |-> "long", arg |-> "server"],
                  [opt |-> "children", form |-> "short", arg |-> "3"] >>
      texts == UNION {[1 .. n -> {"char", "blank"}] : n \in 7 .. 9}
  IN  {Line("minios", t, items) : t \in {t \in texts : Cardinality(Starts(t)) = 4}}

AllLines ==
  PlainLines("minios") \cup PlainLines("posix") \cup PlainLines("unikraft") \cup Spaced

\* What the usage text lists, on Linux.
LinuxLines == PlainLines("posix")

=============================================================================

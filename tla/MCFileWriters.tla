---------------------------- MODULE MCFileWriters ----------------------------
(* Small instances of FileWriters.                                         *)
EXTENDS FileWriters

CONSTANTS r, a, b

Pair == {a, b}

=============================================================================

----------------------------- MODULE MCPageAlloc -----------------------------
(* Small instances of PageAlloc: words of five bits, pages of two bytes.   *)
EXTENDS PageAlloc

Units == {1, 4}    \* the factor from one unit to the next is 4, not 1024

Sizes == [n : 0 .. ULONG - 1, unit : Units]

=============================================================================

------------------------------ MODULE PageAlloc ------------------------------
(***************************************************************************)
(* The memory measure-fork and memory-overhead ask for: the size on the    *)
(* command line (common/mem.c), the pages for it (os/minios/mem.c,         *)
(* os/posix/mem_posix.c), their first touch, and their release.            *)
(*                                                                         *)
(* Frames stand for the page frames of a Mini-OS guest, whose allocator    *)
(* hands out aligned blocks of 2^order of them, or for the address space   *)
(* of a Linux process.  The rest of the program allocates and frees there  *)
(* at the same time.                                                       *)
(***************************************************************************)
EXTENDS Integers, FiniteSets

CONSTANTS
  Platforms,  \* "minios", "posix"
  Requests,   \* the sizes asked for: [n, unit], unit in bytes
  Frames,     \* how many frames there are
  PageSize,   \* os_page_size
  ULONG,      \* 2^width of unsigned long
  MapFailed   \* MAP_FAILED, no frame

ASSUME PageAssumption ==
  /\ Platforms \subseteq {"minios", "posix"}
  /\ PageSize \in Nat \ {0} /\ ULONG \in Nat \ {0} /\ PageSize =< ULONG
  /\ Requests \subseteq [n : 0 .. ULONG - 1, unit : Nat \ {0}]
  /\ Frames \in Nat \ {0}
  /\ MapFailed \notin Int

VARIABLES
  platform,
  memory_str, \* the size asked for
  pc,
  pages_num,
  start,      \* the first frame of the application's pages, or MapFailed
  owner       \* of each frame: "free", "app" or "other"

vars == << platform, memory_str, pc, pages_num, start, owner >>

Frame == 0 .. Frames - 1
Block(s, n) == s .. s + n - 1

PCs == {"size", "alloc", "touch", "serve", "free", "ended", "crashed"}

Take(B, who) == owner' = [f \in Frame |-> IF f \in B THEN who ELSE owner[f]]

-----------------------------------------------------------------------------
(* common/mem.c: sizes.                                                    *)

memsize_str2bytes(m) == (m.n * m.unit) % ULONG

\* Mutant: without rounding up.
RoundedDown(v, d) == v \div d

\* DIV_ROUND_UP on an unsigned long.
DIV_ROUND_UP(v, d) == ((v + d - 1) % ULONG) \div d

\* 0 for an invalid value.
memsize_str2pages(m) ==
  IF memsize_str2bytes(m) = 0 THEN 0
  ELSE DIV_ROUND_UP(memsize_str2bytes(m), PageSize)

-----------------------------------------------------------------------------
(* os/minios/mem.c: orders.                                                *)

\* Mutant: pages that are not a power of two are not refused.
AnyNumber(x) == TRUE

IS_POWER_OF_TWO(x) == \E k \in 0 .. x : x = 2^k

\* __builtin_ctz() and __builtin_ffs() of a number of pages, not 0.
Ctz(x) == CHOOSE k \in 0 .. x : x % 2^k = 0 /\ x % 2^(k + 1) # 0
Ffs(x) == Ctz(x) + 1

\* The blocks alloc_pages() may return: aligned and free.
FreeBlocks(order) ==
  {s \in Frame : /\ s % 2^order = 0
                 /\ Block(s, 2^order) \subseteq {f \in Frame : owner[f] = "free"}}

\* What mmap() may return.
FreeRanges(n) ==
  {s \in Frame : Block(s, n) \subseteq {f \in Frame : owner[f] = "free"}}

-----------------------------------------------------------------------------
Init ==
  /\ platform \in Platforms /\ memory_str \in Requests
  /\ pc = "size" /\ pages_num = 0 /\ start = MapFailed
  /\ owner = [f \in Frame |-> "free"]

Goto(l) == pc' = l

Size ==
  /\ pc = "size"
  /\ pages_num' = memsize_str2pages(memory_str)
  /\ Goto(IF pages_num' = 0 THEN "ended" ELSE "alloc")
  /\ UNCHANGED << platform, memory_str, start, owner >>

\* os_alloc_pages() of Mini-OS.
Alloc ==
  /\ pc = "alloc" /\ platform = "minios"
  /\ \/ /\ IS_POWER_OF_TWO(pages_num)
        /\ \E s \in FreeBlocks(Ctz(pages_num)) :
             start' = s /\ Take(Block(s, 2^Ctz(pages_num)), "app")
        /\ Goto("touch")
     \/ /\ IS_POWER_OF_TWO(pages_num) => FreeBlocks(Ctz(pages_num)) = {}
        /\ Goto("ended")
        /\ UNCHANGED << start, owner >>
  /\ UNCHANGED << platform, memory_str, pages_num >>

\* os_alloc_pages() of Linux: MAP_FAILED is not NULL, so it counts as memory.
Map ==
  /\ pc = "alloc" /\ platform = "posix"
  /\ \/ \E s \in FreeRanges(pages_num) :
          start' = s /\ Take(Block(s, pages_num), "app")
     \/ FreeRanges(pages_num) = {} /\ start' = MapFailed /\ UNCHANGED owner
  /\ Goto("touch")
  /\ UNCHANGED << platform, memory_str, pages_num >>

\* mem_touch_pages() writes to every page.
Touch ==
  /\ pc = "touch"
  /\ Goto(IF start = MapFailed THEN "crashed" ELSE "serve")
  /\ UNCHANGED << platform, memory_str, pages_num, start, owner >>

\* The accept loop is over; memory-overhead has ways out that free nothing.
Stop ==
  /\ pc = "serve"
  /\ Goto("free") \/ Goto("ended")
  /\ UNCHANGED << platform, memory_str, pages_num, start, owner >>

\* os_free_pages() of Mini-OS: the order is that of twice as many pages.
Free ==
  /\ pc = "free" /\ platform = "minios"
  /\ Take(Block(start, 2^Ffs(pages_num)), "free")
  /\ Goto("ended")
  /\ UNCHANGED << platform, memory_str, pages_num, start >>

\* os_free_pages() of Linux.
Unmap ==
  /\ pc = "free" /\ platform = "posix"
  /\ Take(Block(start, pages_num), "free")
  /\ Goto("ended")
  /\ UNCHANGED << platform, memory_str, pages_num, start >>

-----------------------------------------------------------------------------
(* The rest of the program.                                                *)

OtherTakes(f) ==
  /\ owner[f] = "free"
  /\ Take({f}, "other")
  /\ UNCHANGED << platform, memory_str, pc, pages_num, start >>

OtherFrees(f) ==
  /\ owner[f] = "other"
  /\ Take({f}, "free")
  /\ UNCHANGED << platform, memory_str, pc, pages_num, start >>

-----------------------------------------------------------------------------
App == Size \/ Alloc \/ Map \/ Touch \/ Stop \/ Free \/ Unmap

Next == App \/ \E f \in Frame : OtherTakes(f) \/ OtherFrees(f)

Spec == Init /\ [][Next]_vars

-----------------------------------------------------------------------------
TypeOK ==
  /\ platform \in Platforms /\ memory_str \in Requests
  /\ pc \in PCs
  /\ pages_num \in 0 .. ULONG - 1
  /\ start \in Frame \cup {MapFailed}
  /\ owner \in [Frame -> {"free", "app", "other"}]

\* The pages the application touches are its own, all of them and for as long
\* as it serves: the order it allocates by fits the number of pages it uses.
AppHasItsPages ==
  pc \in {"serve", "free"} =>
    \A f \in Block(start, pages_num) : f \in Frame /\ owner[f] = "app"

\* The pages hold the size asked for, and no page more, unless the size is so
\* large that the arithmetic wraps.
PagesHoldRequest ==
  LET bytes == memory_str.n * memory_str.unit
  IN  pc = "alloc" /\ bytes + PageSize - 1 < ULONG =>
        /\ bytes =< pages_num * PageSize
        /\ pages_num * PageSize < bytes + PageSize

\* os_free_pages() gives back the pages of os_alloc_pages() and nobody else's.
FreesItsOwn ==
  [][pc = "free" /\ pc' = "ended" =>
       \A f \in Frame : owner[f] = "other" => owner'[f] = "other"]_vars

=============================================================================

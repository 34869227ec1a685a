--------------------------- MODULE PageAllocProofs ---------------------------
(***************************************************************************)
(* The memory of the applications for every width of a word, every size of *)
(* a page and every size asked for: the pages hold what was asked for, and *)
(* they are the application's own, on Linux and in a block of Mini-OS.  The *)
(* latter rests on facts about powers of two, proved by induction.         *)
(***************************************************************************)
EXTENDS PageAlloc, FiniteSetTheorems, WellFoundedInduction, TLAPS

\* From the computation of the number of pages on, it is what was computed.
Computed ==
  pc # "size" => pages_num = memsize_str2pages(memory_str) /\ (pc = "alloc" => pages_num # 0)

\* The application has its pages, if it got any, until it gives them back.
Allocated ==
  /\ pc = "touch" /\ start # MapFailed =>
       \A f \in Block(start, pages_num) : f \in Frame /\ owner[f] = "app"
  /\ AppHasItsPages

-----------------------------------------------------------------------------
(* Sizes.                                                                  *)

\* A number lies between two neighbouring multiples of another.
LEMMA Division ==
  ASSUME NEW v \in Nat, NEW d \in Nat \ {0}
  PROVE  /\ v \div d \in Nat
         /\ (v \div d) * d =< v /\ v < (v \div d) * d + d
         /\ v \div d =< v
<1>1. v \div d \in Nat
  OBVIOUS
<1>2. (v \div d) * d =< v /\ v < (v \div d) * d + d
  OBVIOUS
<1>3. v \div d =< v
  <2> DEFINE q == v \div d
  <2>1. q \in Nat /\ q * d =< v
    BY <1>1, <1>2
  <2> HIDE DEF q
  <2>2. q =< q * d
    BY <2>1
  <2> QED
    BY <2>1, <2>2 DEF q
<1> QED
  BY <1>1, <1>2, <1>3

\* A number of pages is an unsigned long.
LEMMA PagesAreUlong ==
  ASSUME NEW m \in Requests
  PROVE  /\ memsize_str2bytes(m) \in 0 .. ULONG - 1
         /\ memsize_str2pages(m) \in 0 .. ULONG - 1
<1>1. m.n \in Nat /\ m.unit \in Nat /\ PageSize \in Nat \ {0} /\ ULONG \in Nat \ {0}
  BY PageAssumption
<1>2. m.n * m.unit \in Nat
  BY <1>1
<1>3. memsize_str2bytes(m) \in 0 .. ULONG - 1
  BY <1>1, <1>2 DEF memsize_str2bytes
<1>4. (memsize_str2bytes(m) + PageSize - 1) % ULONG \in 0 .. ULONG - 1
  BY <1>1, <1>3
<1>5. DIV_ROUND_UP(memsize_str2bytes(m), PageSize) \in 0 .. ULONG - 1
  <2> DEFINE v == (memsize_str2bytes(m) + PageSize - 1) % ULONG
  <2>1. v \in Nat /\ v < ULONG
    BY <1>1, <1>4
  <2> HIDE DEF v
  <2>2. v \div PageSize \in Nat /\ v \div PageSize =< v
    BY <1>1, <2>1, Division
  <2>3. v \div PageSize \in 0 .. ULONG - 1
    BY <1>1, <2>1, <2>2
  <2> QED
    BY <2>3 DEF v, DIV_ROUND_UP
<1> QED
  BY <1>1, <1>3, <1>5 DEF memsize_str2pages

\* Where nothing wraps, the pages are the fewest that hold the size.
LEMMA FewestPages ==
  ASSUME NEW m \in Requests, memsize_str2pages(m) # 0,
         m.n * m.unit + PageSize - 1 < ULONG
  PROVE  /\ m.n * m.unit =< memsize_str2pages(m) * PageSize
         /\ memsize_str2pages(m) * PageSize < m.n * m.unit + PageSize
<1> DEFINE b == m.n * m.unit
<1>1. b \in Nat /\ PageSize \in Nat \ {0} /\ ULONG \in Nat \ {0} /\ b + PageSize - 1 < ULONG
  <2>1. m.n \in Nat /\ m.unit \in Nat
    BY PageAssumption
  <2> QED
    BY <2>1, PageAssumption
<1>2. memsize_str2bytes(m) = b % ULONG
  BY DEF memsize_str2bytes
<1> HIDE DEF b
<1>3. memsize_str2bytes(m) = b /\ (b + PageSize - 1) % ULONG = b + PageSize - 1
  BY <1>1, <1>2
<1>4. memsize_str2pages(m) = (b + PageSize - 1) \div PageSize
  BY <1>3 DEF memsize_str2pages, DIV_ROUND_UP
<1>5. b + PageSize - 1 \in Nat
  BY <1>1
<1> DEFINE q == (b + PageSize - 1) \div PageSize
<1>6. q \in Nat /\ q * PageSize =< b + PageSize - 1 /\ b + PageSize - 1 < q * PageSize + PageSize
  BY <1>1, <1>5, Division
<1>7. memsize_str2pages(m) = q
  BY <1>4
<1> HIDE DEF q
<1>8. q * PageSize \in Nat
  BY <1>1, <1>6
<1>9. b =< q * PageSize /\ q * PageSize < b + PageSize
  BY <1>1, <1>6, <1>8
<1> QED
  BY <1>7, <1>9 DEF b

-----------------------------------------------------------------------------
(* Powers of two.                                                          *)

\* Induction: a set with 0 and the successor of each of its numbers has them all.
LEMMA Induction ==
  ASSUME NEW S, 0 \in S, \A n \in Nat : n \in S => n + 1 \in S
  PROVE  Nat \subseteq S
<1> DEFINE T == Nat \ S
<1>1. SUFFICES ASSUME T # {} PROVE FALSE
  OBVIOUS
<1>2. T \subseteq Nat
  OBVIOUS
<1>3. \A x, y \in Nat : << x, y >> \in OpToRel(<, Nat) <=> x < y
  BY DEF OpToRel
<1> HIDE DEF T
<1>4. \E x \in T : \A y \in T : ~ (<< y, x >> \in OpToRel(<, Nat))
  BY <1>1, <1>2, NatLessThanWellFounded, WFMin
<1>5. PICK x \in T : \A y \in T : ~ (y < x)
  BY <1>4, <1>2, <1>3
<1>6. x # 0 /\ x \in Nat /\ x - 1 \notin T
  BY <1>5, <1>2 DEF T
<1>7. x - 1 \in S
  BY <1>6 DEF T
<1> QED
  BY <1>5, <1>6, <1>7 DEF T

\* A set with one element more has twice as many subsets, which is what makes a
\* power of two double: 2^n counts the subsets of a set of n.
LEMMA Doubling ==
  ASSUME NEW n \in Nat
  PROVE  2^n \in Nat \ {0} /\ 2^(n + 1) = 2 * 2^n
<1> DEFINE A == SUBSET (1 .. n)
           B == {T \cup {n + 1} : T \in A}
           f == [T \in A |-> T \cup {n + 1}]
<1>1. IsFiniteSet(1 .. n) /\ Cardinality(1 .. n) = n
  BY FS_Interval
<1>2. IsFiniteSet(1 .. (n + 1)) /\ Cardinality(1 .. (n + 1)) = n + 1
  BY FS_Interval
<1>3. IsFiniteSet(A) /\ Cardinality(A) = 2^n
  BY <1>1, FS_SUBSET
<1>4. Cardinality(SUBSET (1 .. (n + 1))) = 2^(n + 1)
  BY <1>2, FS_SUBSET
<1>5. SUBSET (1 .. (n + 1)) = A \cup B
  <2>1. ASSUME NEW U \in SUBSET (1 .. (n + 1)) PROVE U \in A \cup B
    <3>1. U \ {n + 1} \in A
      OBVIOUS
    <3>2. CASE n + 1 \in U
      <4>1. U = (U \ {n + 1}) \cup {n + 1}
        BY <3>2
      <4> QED
        BY <3>1, <4>1
    <3>3. CASE n + 1 \notin U
      <4>1. U = U \ {n + 1}
        BY <3>3
      <4> QED
        BY <3>1, <4>1
    <3> QED
      BY <3>2, <3>3
  <2>2. 1 .. n \subseteq 1 .. (n + 1) /\ n + 1 \in 1 .. (n + 1)
    OBVIOUS
  <2> QED
    BY <2>1, <2>2
<1>6. A \cap B = {}
  <2>1. n + 1 \notin 1 .. n
    OBVIOUS
  <2> QED
    BY <2>1
<1>7. ExistsBijection(A, B)
  <2>1. \A T \in A : T = (T \cup {n + 1}) \ {n + 1}
    OBVIOUS
  <2>2. f \in Injection(A, B)
    BY <2>1 DEF Injection, IsInjective
  <2>3. f \in Surjection(A, B)
    BY DEF Surjection
  <2> QED
    BY <2>2, <2>3 DEF ExistsBijection, Bijection
<1>8. IsFiniteSet(B) /\ Cardinality(B) = Cardinality(A)
  BY <1>3, <1>7, FS_Bijection
<1>9. Cardinality(A \cup B) = Cardinality(A) + Cardinality(B) - Cardinality(A \cap B)
  BY <1>3, <1>8, FS_Union
<1>10. {} \in A
  OBVIOUS
<1> HIDE DEF A, B, f
<1>11. Cardinality(A) \in Nat /\ Cardinality(A \cap B) = 0 /\ Cardinality(A) # 0
  BY <1>3, <1>6, <1>10, FS_CardinalityType, FS_EmptySet
<1>12. Cardinality(A \cup B) = 2 * Cardinality(A)
  BY <1>8, <1>9, <1>11
<1> QED
  BY <1>3, <1>4, <1>5, <1>11, <1>12

\* The larger of two powers of two is a multiple of the other.
LEMMA PowersDivide ==
  ASSUME NEW k \in Nat, NEW d \in Nat
  PROVE  \E q \in Nat \ {0} : 2^(k + d) = q * 2^k
<1> DEFINE S == {e \in Nat : \E q \in Nat \ {0} : 2^(k + e) = q * 2^k}
<1>1. 0 \in S
  <2>1. 2^(k + 0) = 1 * 2^k
    <3>1. k + 0 = k /\ 2^k \in Nat
      BY Doubling
    <3> QED
      BY <3>1
  <2> QED
    BY <2>1
<1>2. \A e \in Nat : e \in S => e + 1 \in S
  <2> SUFFICES ASSUME NEW e \in Nat, NEW q \in Nat \ {0}, 2^(k + e) = q * 2^k
               PROVE  \E r \in Nat \ {0} : 2^(k + (e + 1)) = r * 2^k
    OBVIOUS
  <2>1. 2^((k + e) + 1) = 2 * 2^(k + e) /\ 2^k \in Nat
    BY Doubling
  <2>2. k + (e + 1) = (k + e) + 1
    OBVIOUS
  <2>3. 2 * (q * 2^k) = (2 * q) * 2^k
    BY <2>1
  <2>4. 2^(k + (e + 1)) = (2 * q) * 2^k
    BY <2>1, <2>2, <2>3
  <2>5. 2 * q \in Nat \ {0}
    OBVIOUS
  <2> QED
    BY <2>4, <2>5
<1>3. Nat \subseteq S
  <2> HIDE DEF S
  <2> QED
    BY <1>1, <1>2, Induction
<1> QED
  BY <1>3

\* A number of pages that os_alloc_pages() of Mini-OS accepts fills its block:
\* the trailing zeros of a power of two are its exponent.
LEMMA CtzOfPower ==
  ASSUME NEW x \in Nat, IS_POWER_OF_TWO(x)
  PROVE  Ctz(x) \in Nat /\ 2^Ctz(x) = x
<1>1. PICK k \in 0 .. x : x = 2^k
  BY DEF IS_POWER_OF_TWO
<1> DEFINE P(j) == x % 2^j = 0 /\ x % 2^(j + 1) # 0
<1>2. \A a, b \in Nat : a < b => 2^a % 2^b # 0
  <2> SUFFICES ASSUME NEW a \in Nat, NEW b \in Nat, a < b
               PROVE  2^a % 2^b # 0
    OBVIOUS
  <2>1. PICK c \in Nat, d \in Nat : c = a + 1 /\ b = c + d
    <3>1. b - (a + 1) \in Nat /\ b = (a + 1) + (b - (a + 1))
      OBVIOUS
    <3> QED
      BY <3>1
  <2>2. PICK q \in Nat \ {0} : 2^b = q * 2^(a + 1)
    BY <2>1, PowersDivide
  <2>3. 2^a \in Nat \ {0} /\ 2^(a + 1) = 2 * 2^a
    BY Doubling
  <2> QED
    <3> DEFINE u == 2^a
               w == 2^b
    <3>1. u \in Nat \ {0} /\ w = q * (2 * u)
      BY <2>2, <2>3
    <3>2. w = (2 * q) * u
      BY <3>1
    <3>3. SUFFICES u % w # 0
      OBVIOUS
    <3> HIDE DEF u, w
    <3>4. u < w /\ w \in Nat
      BY <3>1, <3>2
    <3> QED
      BY <3>1, <3>4
<1>3. \A a, b \in Nat : a =< b => 2^b % 2^a = 0
  <2> SUFFICES ASSUME NEW a \in Nat, NEW b \in Nat, a =< b
               PROVE  2^b % 2^a = 0
    OBVIOUS
  <2>1. PICK d \in Nat : b = a + d
    <3>1. b - a \in Nat /\ b = a + (b - a)
      OBVIOUS
    <3> QED
      BY <3>1
  <2>2. PICK q \in Nat \ {0} : 2^b = q * 2^a
    BY <2>1, PowersDivide
  <2>3. 2^a \in Nat \ {0}
    BY Doubling
  <2>4. \A u \in Nat \ {0} : (q * u) % u = 0
    OBVIOUS
  <2> QED
    BY <2>2, <2>3, <2>4
<1>4. \A j \in 0 .. x : P(j) <=> j = k
  <2> SUFFICES ASSUME NEW j \in 0 .. x PROVE P(j) <=> j = k
    OBVIOUS
  <2>1. CASE j = k
    BY <2>1, <1>1, <1>2, <1>3
  <2>2. CASE j < k
    <3>1. 2^k % 2^(j + 1) = 0
      BY <2>2, <1>1, <1>3
    <3> QED
      BY <2>2, <3>1, <1>1
  <2>3. CASE k < j
    <3>1. 2^k % 2^j # 0
      BY <2>3, <1>1, <1>2
    <3> QED
      BY <2>3, <3>1, <1>1
  <2> QED
    BY <2>1, <2>2, <2>3
<1>5. Ctz(x) = k
  <2>1. Ctz(x) = CHOOSE j \in 0 .. x : P(j)
    BY DEF Ctz
  <2> HIDE DEF P
  <2> QED
    BY <2>1, <1>4, <1>1
<1> QED
  BY <1>5, <1>1

-----------------------------------------------------------------------------
(* The invariant.                                                          *)

\* Every variable keeps its type, and the pages are what they should be.
THEOREM PagesInvariant == Spec => [](TypeOK /\ Computed /\ Allocated)
<1>1. Init => TypeOK /\ Computed /\ Allocated
  BY PageAssumption DEF Init, TypeOK, Computed, Allocated, AppHasItsPages, PCs
<1>2. TypeOK /\ Computed /\ Allocated /\ [Next]_vars => (TypeOK /\ Computed /\ Allocated)'
  <2> SUFFICES ASSUME TypeOK, Computed, Allocated, [Next]_vars
               PROVE  (TypeOK /\ Computed /\ Allocated)'
    OBVIOUS
  <2>1. CASE Size
    <3>1. /\ pages_num' = memsize_str2pages(memory_str) /\ memory_str \in Requests
          /\ UNCHANGED << platform, memory_str, start, owner >>
          /\ pc' = IF pages_num' = 0 THEN "ended" ELSE "alloc"
      BY <2>1 DEF Size, Goto, TypeOK
    <3>2. pages_num' \in 0 .. ULONG - 1
      BY <3>1, PagesAreUlong
    <3> QED
      BY <3>1, <3>2 DEF TypeOK, Computed, Allocated, AppHasItsPages, PCs
  <2>2. CASE Alloc
    <3>1. UNCHANGED << platform, memory_str, pages_num >> /\ pc = "alloc"
      BY <2>2 DEF Alloc
    <3>2. CASE Goto("ended") /\ UNCHANGED << start, owner >>
      BY <3>1, <3>2 DEF Goto, TypeOK, Computed, Allocated, AppHasItsPages, PCs
    <3>3. ASSUME IS_POWER_OF_TWO(pages_num),
                 NEW s \in FreeBlocks(Ctz(pages_num)), start' = s,
                 Take(Block(s, 2^Ctz(pages_num)), "app"), Goto("touch")
          PROVE  (TypeOK /\ Computed /\ Allocated)'
      <4>1. pages_num \in Nat
        BY PageAssumption DEF TypeOK
      <4>2. 2^Ctz(pages_num) = pages_num
        BY <3>3, <4>1, CtzOfPower
      <4>3. s \in Frame /\ \A f \in Block(s, pages_num) : f \in Frame
        BY <4>2 DEF FreeBlocks
      <4>4. owner' = [f \in Frame |-> IF f \in Block(s, pages_num) THEN "app" ELSE owner[f]]
        BY <3>3, <4>2 DEF Take
      <4>5. owner' \in [Frame -> {"free", "app", "other"}]
        BY <4>4 DEF TypeOK
      <4>6. \A f \in Block(s, pages_num) : f \in Frame /\ owner'[f] = "app"
        BY <4>3, <4>4
      <4> QED
        BY <3>1, <3>3, <4>3, <4>5, <4>6
           DEF Goto, TypeOK, Computed, Allocated, AppHasItsPages, PCs, Block
    <3> QED
      BY <2>2, <3>2, <3>3 DEF Alloc
  <2>3. CASE Map
    <3>1. /\ UNCHANGED << platform, memory_str, pages_num >> /\ pc = "alloc" /\ pc' = "touch"
      BY <2>3 DEF Map, Goto
    <3>2. CASE FreeRanges(pages_num) = {} /\ start' = MapFailed /\ UNCHANGED owner
      BY <3>1, <3>2 DEF TypeOK, Computed, Allocated, AppHasItsPages, PCs
    <3>3. ASSUME NEW s \in FreeRanges(pages_num), start' = s,
                 Take(Block(s, pages_num), "app")
          PROVE  (TypeOK /\ Computed /\ Allocated)'
      <4>1. s \in Frame /\ \A f \in Block(s, pages_num) : f \in Frame
        BY DEF FreeRanges
      <4>2. owner' = [f \in Frame |-> IF f \in Block(s, pages_num) THEN "app" ELSE owner[f]]
        BY <3>3 DEF Take
      <4>3. owner' \in [Frame -> {"free", "app", "other"}]
        BY <4>2 DEF TypeOK
      <4>4. \A f \in Block(s, pages_num) : f \in Frame /\ owner'[f] = "app"
        BY <4>1, <4>2
      <4> QED
        BY <3>1, <3>3, <4>1, <4>3, <4>4 DEF TypeOK, Computed, Allocated, AppHasItsPages, PCs, Block
    <3> QED
      BY <2>3, <3>2, <3>3 DEF Map
  <2>4. CASE Touch
    <3>1. /\ UNCHANGED << platform, memory_str, pages_num, start, owner >> /\ pc = "touch"
          /\ pc' = IF start = MapFailed THEN "crashed" ELSE "serve"
      BY <2>4 DEF Touch, Goto
    <3> QED
      BY <3>1 DEF TypeOK, Computed, Allocated, AppHasItsPages, PCs, Block
  <2>5. CASE Stop
    <3>1. /\ UNCHANGED << platform, memory_str, pages_num, start, owner >> /\ pc = "serve"
          /\ pc' \in {"free", "ended"}
      BY <2>5 DEF Stop, Goto
    <3> QED
      BY <3>1 DEF TypeOK, Computed, Allocated, AppHasItsPages, PCs, Block
  <2>6. CASE Free \/ Unmap
    <3>1. /\ UNCHANGED << platform, memory_str, pages_num, start >> /\ pc = "free"
          /\ pc' = "ended"
      BY <2>6 DEF Free, Unmap, Goto
    <3>2. owner' \in [Frame -> {"free", "app", "other"}]
      BY <2>6 DEF Free, Unmap, Take, TypeOK
    <3> QED
      BY <3>1, <3>2 DEF TypeOK, Computed, Allocated, AppHasItsPages, PCs
  <2>7. ASSUME NEW f \in Frame, OtherTakes(f) \/ OtherFrees(f)
        PROVE  (TypeOK /\ Computed /\ Allocated)'
    <3>1. UNCHANGED << platform, memory_str, pc, pages_num, start >>
      BY <2>7 DEF OtherTakes, OtherFrees
    <3>2. owner' \in [Frame -> {"free", "app", "other"}]
      BY <2>7 DEF OtherTakes, OtherFrees, Take, TypeOK
    <3>3. \A g \in Frame : owner[g] = "app" => owner'[g] = "app"
      BY <2>7 DEF OtherTakes, OtherFrees, Take, TypeOK
    <3> QED
      BY <3>1, <3>2, <3>3 DEF TypeOK, Computed, Allocated, AppHasItsPages, Block
  <2>8. CASE UNCHANGED vars
    BY <2>8 DEF vars, TypeOK, Computed, Allocated, AppHasItsPages, Block
  <2> QED
    BY <2>1, <2>2, <2>3, <2>4, <2>5, <2>6, <2>7, <2>8 DEF Next, App
<1> QED
  BY <1>1, <1>2, PTL DEF Spec

\* The pages asked for hold the size on the command line and not a page more,
\* for every width of a word, unless the size is so large that it wraps.
THEOREM PagesSuffice == Spec => []PagesHoldRequest
<1>1. TypeOK /\ Computed => PagesHoldRequest
  <2> SUFFICES ASSUME TypeOK, Computed, pc = "alloc",
                      memory_str.n * memory_str.unit + PageSize - 1 < ULONG
               PROVE  /\ memory_str.n * memory_str.unit =< pages_num * PageSize
                      /\ pages_num * PageSize < memory_str.n * memory_str.unit + PageSize
    BY DEF PagesHoldRequest
  <2>1. memory_str \in Requests /\ pages_num = memsize_str2pages(memory_str) /\ pages_num # 0
    BY DEF TypeOK, Computed
  <2> QED
    BY <2>1, FewestPages
<1> QED
  BY <1>1, PagesInvariant, PTL

\* The pages the application touches and serves with are its own, however many
\* there are: a Linux process has the range it mapped, and the block a Mini-OS
\* guest allocates has room for every page it uses.
THEOREM PagesAreOwn == Spec => []AppHasItsPages
<1>1. Allocated => AppHasItsPages
  BY DEF Allocated
<1> QED
  BY <1>1, PagesInvariant, PTL

\* os_free_pages() of Linux gives back what os_alloc_pages() took and nobody
\* else's memory.
THEOREM LinuxFreesItsOwn ==
  Spec => [][platform = "posix" /\ pc = "free" /\ pc' = "ended" =>
               \A f \in Frame : owner[f] = "other" => owner'[f] = "other"]_vars
<1>1. Allocated /\ [Next]_vars =>
        [platform = "posix" /\ pc = "free" /\ pc' = "ended" =>
           \A f \in Frame : owner[f] = "other" => owner'[f] = "other"]_vars
  <2> SUFFICES ASSUME Allocated, Next, platform = "posix", pc = "free", pc' = "ended",
                      NEW f \in Frame, owner[f] = "other"
               PROVE  owner'[f] = "other"
    OBVIOUS
  <2>1. Unmap
    BY DEF Next, App, Size, Alloc, Map, Touch, Stop, Free, OtherTakes, OtherFrees, Goto
  <2>2. f \notin Block(start, pages_num)
    BY DEF Allocated, AppHasItsPages
  <2> QED
    BY <2>1, <2>2 DEF Unmap, Take
<1> QED
  BY <1>1, PagesInvariant, PTL DEF Spec

\* os_free_pages() of Mini-OS frees one order too many, and so as many frames
\* again as the application has: its own all, and no frame beyond twice as many.
THEOREM GuestFreesTwice ==
  Spec => [][platform = "minios" /\ pc = "free" /\ pc' = "ended" =>
               \A f \in Frame :
                 owner'[f] = IF f \in Block(start, 2 * pages_num) THEN "free"
                             ELSE owner[f]]_vars
<1> DEFINE Power == platform = "minios" /\ pc \in {"touch", "serve", "free"} =>
                      IS_POWER_OF_TWO(pages_num)
<1>1. Init => Power
  BY DEF Init
<1>2. Power /\ [Next]_vars => Power'
  <2> SUFFICES ASSUME Power, [Next]_vars, platform' = "minios",
                      pc' \in {"touch", "serve", "free"}
               PROVE  IS_POWER_OF_TWO(pages_num')
    OBVIOUS
  <2>1. pc # "size" /\ UNCHANGED << platform, pages_num >>
    BY DEF Next, App, Size, Alloc, Map, Touch, Stop, Free, Unmap, OtherTakes,
           OtherFrees, Goto, vars
  <2>2. CASE pc = "alloc"
    <3>1. Alloc
      BY <2>1, <2>2 DEF Next, App, Size, Map, Touch, Stop, Free, Unmap, OtherTakes,
                        OtherFrees, Goto, vars
    <3> QED
      BY <2>1, <3>1 DEF Alloc, Goto
  <2>3. CASE pc # "alloc"
    <3>1. pc \in {"touch", "serve", "free"}
      BY <2>3 DEF Next, App, Size, Alloc, Map, Touch, Stop, Free, Unmap, OtherTakes,
                  OtherFrees, Goto, vars
    <3>2. IS_POWER_OF_TWO(pages_num)
      BY <2>1, <3>1
    <3> QED
      BY <2>1, <3>2
  <2> QED
    BY <2>2, <2>3
<1>3. TypeOK /\ Power /\ [Next]_vars =>
        [platform = "minios" /\ pc = "free" /\ pc' = "ended" =>
           \A f \in Frame :
             owner'[f] = IF f \in Block(start, 2 * pages_num) THEN "free"
                         ELSE owner[f]]_vars
  <2> SUFFICES ASSUME TypeOK, Power, Next, platform = "minios", pc = "free", pc' = "ended"
               PROVE  \A f \in Frame :
                        owner'[f] = IF f \in Block(start, 2 * pages_num) THEN "free"
                                    ELSE owner[f]
    OBVIOUS
  <2>1. Free
    BY DEF Next, App, Size, Alloc, Map, Touch, Stop, Unmap, OtherTakes, OtherFrees, Goto
  <2>2. pages_num \in Nat /\ IS_POWER_OF_TWO(pages_num)
    BY PageAssumption DEF TypeOK
  <2>3. 2^Ffs(pages_num) = 2 * pages_num
    BY <2>2, CtzOfPower, Doubling DEF Ffs
  <2> QED
    BY <2>1, <2>3 DEF Free, Take
<1> QED
  <2> HIDE DEF Power
  <2> QED
    BY <1>1, <1>2, <1>3, PagesInvariant, PTL DEF Spec

=============================================================================

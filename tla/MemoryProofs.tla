----------------------------- MODULE MemoryProofs -----------------------------
(***************************************************************************)
(* Proofs about Memory: whatever the processes fork, map, grow and give    *)
(* back, every frame is free or has one owner, a page that is not mapped   *)
(* separates the heap and the stack of every live process, and the checks  *)
(* of the free frames suffice in all but two cases.                        *)
(***************************************************************************)
EXTENDS Memory, FiniteSetTheorems, TLAPS

(***************************************************************************)
(* No frame is in two entries of a page table, or named twice by h.        *)
(***************************************************************************)
OncePerTable(pt) ==
  \A v, w \in DOMAIN pt : pt[v].pfn = pt[w].pfn /\ pt[v].pfn \in Frame => v = w

OncePerFrame(h) == \A m, n \in DOMAIN h : h[m] = h[n] /\ h[m] \in Frame => m = n

(***************************************************************************)
(* User memory: a live process has the pages around its red zone, every    *)
(* other process has none.                                                 *)
(***************************************************************************)
Record(pt, brk, data_end, stack_low, size) ==
  [pt |-> pt, brk |-> brk, data_end |-> data_end, stack_low |-> stack_low, size |-> size]

IsRecord(u) == u = Record(u.pt, u.brk, u.data_end, u.stack_low, u.size)

IsUserPt(u) == UserPtOK(u) /\ OncePerTable(u.pt) /\ IsRecord(u)

HasRedZone(u) ==
  /\ DOMAIN u.pt = 0..(u.brk - 1) \cup u.stack_low..(Pages - 1)
  /\ u.data_end <= u.brk /\ u.brk < u.stack_low

TablesOK ==
  /\ userpt = [p \in Proc |-> userpt[p]]
  /\ \A p \in Proc : IsUserPt(userpt[p])
  /\ \A p \in Proc : IF status[p] = "alive" THEN HasRedZone(userpt[p])
                                             ELSE DOMAIN userpt[p].pt = {}

(***************************************************************************)
(* Kernel stacks: live processes have one, and so have the terminated ones *)
(* that wait to be collected.                                              *)
(***************************************************************************)
KStacksOK ==
  /\ kstack = [p \in Proc |-> kstack[p]]
  /\ \A p \in Proc : /\ kstack[p] \subseteq Frame \cup {NoFrame}
                     /\ status[p] = "free" => kstack[p] = {}
  /\ outOfRange \/ KernelStackIsWhole

(***************************************************************************)
(* The kernel heap has no holes.                                           *)
(***************************************************************************)
HeapOK ==
  /\ \E n \in 0..MaxHeap : DOMAIN heap = 0..(n - 1)
  /\ OncePerFrame(heap)
  /\ Range(heap) \subseteq Frame \cup {NoFrame}

(***************************************************************************)
(* As long as get_frame has not failed unnoticed, entries name frames.     *)
(***************************************************************************)
EntriesNameFrames ==
  ~outOfRange =>
    /\ \A p \in Proc : FramesOf(userpt[p].pt) \subseteq Frame /\ kstack[p] \subseteq Frame
    /\ Range(heap) \subseteq Frame

(***************************************************************************)
(* The frames of fr, of the user memory U[p] and the kernel stack K[p] of  *)
(* each process and of the kernel heap H are a partition of Frame.         *)
(***************************************************************************)
Partition(fr, U, K, H) ==
  /\ fr \subseteq Frame /\ H \subseteq Frame
  /\ U \in [Proc -> SUBSET Frame] /\ K \in [Proc -> SUBSET Frame]
  /\ \A f \in Frame : f \in fr \/ f \in H \/ \E p \in Proc : f \in U[p] \/ f \in K[p]
  /\ fr \cap H = {}
  /\ \A p \in Proc : /\ U[p] \cap fr = {} /\ U[p] \cap H = {}
                     /\ K[p] \cap fr = {} /\ K[p] \cap H = {}
  /\ \A p, q \in Proc : /\ U[p] \cap K[q] = {}
                        /\ p # q => U[p] \cap U[q] = {} /\ K[p] \cap K[q] = {}

UserFrames == [p \in Proc |-> FramesOf(userpt[p].pt) \cap Frame]
KStackFrames == [p \in Proc |-> kstack[p] \cap Frame]
HeapFrames == Range(heap) \cap Frame

StatusOK ==
  /\ status \in [Proc -> {"free", "alive", "defunct"}]
  /\ status[InitProc] = "alive"

IInv ==
  /\ StatusOK /\ TablesOK /\ KStacksOK /\ HeapOK
  /\ outOfRange \in BOOLEAN /\ EntriesNameFrames
  /\ Partition(free, UserFrames, KStackFrames, HeapFrames)

-----------------------------------------------------------------------------
(***************************************************************************)
(* The members of a finite set of numbers have the ranks from 0 up.        *)
(***************************************************************************)
LEMMA RankBounds ==
  ASSUME NEW S \in SUBSET Int, IsFiniteSet(S), NEW x \in S
  PROVE  RankOf(x, S) \in 0..(Cardinality(S) - 1)
<1> DEFINE T == {y \in S : y < x}
<1>1. T \in SUBSET S /\ x \notin T
  OBVIOUS
<1> HIDE DEF T
<1>2. /\ IsFiniteSet(T) /\ Cardinality(T) <= Cardinality(S)
      /\ Cardinality(T) # Cardinality(S)
  <2>1. T # S
    BY <1>1
  <2> QED
    BY <1>1, <2>1, FS_Subset
<1>3. Cardinality(T) \in Nat /\ Cardinality(S) \in Nat
  BY <1>2, FS_CardinalityType
<1> QED
  BY <1>2, <1>3 DEF RankOf, T

(***************************************************************************)
(* Ranks grow with the numbers, are different for different numbers, and   *)
(* every one below the size of the set occurs.                             *)
(***************************************************************************)
LEMMA RankIsMonotone ==
  ASSUME NEW S \in SUBSET Int, IsFiniteSet(S), NEW x \in S, NEW z \in S, x < z
  PROVE  RankOf(x, S) < RankOf(z, S)
<1> DEFINE T == {y \in S : y < x}
           V == {y \in S : y < z}
<1>1. V \in SUBSET S /\ T \in SUBSET V /\ x \in V /\ x \notin T
  <2>1. V \in SUBSET S /\ x \in V /\ x \notin T
    OBVIOUS
  <2>2. \A y \in S : y < x => y < z
    OBVIOUS
  <2>3. T \subseteq V
    BY <2>2
  <2> QED
    BY <2>1, <2>3
<1> HIDE DEF T, V
<1>2. IsFiniteSet(V)
  BY <1>1, FS_Subset
<1>3. /\ IsFiniteSet(T) /\ Cardinality(T) <= Cardinality(V)
      /\ Cardinality(T) # Cardinality(V)
  BY <1>1, <1>2, FS_Subset
<1>4. Cardinality(T) \in Nat /\ Cardinality(V) \in Nat
  BY <1>2, <1>3, FS_CardinalityType
<1> QED
  BY <1>3, <1>4 DEF RankOf, T, V

LEMMA RankIsOneToOne ==
  ASSUME NEW S \in SUBSET Int, IsFiniteSet(S), NEW x \in S, NEW z \in S,
         RankOf(x, S) = RankOf(z, S)
  PROVE  x = z
<1>1. RankOf(x, S) \in Int /\ RankOf(z, S) \in Int
  BY RankBounds
<1>2. CASE x < z
  BY <1>1, <1>2, RankIsMonotone
<1>3. CASE z < x
  BY <1>1, <1>3, RankIsMonotone
<1> QED
  BY <1>2, <1>3

LEMMA EveryRankOccurs ==
  ASSUME NEW S \in SUBSET Int, IsFiniteSet(S), NEW r \in 0..(Cardinality(S) - 1)
  PROVE  \E x \in S : RankOf(x, S) = r
<1> DEFINE n == Cardinality(S)
           T == 0..(n - 1)
           rank == [x \in S |-> RankOf(x, S)]
<1>1. n \in Nat
  BY FS_CardinalityType
<1>2. IsFiniteSet(T) /\ Cardinality(T) = n
  <2> HIDE DEF n
  <2> QED
    BY <1>1, FS_Interval
<1>3. rank \in [S -> T]
  BY RankBounds
<1>4. \A x, z \in S : rank[x] = rank[z] => x = z
  BY RankIsOneToOne
<1> HIDE DEF n, T, rank
<1>5. rank \in Injection(S, T)
  BY <1>3, <1>4 DEF Injection, IsInjective
<1>6. rank \in Surjection(S, T)
  BY <1>2, <1>5, FS_Injection DEF n
<1>7. r \in T
  BY DEF T, n
<1>8. \E x \in S : rank[x] = r
  BY <1>6, <1>7 DEF Surjection
<1> QED
  BY <1>8 DEF rank

(***************************************************************************)
(* get_frame: the frames handed out are free and different, and there is   *)
(* one for every page if there are as many free frames as pages.           *)
(***************************************************************************)
LEMMA FramesHandedOut ==
  ASSUME NEW pages \in SUBSET Int, IsFiniteSet(pages), NEW fr \in SUBSET Frame
  PROVE  LET g == GetFrames(pages, fr)
         IN  /\ DOMAIN g = pages /\ g = [v \in pages |-> g[v]]
             /\ Range(g) \subseteq fr \cup {NoFrame}
             /\ OncePerFrame(g)
             /\ Cardinality(pages) <= Cardinality(fr) => Range(g) \subseteq fr
<1> DEFINE g == GetFrames(pages, fr)
           Served(v) == \E f \in fr : RankOf(f, fr) = RankOf(v, pages)
           Choice(v) == CHOOSE f \in fr : RankOf(f, fr) = RankOf(v, pages)
<1>1. /\ IsFiniteSet(fr) /\ fr \in SUBSET Int
      /\ Cardinality(fr) \in Nat /\ Cardinality(pages) \in Nat
  <2>1. IsFiniteSet(Frame) /\ Frame \subseteq Int
    BY MemoryAssumption
  <2>2. IsFiniteSet(fr)
    BY <2>1, FS_Subset
  <2> QED
    BY <2>1, <2>2, FS_CardinalityType
<1>2. g = [v \in pages |-> IF Served(v) THEN Choice(v) ELSE NoFrame]
  BY DEF GetFrames
<1> HIDE DEF g
<1>3. \A v \in pages : Served(v) => Choice(v) \in fr /\ RankOf(Choice(v), fr) = RankOf(v, pages)
  OBVIOUS
<1>4. ASSUME NEW v \in pages
      PROVE  /\ g[v] \in fr \cup {NoFrame}
             /\ g[v] \in Frame => g[v] \in fr /\ RankOf(g[v], fr) = RankOf(v, pages)
             /\ Served(v) => g[v] \in fr
  <2> HIDE DEF Served, Choice
  <2>1. NoFrame \notin Frame
    BY MemoryAssumption
  <2> QED
    BY <1>2, <1>3, <2>1
<1>5. /\ DOMAIN g = pages /\ g = [v \in pages |-> g[v]]
  BY <1>2
<1>6. Range(g) \subseteq fr \cup {NoFrame}
  BY <1>4, <1>5 DEF Range
<1>7. ASSUME NEW v \in pages, NEW w \in pages, g[v] = g[w], g[v] \in Frame
      PROVE  v = w
  <2>1. RankOf(v, pages) = RankOf(w, pages)
    BY <1>4, <1>7
  <2> QED
    BY <2>1, RankIsOneToOne
<1>8. ASSUME Cardinality(pages) <= Cardinality(fr), NEW v \in pages
      PROVE  g[v] \in fr
  <2>1. RankOf(v, pages) \in 0..(Cardinality(pages) - 1)
    BY RankBounds
  <2>2. RankOf(v, pages) \in 0..(Cardinality(fr) - 1)
    BY <1>1, <1>8, <2>1
  <2>3. Served(v)
    BY <1>1, <2>2, EveryRankOccurs
  <2> QED
    BY <1>4, <2>3
<1> QED
  <2>1. OncePerFrame(g)
    BY <1>5, <1>7 DEF OncePerFrame
  <2>2. Cardinality(pages) <= Cardinality(fr) => Range(g) \subseteq fr
    BY <1>5, <1>8 DEF Range
  <2> QED
    BY <1>5, <1>6, <2>1, <2>2 DEF g

-----------------------------------------------------------------------------
(***************************************************************************)
(* Page tables.                                                            *)
(***************************************************************************)
LEMMA EntriesAre ==
  ASSUME NEW g, NEW prot
  PROVE  /\ DOMAIN Entries(g, prot) = DOMAIN g
         /\ \A v \in DOMAIN g : Entries(g, prot)[v] = [pfn |-> g[v], prot |-> prot[v]]
         /\ FramesOf(Entries(g, prot)) = Range(g)
BY DEF Entries, FramesOf, Range

(***************************************************************************)
(* Mapping pages that were not mapped, and unmapping pages.                *)
(***************************************************************************)
LEMMA WithAdds ==
  ASSUME NEW pt, NEW e, DOMAIN pt \cap DOMAIN e = {}
  PROVE  /\ DOMAIN With(pt, e) = DOMAIN pt \cup DOMAIN e
         /\ \A v \in DOMAIN e : With(pt, e)[v] = e[v]
         /\ \A v \in DOMAIN pt : With(pt, e)[v] = pt[v]
BY DEF With

LEMMA WithoutRemoves ==
  ASSUME NEW pt, NEW pages
  PROVE  /\ DOMAIN Without(pt, pages) = DOMAIN pt \ pages
         /\ \A v \in DOMAIN pt \ pages : Without(pt, pages)[v] = pt[v]
BY DEF Without, Restrict

(***************************************************************************)
(* A table to which pages with frames of their own are added has the       *)
(* frames of both, each once.                                              *)
(***************************************************************************)
LEMMA MapPages ==
  ASSUME NEW pt, OncePerTable(pt), NEW g, NEW prot, DOMAIN pt \cap DOMAIN g = {},
         OncePerFrame(g),
         FramesOf(pt) \cap Range(g) \cap Frame = {}
  PROVE  LET new == With(pt, Entries(g, prot))
         IN  /\ DOMAIN new = DOMAIN pt \cup DOMAIN g
             /\ FramesOf(new) = FramesOf(pt) \cup Range(g)
             /\ OncePerTable(new)
<1> DEFINE e == Entries(g, prot)
           new == With(pt, e)
<1>1. /\ DOMAIN e = DOMAIN g /\ FramesOf(e) = Range(g)
      /\ \A v \in DOMAIN g : e[v].pfn = g[v]
  <2>1. DOMAIN e = DOMAIN g /\ FramesOf(e) = Range(g)
    BY EntriesAre
  <2>2. \A v \in DOMAIN g : e[v].pfn = g[v]
    BY DEF Entries
  <2> QED
    BY <2>1, <2>2
<1> HIDE DEF e
<1>2. /\ DOMAIN new = DOMAIN pt \cup DOMAIN g
      /\ \A v \in DOMAIN g : new[v].pfn = g[v]
      /\ \A v \in DOMAIN pt : new[v].pfn = pt[v].pfn
  <2>1. DOMAIN pt \cap DOMAIN e = {}
    BY <1>1
  <2>2. /\ DOMAIN new = DOMAIN pt \cup DOMAIN e
        /\ \A v \in DOMAIN e : new[v] = e[v]
        /\ \A v \in DOMAIN pt : new[v] = pt[v]
    BY <2>1, WithAdds
  <2> HIDE DEF new
  <2> QED
    BY <1>1, <2>2
<1> HIDE DEF new
<1>3. FramesOf(new) = FramesOf(pt) \cup Range(g)
  BY <1>2 DEF FramesOf, Range
<1>4. ASSUME NEW v \in DOMAIN new, NEW w \in DOMAIN new,
             new[v].pfn = new[w].pfn, new[v].pfn \in Frame
      PROVE  v = w
  <2>1. CASE v \in DOMAIN pt /\ w \in DOMAIN pt
    BY <1>2, <1>4, <2>1 DEF OncePerTable
  <2>2. CASE v \in DOMAIN g /\ w \in DOMAIN g
    BY <1>2, <1>4, <2>2 DEF OncePerFrame
  <2>3. CASE v \in DOMAIN pt /\ w \in DOMAIN g
    <3>1. pt[v].pfn \in FramesOf(pt) /\ g[w] \in Range(g)
      BY <2>3 DEF FramesOf, Range
    <3> QED
      BY <1>2, <1>4, <2>3, <3>1
  <2>4. CASE v \in DOMAIN g /\ w \in DOMAIN pt
    <3>1. pt[w].pfn \in FramesOf(pt) /\ g[v] \in Range(g)
      BY <2>4 DEF FramesOf, Range
    <3> QED
      BY <1>2, <1>4, <2>4, <3>1
  <2> QED
    BY <1>2, <2>1, <2>2, <2>3, <2>4
<1>5. OncePerTable(new)
  BY <1>4 DEF OncePerTable
<1> QED
  BY <1>2, <1>3, <1>5 DEF new, e

(***************************************************************************)
(* A table from which pages are taken keeps the frames of the others.      *)
(***************************************************************************)
LEMMA UnmapPages ==
  ASSUME NEW pt, OncePerTable(pt), NEW pages \in SUBSET DOMAIN pt
  PROVE  LET new == Without(pt, pages)
             out == {pt[v].pfn : v \in pages}
         IN  /\ DOMAIN new = DOMAIN pt \ pages
             /\ FramesOf(new) \cap Frame = (FramesOf(pt) \cap Frame) \ out
             /\ FramesOf(new) \subseteq FramesOf(pt) /\ out \subseteq FramesOf(pt)
             /\ OncePerTable(new)
<1> DEFINE new == Without(pt, pages)
           out == {pt[v].pfn : v \in pages}
<1>1. /\ DOMAIN new = DOMAIN pt \ pages
      /\ \A v \in DOMAIN pt \ pages : new[v] = pt[v]
  BY WithoutRemoves
<1> HIDE DEF new
<1>2. OncePerTable(new)
  BY <1>1 DEF OncePerTable
<1>3. FramesOf(new) \subseteq FramesOf(pt) /\ out \subseteq FramesOf(pt)
  BY <1>1 DEF FramesOf
<1>4. ASSUME NEW f \in Frame
      PROVE  f \in FramesOf(new) <=> f \in FramesOf(pt) /\ f \notin out
  <2>1. ASSUME f \in FramesOf(new) PROVE f \in FramesOf(pt) /\ f \notin out
    <3>1. PICK v \in DOMAIN pt \ pages : pt[v].pfn = f
      BY <2>1, <1>1 DEF FramesOf
    <3>2. ASSUME NEW w \in pages, pt[w].pfn = f PROVE FALSE
      BY <3>1, <3>2 DEF OncePerTable
    <3> QED
      BY <3>1, <3>2 DEF FramesOf
  <2>2. ASSUME f \in FramesOf(pt), f \notin out PROVE f \in FramesOf(new)
    <3>1. PICK v \in DOMAIN pt : pt[v].pfn = f
      BY <2>2 DEF FramesOf
    <3>2. v \notin pages
      BY <3>1, <2>2
    <3> QED
      BY <3>1, <3>2, <1>1 DEF FramesOf
  <2> QED
    BY <2>1, <2>2
<1> QED
  BY <1>1, <1>2, <1>3, <1>4 DEF new

(***************************************************************************)
(* A table without entries names no frame.                                 *)
(***************************************************************************)
LEMMA EmptyTable ==
  ASSUME NEW pt, DOMAIN pt = {}
  PROVE  FramesOf(pt) = {} /\ OncePerTable(pt)
BY DEF FramesOf, OncePerTable

-----------------------------------------------------------------------------
(***************************************************************************)
(* What moves frames between the parts of the partition.                   *)
(***************************************************************************)
LEMMA UserGets ==
  ASSUME NEW fr, NEW U, NEW K, NEW H, Partition(fr, U, K, H),
         NEW p \in Proc, NEW X \in SUBSET fr
  PROVE  Partition(fr \ X, [U EXCEPT ![p] = @ \cup X], K, H)
BY DEF Partition

(***************************************************************************)
(* The other moves of frames between the free ones and their owners: back  *)
(* from user memory, to and from the kernel stacks, to and from the kernel *)
(* heap.                                                                   *)
(***************************************************************************)
LEMMA UserReturns ==
  ASSUME NEW fr, NEW U, NEW K, NEW H, Partition(fr, U, K, H),
         NEW p \in Proc, NEW X \in SUBSET U[p]
  PROVE  Partition(fr \cup X, [U EXCEPT ![p] = @ \ X], K, H)
BY DEF Partition

LEMMA KStackGets ==
  ASSUME NEW fr, NEW U, NEW K, NEW H, Partition(fr, U, K, H),
         NEW p \in Proc, NEW X \in SUBSET fr
  PROVE  Partition(fr \ X, U, [K EXCEPT ![p] = @ \cup X], H)
BY DEF Partition

LEMMA KStacksReturn ==
  ASSUME NEW fr, NEW U, NEW K, NEW H, Partition(fr, U, K, H), NEW dead \in SUBSET Proc
  PROVE  Partition(fr \cup UNION {K[q] : q \in dead}, U,
                   [q \in Proc |-> IF q \in dead THEN {} ELSE K[q]], H)
BY DEF Partition

LEMMA HeapGets ==
  ASSUME NEW fr, NEW U, NEW K, NEW H, Partition(fr, U, K, H), NEW X \in SUBSET fr
  PROVE  Partition(fr \ X, U, K, H \cup X)
BY DEF Partition

LEMMA HeapReturns ==
  ASSUME NEW fr, NEW U, NEW K, NEW H, Partition(fr, U, K, H), NEW X \in SUBSET H
  PROVE  Partition(fr \cup X, U, K, H \ X)
BY DEF Partition

-----------------------------------------------------------------------------
(***************************************************************************)
(* Rounding to pages.                                                      *)
(***************************************************************************)
LEMMA MultiplesKeepOrder ==
  ASSUME NEW b \in Nat \ {0}, NEW i \in Int, NEW j \in Int, i * b < (j + 1) * b
  PROVE  i <= j
<1> SUFFICES ASSUME j + 1 <= i PROVE FALSE
    OBVIOUS
<1> DEFINE d == i - (j + 1)
<1>1. d \in Nat /\ i = (j + 1) + d
  OBVIOUS
<1> HIDE DEF d
<1>2. i * b = (j + 1) * b + d * b /\ d * b \in Nat
  BY <1>1
<1> DEFINE x == (j + 1) * b
           y == d * b
<1>3. x \in Int
  OBVIOUS
<1>4. x + y < x /\ y \in Nat
  BY <1>2
<1> HIDE DEF x, y
<1> QED
  BY <1>3, <1>4

(***************************************************************************)
(* Addresses rounded to pages: UP_TO_PAGE and DOWN_TO_PAGE stay between    *)
(* the pages that the address lies between.                                *)
(***************************************************************************)
LEMMA Quotient ==
  ASSUME NEW a \in Int, NEW b \in Nat \ {0}
  PROVE  a \div b \in Int /\ (a \div b) * b <= a /\ a < (a \div b + 1) * b
OBVIOUS

LEMMA UpToPageBounds ==
  ASSUME NEW addr \in Int, NEW lo \in Int, NEW hi \in Int,
         lo * PageSize <= addr, addr < hi * PageSize
  PROVE  UpToPage(addr) \in Int /\ lo <= UpToPage(addr) /\ UpToPage(addr) <= hi
<1> DEFINE n == UpToPage(addr)
<1>1. PageSize \in Nat \ {0}
  BY MemoryAssumption
<1>2. /\ n \in Int /\ n * PageSize <= addr + PageSize - 1
      /\ addr + PageSize - 1 < (n + 1) * PageSize
  <2> DEFINE a == addr + PageSize - 1
  <2>1. a \in Int
    BY <1>1
  <2> HIDE DEF a
  <2>2. a \div PageSize \in Int /\ (a \div PageSize) * PageSize <= a
        /\ a < (a \div PageSize + 1) * PageSize
    BY <1>1, <2>1, Quotient
  <2> QED
    BY <2>2 DEF UpToPage, a
<1> HIDE DEF n
<1>3. lo * PageSize < (n + 1) * PageSize
  <2> DEFINE x == lo * PageSize
             y == (n + 1) * PageSize
  <2>1. x \in Int /\ y \in Int /\ x <= addr /\ addr + PageSize - 1 < y
    BY <1>1, <1>2
  <2> HIDE DEF x, y
  <2>2. x < y
    BY <1>1, <2>1
  <2> QED
    BY <2>2 DEF x, y
<1>4. n * PageSize < (hi + 1) * PageSize
  <2> DEFINE x == n * PageSize
             y == hi * PageSize
  <2>1. x \in Int /\ y \in Int /\ x <= addr + PageSize - 1 /\ addr < y
    BY <1>1, <1>2
  <2>2. (hi + 1) * PageSize = y + PageSize
    BY <1>1
  <2> HIDE DEF x, y
  <2>3. x < y + PageSize
    BY <1>1, <2>1
  <2> QED
    BY <2>2, <2>3 DEF x
<1> QED
  BY <1>1, <1>2, <1>3, <1>4, MultiplesKeepOrder DEF n

LEMMA DownToPageBounds ==
  ASSUME NEW addr \in Int, NEW lo \in Int, NEW hi \in Int,
         lo * PageSize <= addr, addr <= hi * PageSize
  PROVE  DownToPage(addr) \in Int /\ lo <= DownToPage(addr) /\ DownToPage(addr) <= hi
<1> DEFINE n == DownToPage(addr)
<1>1. PageSize \in Nat \ {0}
  BY MemoryAssumption
<1>2. n \in Int /\ n * PageSize <= addr /\ addr < (n + 1) * PageSize
  BY <1>1, Quotient DEF DownToPage
<1> HIDE DEF n
<1>3. lo * PageSize < (n + 1) * PageSize
  <2> DEFINE x == lo * PageSize
             y == (n + 1) * PageSize
  <2>1. x \in Int /\ y \in Int /\ x <= addr /\ addr < y
    BY <1>1, <1>2
  <2> HIDE DEF x, y
  <2>2. x < y
    BY <2>1
  <2> QED
    BY <2>2 DEF x, y
<1>4. n * PageSize < (hi + 1) * PageSize
  <2> DEFINE x == n * PageSize
             y == hi * PageSize
  <2>1. x \in Int /\ y \in Int /\ x <= addr /\ addr <= y
    BY <1>1, <1>2
  <2>2. (hi + 1) * PageSize = y + PageSize
    BY <1>1
  <2> HIDE DEF x, y
  <2>3. x < y + PageSize
    BY <1>1, <2>1
  <2> QED
    BY <2>2, <2>3 DEF x
<1> QED
  BY <1>1, <1>2, <1>3, <1>4, MultiplesKeepOrder DEF n

-----------------------------------------------------------------------------
(***************************************************************************)
(* One process gets the table u; nothing else of user memory changes.      *)
(***************************************************************************)
LEMMA OneTableChanges ==
  ASSUME TablesOK, NEW p \in Proc, NEW u, userpt' = [userpt EXCEPT ![p] = u],
         IsUserPt(u), IF status'[p] = "alive" THEN HasRedZone(u) ELSE DOMAIN u.pt = {},
         \A q \in Proc \ {p} : status'[q] = "alive" <=> status[q] = "alive"
  PROVE  /\ TablesOK'
         /\ UserFrames' = [UserFrames EXCEPT ![p] = FramesOf(u.pt) \cap Frame]
         /\ userpt'[p] = u /\ \A q \in Proc \ {p} : userpt'[q] = userpt[q]
<1>1. userpt'[p] = u /\ \A q \in Proc \ {p} : userpt'[q] = userpt[q]
  BY DEF TablesOK
<1>2. userpt' = [q \in Proc |-> userpt'[q]]
  BY DEF TablesOK
<1>3. ASSUME NEW q \in Proc
      PROVE  /\ IsUserPt(userpt'[q])
             /\ IF status'[q] = "alive" THEN HasRedZone(userpt'[q])
                                        ELSE DOMAIN userpt'[q].pt = {}
  BY <1>1 DEF TablesOK
<1>4. TablesOK'
  BY <1>2, <1>3 DEF TablesOK
<1>5. UserFrames' = [UserFrames EXCEPT ![p] = FramesOf(u.pt) \cap Frame]
  BY <1>1 DEF UserFrames
<1> QED
  BY <1>1, <1>4, <1>5

(***************************************************************************)
(* A step that changes no table and neither starts nor ends a process.     *)
(***************************************************************************)
LEMMA NoTableChanges ==
  ASSUME TablesOK, userpt' = userpt,
         \A q \in Proc : status'[q] = "alive" <=> status[q] = "alive"
  PROVE  TablesOK' /\ UserFrames' = UserFrames
BY DEF TablesOK, UserFrames

(***************************************************************************)
(* The kernel heap.                                                        *)
(***************************************************************************)
LEMMA NewPagesAreNew ==
  ASSUME HeapOK, NEW most \in Nat, NEW grown \in NewHeapPages(most)
  PROVE  /\ grown \in SUBSET Int /\ IsFiniteSet(grown) /\ grown \cap DOMAIN heap = {}
         /\ \E n \in 0..MaxHeap : DOMAIN heap \cup grown = 0..(n - 1)
         /\ Cardinality(grown) \in 0..most
<1>1. PICK n \in 0..MaxHeap : DOMAIN heap = 0..(n - 1)
  BY DEF HeapOK
<1>2. MaxHeap \in Nat /\ n \in Nat
  BY MemoryAssumption
<1>3. Cardinality(DOMAIN heap) = n
  BY <1>1, <1>2, FS_Interval
<1>4. PICK next \in n..MaxHeap : grown = n..(next - 1) /\ next <= n + most
  BY <1>3 DEF NewHeapPages
<1>5. next \in Nat /\ n <= next /\ next \in 0..MaxHeap
  BY <1>2, <1>4
<1>6. grown \in SUBSET Int /\ grown \cap DOMAIN heap = {}
  BY <1>1, <1>2, <1>4, <1>5
<1>7. DOMAIN heap \cup grown = 0..(next - 1)
  BY <1>1, <1>2, <1>4, <1>5
<1>8. IsFiniteSet(grown) /\ Cardinality(grown) = next - n
  <2>1. n \in Int /\ next - 1 \in Int
    BY <1>2, <1>5
  <2>2. /\ IsFiniteSet(n..(next - 1))
        /\ Cardinality(n..(next - 1)) = IF n > next - 1 THEN 0 ELSE (next - 1) - n + 1
    BY <2>1, FS_Interval
  <2> QED
    BY <1>2, <1>4, <1>5, <2>2
<1>9. Cardinality(grown) \in 0..most
  BY <1>2, <1>4, <1>5, <1>8
<1> QED
  BY <1>5, <1>6, <1>7, <1>8, <1>9

(***************************************************************************)
(* Kernel heap growth takes frames off the free ones and leaves no holes.  *)
(***************************************************************************)
LEMMA HeapGrows ==
  ASSUME HeapOK, NEW most \in Nat, NEW grown \in NewHeapPages(most), NEW fr \in SUBSET Frame,
         Range(heap) \cap fr = {},
         NEW h, h = GetFrames(grown, fr), heap' = With(heap, h)
  PROVE  /\ HeapOK' /\ Range(heap') = Range(heap) \cup Range(h)
         /\ Range(h) \subseteq fr \cup {NoFrame}
<1>1. /\ grown \in SUBSET Int /\ IsFiniteSet(grown) /\ grown \cap DOMAIN heap = {}
      /\ \E n \in 0..MaxHeap : DOMAIN heap \cup grown = 0..(n - 1)
  BY NewPagesAreNew
<1>2. /\ DOMAIN h = grown /\ Range(h) \subseteq fr \cup {NoFrame} /\ OncePerFrame(h)
  BY <1>1, FramesHandedOut
<1>3. /\ DOMAIN heap' = DOMAIN heap \cup grown
      /\ \A v \in grown : heap'[v] = h[v]
      /\ \A v \in DOMAIN heap : heap'[v] = heap[v]
  <2>1. DOMAIN heap \cap DOMAIN h = {}
    BY <1>1, <1>2
  <2>2. /\ DOMAIN With(heap, h) = DOMAIN heap \cup DOMAIN h
        /\ \A v \in DOMAIN h : With(heap, h)[v] = h[v]
        /\ \A v \in DOMAIN heap : With(heap, h)[v] = heap[v]
    BY <2>1 DEF With
  <2> QED
    BY <1>2, <2>2
<1>4. \E n \in 0..MaxHeap : DOMAIN heap' = 0..(n - 1)
  BY <1>1, <1>3
<1>5. Range(heap') = Range(heap) \cup Range(h)
  BY <1>2, <1>3 DEF Range
<1>6. OncePerFrame(heap')
  <2>1. ASSUME NEW m \in DOMAIN heap', NEW n \in DOMAIN heap', heap'[m] = heap'[n],
               heap'[m] \in Frame
        PROVE  m = n
    <3>1. NoFrame \notin Frame
      BY MemoryAssumption
    <3>2. CASE m \in DOMAIN heap /\ n \in DOMAIN heap
      BY <1>3, <2>1, <3>2 DEF HeapOK, OncePerFrame
    <3>3. CASE m \in grown /\ n \in grown
      BY <1>2, <1>3, <2>1, <3>3 DEF OncePerFrame
    <3>4. CASE m \in DOMAIN heap /\ n \in grown
      <4>1. heap[m] \in Range(heap) /\ h[n] \in fr
        BY <1>2, <1>3, <2>1, <3>1, <3>4 DEF Range
      <4> QED
        BY <1>3, <2>1, <3>4, <4>1
    <3>5. CASE m \in grown /\ n \in DOMAIN heap
      <4>1. heap[n] \in Range(heap) /\ h[m] \in fr
        BY <1>2, <1>3, <2>1, <3>1, <3>5 DEF Range
      <4> QED
        BY <1>3, <2>1, <3>5, <4>1
    <3> QED
      BY <1>3, <3>2, <3>3, <3>4, <3>5
  <2> QED
    BY <2>1 DEF OncePerFrame
<1>7. Range(heap') \subseteq Frame \cup {NoFrame}
  BY <1>2, <1>5 DEF HeapOK
<1> QED
  BY <1>2, <1>4, <1>5, <1>6, <1>7 DEF HeapOK

-----------------------------------------------------------------------------
(***************************************************************************)
(* Page tables with new frames of the set fr.                              *)
(***************************************************************************)
IsTable(pt) ==
  /\ DOMAIN pt \subseteq 0..(Pages - 1)
  /\ \A v \in DOMAIN pt : pt[v] \in Entry
  /\ OncePerTable(pt)

(***************************************************************************)
(* A set of pages of a region is finite.                                   *)
(***************************************************************************)
LEMMA PagesAreFinite ==
  ASSUME NEW pages \in SUBSET (0..(Pages - 1))
  PROVE  pages \in SUBSET Int /\ IsFiniteSet(pages)
<1>1. Pages - 1 \in Int /\ 0 \in Int
  BY MemoryAssumption
<1>2. IsFiniteSet(0..(Pages - 1))
  BY <1>1, FS_Interval
<1>3. IsFiniteSet(pages)
  BY <1>2, FS_Subset
<1> QED
  BY <1>3

(***************************************************************************)
(* get_frame for every page of a new table, for new pages of an old one,   *)
(* and vacate_frame for some of its pages.                                 *)
(***************************************************************************)
LEMMA NewTable ==
  ASSUME NEW pages \in SUBSET (0..(Pages - 1)), NEW fr \in SUBSET Frame, NEW prot,
         \A v \in pages : prot[v] \in {RW, RX}
  PROVE  LET g == GetFrames(pages, fr)
         IN  /\ IsTable(Entries(g, prot)) /\ DOMAIN Entries(g, prot) = pages
             /\ FramesOf(Entries(g, prot)) = Range(g)
             /\ Range(g) \subseteq fr \cup {NoFrame}
<1> DEFINE g == GetFrames(pages, fr)
           e == Entries(g, prot)
<1>1. /\ DOMAIN g = pages /\ Range(g) \subseteq fr \cup {NoFrame} /\ OncePerFrame(g)
  BY PagesAreFinite, FramesHandedOut
<1> HIDE DEF g
<1>2. /\ DOMAIN e = pages /\ FramesOf(e) = Range(g)
      /\ \A v \in pages : e[v] = [pfn |-> g[v], prot |-> prot[v]]
  BY <1>1, EntriesAre
<1>3. \A v \in pages : e[v].pfn = g[v] /\ e[v] \in Entry
  <2>1. \A v \in pages : g[v] \in Frame \cup {NoFrame}
    BY <1>1 DEF Range
  <2> HIDE DEF e
  <2> QED
    BY <1>2, <2>1 DEF Entry
<1> HIDE DEF e
<1>4. OncePerTable(e)
  BY <1>1, <1>2, <1>3 DEF OncePerTable, OncePerFrame
<1>5. IsTable(e)
  BY <1>2, <1>3, <1>4 DEF IsTable
<1> QED
  BY <1>1, <1>2, <1>5 DEF g, e

LEMMA TableGrows ==
  ASSUME NEW pt, IsTable(pt), NEW pages \in SUBSET (0..(Pages - 1)),
         pages \cap DOMAIN pt = {}, NEW fr \in SUBSET Frame, FramesOf(pt) \cap fr = {},
         NEW prot, \A v \in pages : prot[v] \in {RW, RX}
  PROVE  LET g == GetFrames(pages, fr)
             new == With(pt, Entries(g, prot))
         IN  /\ IsTable(new) /\ DOMAIN new = DOMAIN pt \cup pages
             /\ FramesOf(new) = FramesOf(pt) \cup Range(g)
             /\ Range(g) \subseteq fr \cup {NoFrame}
<1> DEFINE g == GetFrames(pages, fr)
           e == Entries(g, prot)
           new == With(pt, e)
<1>1. /\ DOMAIN g = pages /\ Range(g) \subseteq fr \cup {NoFrame} /\ OncePerFrame(g)
  BY PagesAreFinite, FramesHandedOut
<1>2. IsTable(e) /\ DOMAIN e = pages
  BY NewTable
<1>3. NoFrame \notin Frame
  BY MemoryAssumption
<1> HIDE DEF g
<1>4. DOMAIN pt \cap DOMAIN g = {} /\ FramesOf(pt) \cap Range(g) \cap Frame = {}
  BY <1>1, <1>3
<1>5. /\ DOMAIN new = DOMAIN pt \cup DOMAIN g
      /\ FramesOf(new) = FramesOf(pt) \cup Range(g)
      /\ OncePerTable(new)
  BY <1>1, <1>4, MapPages DEF IsTable
<1> HIDE DEF e
<1>6. /\ \A v \in DOMAIN e : new[v] = e[v]
      /\ \A v \in DOMAIN pt : new[v] = pt[v]
  BY <1>2 DEF With
<1> HIDE DEF new
<1>7. IsTable(new)
  BY <1>1, <1>2, <1>5, <1>6 DEF IsTable
<1> QED
  BY <1>1, <1>5, <1>7 DEF g, e, new

LEMMA TableShrinks ==
  ASSUME NEW pt, IsTable(pt), NEW pages \in SUBSET DOMAIN pt
  PROVE  LET new == Without(pt, pages)
             out == {pt[v].pfn : v \in pages}
         IN  /\ IsTable(new) /\ DOMAIN new = DOMAIN pt \ pages
             /\ FramesOf(new) \cap Frame = (FramesOf(pt) \cap Frame) \ out
             /\ FramesOf(new) \subseteq FramesOf(pt) /\ out \subseteq FramesOf(pt)
<1> DEFINE new == Without(pt, pages)
           out == {pt[v].pfn : v \in pages}
<1>1. /\ DOMAIN new = DOMAIN pt \ pages
      /\ FramesOf(new) \cap Frame = (FramesOf(pt) \cap Frame) \ out
      /\ FramesOf(new) \subseteq FramesOf(pt) /\ out \subseteq FramesOf(pt)
      /\ OncePerTable(new)
  BY UnmapPages DEF IsTable
<1>2. \A v \in DOMAIN pt \ pages : new[v] = pt[v]
  BY WithoutRemoves
<1> HIDE DEF new, out
<1>3. IsTable(new)
  BY <1>1, <1>2 DEF IsTable
<1> QED
  BY <1>1, <1>3 DEF new, out

(***************************************************************************)
(* A record with these fields is a user_pt.                                *)
(***************************************************************************)
LEMMA RecordIsUserPt ==
  ASSUME NEW pt, IsTable(pt), NEW brk \in 0..Pages, NEW data_end \in 0..Pages,
         NEW stack_low \in 0..Pages, NEW size \in Int
  PROVE  IsUserPt(Record(pt, brk, data_end, stack_low, size))
BY DEF Record, IsTable, IsUserPt, UserPtOK, IsRecord

(***************************************************************************)
(* What the invariant says of the memory of a live process.                *)
(***************************************************************************)
LEMMA LiveMemory ==
  ASSUME TablesOK, NEW p \in Proc, status[p] = "alive"
  PROVE  LET u == userpt[p]
         IN  /\ IsTable(u.pt) /\ u.size \in Int
             /\ u.brk \in 0..Pages /\ u.data_end \in 0..Pages /\ u.stack_low \in 0..Pages
             /\ DOMAIN u.pt = 0..(u.brk - 1) \cup u.stack_low..(Pages - 1)
             /\ u.data_end <= u.brk /\ u.brk < u.stack_low
             /\ IsRecord(u)
BY DEF TablesOK, IsUserPt, UserPtOK, HasRedZone, IsTable

(***************************************************************************)
(* The frames of the parts, in terms of the partition.                     *)
(***************************************************************************)
LEMMA PartsOf ==
  ASSUME IInv, ~outOfRange
  PROVE  /\ free \subseteq Frame /\ NoFrame \notin Frame
         /\ HeapFrames = Range(heap) /\ Range(heap) \cap free = {}
         /\ \A p \in Proc :
              /\ UserFrames[p] = FramesOf(userpt[p].pt)
              /\ KStackFrames[p] = kstack[p]
              /\ FramesOf(userpt[p].pt) \cap free = {}
<1>1. NoFrame \notin Frame
  BY MemoryAssumption
<1>2. HeapFrames = Range(heap)
  BY DEF IInv, EntriesNameFrames, HeapFrames
<1>3. \A p \in Proc : UserFrames[p] = FramesOf(userpt[p].pt) /\ KStackFrames[p] = kstack[p]
  BY DEF IInv, EntriesNameFrames, UserFrames, KStackFrames
<1> QED
  BY <1>1, <1>2, <1>3 DEF IInv, Partition

-----------------------------------------------------------------------------
(***************************************************************************)
(* Steps that leave kernel stacks and heap alone.                          *)
(***************************************************************************)
LEMMA OthersUnchanged ==
  ASSUME IInv, status' = status, kstack' = kstack, heap' = heap,
         outOfRange => outOfRange'
  PROVE  /\ StatusOK' /\ KStacksOK' /\ HeapOK'
         /\ KStackFrames' = KStackFrames /\ HeapFrames' = HeapFrames
<1>1. StatusOK'
  BY DEF IInv, StatusOK
<1>2. KStacksOK'
  BY DEF IInv, KStacksOK, KernelStackIsWhole
<1>3. HeapOK'
  BY DEF IInv, HeapOK
<1> QED
  BY <1>1, <1>2, <1>3 DEF KStackFrames, HeapFrames

(***************************************************************************)
(* A live process is given the pages grown, with frames of free, after the *)
(* pages shrunk have been taken from it: KernelUserBrk and GrowStack.      *)
(***************************************************************************)
LEMMA MemoryMoves ==
  ASSUME IInv, ~outOfRange, NEW p \in Proc, status[p] = "alive",
         NEW grown \in SUBSET (0..(Pages - 1)), NEW shrunk \in SUBSET DOMAIN userpt[p].pt,
         grown \cap DOMAIN userpt[p].pt = {},
         NEW pt, pt = With(Without(userpt[p].pt, shrunk), Writable(GetFrames(grown, free))),
         NEW brk \in 0..Pages, NEW stack_low \in 0..Pages, NEW size \in Int,
         (DOMAIN userpt[p].pt \ shrunk) \cup grown = 0..(brk - 1) \cup stack_low..(Pages - 1),
         userpt[p].data_end <= brk, brk < stack_low,
         userpt' = [userpt EXCEPT ![p] =
           Record(pt, brk, userpt[p].data_end, stack_low, size)],
         free' = (free \ Range(GetFrames(grown, free))) \cup {userpt[p].pt[v].pfn : v \in shrunk},
         outOfRange' = (NoFrame \in Range(GetFrames(grown, free))),
         UNCHANGED <<status, kstack, heap>>
  PROVE  IInv'
<1> DEFINE old == userpt[p].pt
           g == GetFrames(grown, free)
           got == Range(g)
           out == {old[v].pfn : v \in shrunk}
           left == Without(old, shrunk)
           u == Record(pt, brk, userpt[p].data_end, stack_low, size)
<1>1. /\ free \subseteq Frame /\ NoFrame \notin Frame
      /\ UserFrames[p] = FramesOf(old) /\ FramesOf(old) \cap free = {}
      /\ FramesOf(old) \subseteq Frame
  BY PartsOf DEF IInv, EntriesNameFrames
<1>2. IsTable(old) /\ userpt[p].data_end \in 0..Pages
  BY LiveMemory DEF IInv
<1>3. /\ IsTable(left) /\ DOMAIN left = DOMAIN old \ shrunk
      /\ FramesOf(left) \cap Frame = (FramesOf(old) \cap Frame) \ out
      /\ FramesOf(left) \subseteq FramesOf(old) /\ out \subseteq FramesOf(old)
  BY <1>2, TableShrinks
<1> HIDE DEF left
<1>4. /\ IsTable(pt) /\ DOMAIN pt = DOMAIN left \cup grown
      /\ FramesOf(pt) = FramesOf(left) \cup got /\ got \subseteq free \cup {NoFrame}
  <2> DEFINE prot == [v \in DOMAIN g |-> RW]
  <2>1. DOMAIN g = grown
    BY <1>1, PagesAreFinite, FramesHandedOut
  <2>2. \A v \in grown : prot[v] \in {RW, RX}
    BY <2>1
  <2>3. pt = With(left, Entries(g, prot))
    BY DEF left, Writable
  <2>4. /\ IsTable(left) /\ free \in SUBSET Frame
        /\ grown \cap DOMAIN left = {} /\ FramesOf(left) \cap free = {}
    BY <1>1, <1>3
  <2> HIDE DEF prot, old, g, got, out, u
  <2>5. LET new == With(left, Entries(GetFrames(grown, free), prot))
        IN  /\ IsTable(new) /\ DOMAIN new = DOMAIN left \cup grown
            /\ FramesOf(new) = FramesOf(left) \cup Range(GetFrames(grown, free))
            /\ Range(GetFrames(grown, free)) \subseteq free \cup {NoFrame}
    BY <2>2, <2>4, TableGrows
  <2> QED
    BY <2>3, <2>5 DEF g, got
<1>5. /\ userpt' = [userpt EXCEPT ![p] = u]
      /\ free' = (free \ got) \cup out /\ outOfRange' = (NoFrame \in got)
      /\ status' = status /\ kstack' = kstack /\ heap' = heap
  OBVIOUS
<1> HIDE DEF old, g, got, out
<1>6. IsUserPt(u) /\ HasRedZone(u)
  <2>1. IsUserPt(u)
    BY <1>2, <1>4, RecordIsUserPt
  <2>2. DOMAIN pt = 0..(brk - 1) \cup stack_low..(Pages - 1)
    BY <1>3, <1>4 DEF old
  <2> QED
    BY <2>1, <2>2 DEF HasRedZone, Record
<1>7. u.pt = pt
  BY DEF Record
<1> HIDE DEF u
<1>8. /\ TablesOK'
      /\ UserFrames' = [UserFrames EXCEPT ![p] = FramesOf(pt) \cap Frame]
      /\ userpt'[p] = u /\ \A q \in Proc \ {p} : userpt'[q] = userpt[q]
  <2>1. TablesOK
    BY DEF IInv
  <2>2. \A q \in Proc \ {p} : status'[q] = "alive" <=> status[q] = "alive"
    BY <1>5
  <2>3. status'[p] = "alive"
    BY <1>5
  <2>4. /\ TablesOK'
        /\ UserFrames' = [UserFrames EXCEPT ![p] = FramesOf(u.pt) \cap Frame]
        /\ userpt'[p] = u /\ \A q \in Proc \ {p} : userpt'[q] = userpt[q]
    BY <1>5, <1>6, <2>1, <2>2, <2>3, OneTableChanges
  <2> QED
    BY <1>7, <2>4
<1>9. /\ StatusOK' /\ KStacksOK' /\ HeapOK'
      /\ KStackFrames' = KStackFrames /\ HeapFrames' = HeapFrames
  BY <1>5, OthersUnchanged
<1>10. EntriesNameFrames'
  <2>1. ASSUME ~outOfRange', NEW q \in Proc
        PROVE  FramesOf(userpt'[q].pt) \subseteq Frame /\ kstack'[q] \subseteq Frame
    <3>1. FramesOf(pt) \subseteq Frame
      BY <2>1, <1>1, <1>3, <1>4, <1>5
    <3>2. FramesOf(userpt'[q].pt) \subseteq Frame
      BY <3>1, <1>7, <1>8 DEF IInv, EntriesNameFrames
    <3> QED
      BY <3>2, <1>5 DEF IInv, EntriesNameFrames
  <2>2. Range(heap') \subseteq Frame
    BY <1>5 DEF IInv, EntriesNameFrames
  <2> QED
    BY <2>1, <2>2 DEF EntriesNameFrames
<1>11. Partition(free', UserFrames', KStackFrames', HeapFrames')
  <2> DEFINE X == got \cap Frame
             U1 == [UserFrames EXCEPT ![p] = @ \cup X]
             U2 == [U1 EXCEPT ![p] = @ \ out]
  <2>1. X \in SUBSET free /\ free \ X = free \ got /\ X \cap FramesOf(old) = {}
    BY <1>1, <1>4
  <2>2. UserFrames \in [Proc -> SUBSET Frame]
    BY DEF IInv, Partition
  <2>3. Partition(free \ X, U1, KStackFrames, HeapFrames)
    BY <2>1, UserGets DEF IInv
  <2>4. U1[p] = FramesOf(old) \cup X
    BY <1>1, <2>2
  <2>5. out \in SUBSET U1[p]
    BY <1>3, <2>4
  <2> HIDE DEF U1
  <2>6. Partition((free \ X) \cup out, U2, KStackFrames, HeapFrames)
    BY <2>3, <2>5, UserReturns
  <2>7. U2 = UserFrames'
    <3>1. FramesOf(pt) \cap Frame = (FramesOf(old) \cup X) \ out
      BY <1>1, <1>3, <1>4, <2>1
    <3>2. U2 = [U1 EXCEPT ![p] = FramesOf(pt) \cap Frame]
      BY <2>4, <3>1
    <3> QED
      BY <3>2, <2>2, <1>8 DEF U1
  <2> HIDE DEF U2, X
  <2> QED
    BY <2>1, <2>6, <2>7, <1>5, <1>9
<1>12. outOfRange' \in BOOLEAN
  BY <1>5
<1> QED
  BY <1>8, <1>9, <1>10, <1>11, <1>12 DEF IInv

(***************************************************************************)
(* What the two handlers put into the record of a process.                 *)
(***************************************************************************)
Fields == {"pt", "brk", "data_end", "stack_low", "size"}

(***************************************************************************)
(* The fields of a pcb are what it is made of, and a change of some leaves *)
(* the others.                                                             *)
(***************************************************************************)
LEMMA RecordOfFields ==
  ASSUME NEW v, DOMAIN v = Fields, v = [x \in DOMAIN v |-> v[x]]
  PROVE  v = [pt |-> v.pt, brk |-> v.brk, data_end |-> v.data_end,
              stack_low |-> v.stack_low, size |-> v.size]
BY DEF Fields

BrkMoved(u, pt, size, next) == [u EXCEPT !.pt = pt, !.size = size, !.brk = next]
StackMoved(u, pt, size, next) == [u EXCEPT !.pt = pt, !.size = size, !.stack_low = next]
Copied(u, pt, size) == [u EXCEPT !.size = size, !.pt = pt]

LEMMA FieldsThatMove ==
  ASSUME NEW u, NEW pt, NEW size, NEW limit,
         IsRecord(u)
  PROVE  /\ BrkMoved(u, pt, size, limit) =
              Record(pt, limit, u.data_end, u.stack_low, size)
         /\ StackMoved(u, pt, size, limit) =
              Record(pt, u.brk, u.data_end, limit, size)
         /\ Copied(u, pt, size) = Record(pt, u.brk, u.data_end, u.stack_low, size)
<1>1. DOMAIN u = Fields
  <2>1. PICK t, b, d, s, z : u = [pt |-> t, brk |-> b, data_end |-> d,
                                  stack_low |-> s, size |-> z]
    BY DEF IsRecord, Record
  <2> QED
    BY <2>1 DEF Fields
<1> DEFINE v == [u EXCEPT !.pt = pt, !.size = size, !.brk = limit]
           w == [u EXCEPT !.pt = pt, !.size = size, !.stack_low = limit]
           c == [u EXCEPT !.size = size, !.pt = pt]
<1>2. /\ DOMAIN v = Fields /\ v = [x \in DOMAIN v |-> v[x]]
      /\ DOMAIN w = Fields /\ w = [x \in DOMAIN w |-> w[x]]
      /\ DOMAIN c = Fields /\ c = [x \in DOMAIN c |-> c[x]]
  BY <1>1
<1>3. /\ v.pt = pt /\ v.size = size /\ v.brk = limit
      /\ v.data_end = u.data_end /\ v.stack_low = u.stack_low
  BY <1>1 DEF Fields
<1>4. /\ w.pt = pt /\ w.size = size /\ w.stack_low = limit
      /\ w.data_end = u.data_end /\ w.brk = u.brk
  BY <1>1 DEF Fields
<1> HIDE DEF v, w, c
<1>5. v = [pt |-> pt, brk |-> limit, data_end |-> u.data_end,
           stack_low |-> u.stack_low, size |-> size]
  BY <1>2, <1>3, RecordOfFields
<1>6. w = [pt |-> pt, brk |-> u.brk, data_end |-> u.data_end,
           stack_low |-> limit, size |-> size]
  BY <1>2, <1>4, RecordOfFields
<1>7. /\ c.pt = pt /\ c.size = size /\ c.brk = u.brk
      /\ c.data_end = u.data_end /\ c.stack_low = u.stack_low
  BY <1>1 DEF Fields, c
<1>8. c = [pt |-> pt, brk |-> u.brk, data_end |-> u.data_end,
           stack_low |-> u.stack_low, size |-> size]
  BY <1>2, <1>7, RecordOfFields
<1> QED
  BY <1>5, <1>6, <1>8 DEF v, w, c, BrkMoved, StackMoved, Copied, Record
LEMMA UserBrkFits ==
  ASSUME IInv, ~outOfRange, NEW p \in Proc, status[p] = "alive",
         NEW addr \in Addresses, KernelUserBrk(p, addr)
  PROVE  IInv'
<1> DEFINE u == userpt[p]
           next == UpToPage(addr)
           grown == u.brk..(next - 1)
           shrunk == next..(u.brk - 1)
           pt == With(Without(u.pt, shrunk), Writable(GetFrames(grown, free)))
           size == u.size + next - u.brk
<1>1. /\ u.size \in Int /\ Pages \in Nat
      /\ u.brk \in 0..Pages /\ u.data_end \in 0..Pages /\ u.stack_low \in 0..Pages
      /\ DOMAIN u.pt = 0..(u.brk - 1) \cup u.stack_low..(Pages - 1)
      /\ u.data_end <= u.brk /\ u.brk < u.stack_low
      /\ IsRecord(u)
  BY LiveMemory, MemoryAssumption DEF IInv
<1>2. next \in Int /\ u.data_end <= next /\ next <= u.stack_low - 1
  <2>1. addr \in Int /\ u.data_end \in Int /\ u.stack_low - 1 \in Int
    BY <1>1 DEF Addresses
  <2>2. u.data_end * PageSize <= addr /\ addr < (u.stack_low - 1) * PageSize
    <3>1. addr >= u.data_end * PageSize /\ addr < (u.stack_low - 1) * PageSize
      BY DEF KernelUserBrk, BrkLimit
    <3>2. u.data_end * PageSize \in Int
      BY <1>1, MemoryAssumption
    <3> QED
      BY <2>1, <3>1, <3>2
  <2> HIDE DEF u
  <2> QED
    BY <2>1, <2>2, UpToPageBounds
<1>3. /\ free' = (free \ Range(GetFrames(grown, free))) \cup {u.pt[v].pfn : v \in shrunk}
      /\ userpt' = [userpt EXCEPT ![p] = [u EXCEPT !.pt = pt, !.size = size, !.brk = next]]
      /\ outOfRange' = (NoFrame \in Range(GetFrames(grown, free)))
      /\ UNCHANGED <<status, kstack, heap>>
  BY DEF KernelUserBrk
<1> HIDE DEF pt, next
<1>4. BrkMoved(u, pt, size, next) = Record(pt, next, u.data_end, u.stack_low, size)
  <2> HIDE DEF u, size
  <2> QED
    BY <1>1, FieldsThatMove
<1>5. /\ size \in Int /\ next \in 0..Pages /\ next < u.stack_low /\ u.data_end <= next
      /\ grown \in SUBSET (0..(Pages - 1)) /\ shrunk \in SUBSET DOMAIN u.pt
      /\ grown \cap DOMAIN u.pt = {}
  BY <1>1, <1>2
<1>6. (DOMAIN u.pt \ shrunk) \cup grown = 0..(next - 1) \cup u.stack_low..(Pages - 1)
  BY <1>1, <1>2
<1>7. pt = With(Without(u.pt, shrunk), Writable(GetFrames(grown, free)))
  BY DEF pt
<1>8. userpt' = [userpt EXCEPT ![p] =
                   Record(pt, next, u.data_end, u.stack_low, size)]
  BY <1>3, <1>4 DEF BrkMoved
<1> HIDE DEF grown, shrunk, size
<1> QED
  BY <1>1, <1>3, <1>5, <1>6, <1>7, <1>8, MemoryMoves

LEMMA GrowStackFits ==
  ASSUME IInv, ~outOfRange, NEW p \in Proc, status[p] = "alive", NEW addr \in Addresses,
         addr >= StackLimit(p), addr <= userpt[p].stack_low * PageSize, GrowStack(p, addr)
  PROVE  IInv'
<1> DEFINE u == userpt[p]
           next == DownToPage(addr)
           grown == next..(u.stack_low - 1)
           pt == With(u.pt, Writable(GetFrames(grown, free)))
           size == u.size + u.stack_low - next
           none == {}
<1>1. /\ u.size \in Int /\ Pages \in Nat
      /\ u.brk \in 0..Pages /\ u.data_end \in 0..Pages /\ u.stack_low \in 0..Pages
      /\ DOMAIN u.pt = 0..(u.brk - 1) \cup u.stack_low..(Pages - 1)
      /\ u.data_end <= u.brk /\ u.brk < u.stack_low
      /\ IsRecord(u)
  BY LiveMemory, MemoryAssumption DEF IInv
<1>2. next \in Int /\ u.brk + 1 <= next /\ next <= u.stack_low
  <2>1. addr \in Int /\ u.brk + 1 \in Int /\ u.stack_low \in Int
    BY <1>1 DEF Addresses
  <2>2. (u.brk + 1) * PageSize <= addr /\ addr <= u.stack_low * PageSize
    <3>1. addr >= (u.brk + 1) * PageSize /\ addr <= u.stack_low * PageSize
      BY DEF StackLimit
    <3>2. (u.brk + 1) * PageSize \in Int
      BY <1>1, MemoryAssumption
    <3> QED
      BY <2>1, <3>1, <3>2
  <2> HIDE DEF u
  <2> QED
    BY <2>1, <2>2, DownToPageBounds
<1>3. /\ free' = free \ Range(GetFrames(grown, free))
      /\ userpt' = [userpt EXCEPT ![p] = [u EXCEPT !.pt = pt, !.size = size, !.stack_low = next]]
      /\ outOfRange' = (NoFrame \in Range(GetFrames(grown, free)))
      /\ UNCHANGED <<status, kstack, heap>>
  BY DEF GrowStack
<1>4. pt = With(Without(u.pt, none), Writable(GetFrames(grown, free)))
  BY DEF With, Without, Restrict
<1> HIDE DEF pt, next
<1>5. StackMoved(u, pt, size, next) = Record(pt, u.brk, u.data_end, next, size)
  <2> HIDE DEF u, size
  <2> QED
    BY <1>1, FieldsThatMove
<1>6. /\ size \in Int /\ next \in 0..Pages /\ u.brk < next
      /\ grown \in SUBSET (0..(Pages - 1)) /\ grown \cap DOMAIN u.pt = {}
  BY <1>1, <1>2
<1>7. (DOMAIN u.pt \ none) \cup grown = 0..(u.brk - 1) \cup next..(Pages - 1)
  BY <1>1, <1>2
<1>8. userpt' = [userpt EXCEPT ![p] =
                   Record(pt, u.brk, u.data_end, next, size)]
  BY <1>3, <1>5 DEF StackMoved
<1> HIDE DEF grown, size
<1>9. free' = (free \ Range(GetFrames(grown, free))) \cup {u.pt[v].pfn : v \in none}
  BY <1>3
<1>10. none \in SUBSET DOMAIN u.pt
  OBVIOUS
<1>11. /\ outOfRange' = (NoFrame \in Range(GetFrames(grown, free)))
       /\ UNCHANGED <<status, kstack, heap>>
  BY <1>3
<1> HIDE DEF none
<1> QED
  BY <1>1, <1>4, <1>6, <1>7, <1>8, <1>9, <1>10, <1>11, MemoryMoves

-----------------------------------------------------------------------------
(***************************************************************************)
(* The kernel heap grows by some pages.                                    *)
(***************************************************************************)
LEMMA HeapTakes ==
  ASSUME IInv, ~outOfRange, NEW most \in Nat, NEW grown \in NewHeapPages(most),
         NEW h, h = GetFrames(grown, free), heap' = With(heap, h)
  PROVE  /\ HeapOK' /\ Range(h) \subseteq free \cup {NoFrame}
         /\ NoFrame \notin Range(h) => Range(heap') \subseteq Frame
         /\ Partition(free \ Range(h), UserFrames, KStackFrames, HeapFrames')
<1>1. /\ free \subseteq Frame /\ NoFrame \notin Frame
      /\ HeapFrames = Range(heap) /\ Range(heap) \cap free = {}
  BY PartsOf
<1>2. /\ HeapOK' /\ Range(heap') = Range(heap) \cup Range(h)
      /\ Range(h) \subseteq free \cup {NoFrame}
  BY <1>1, HeapGrows DEF IInv
<1> DEFINE X == Range(h) \cap Frame
<1>3. X \in SUBSET free /\ free \ X = free \ Range(h)
  BY <1>1, <1>2
<1>4. HeapFrames \cup X = HeapFrames'
  BY <1>1, <1>2 DEF HeapFrames
<1>5. Partition(free \ X, UserFrames, KStackFrames, HeapFrames \cup X)
  BY <1>3, HeapGets DEF IInv
<1> HIDE DEF X
<1>6. Partition(free \ Range(h), UserFrames, KStackFrames, HeapFrames')
  BY <1>3, <1>4, <1>5
<1>7. NoFrame \notin Range(h) => Range(heap') \subseteq Frame
  BY <1>1, <1>2 DEF IInv, EntriesNameFrames
<1> QED
  BY <1>2, <1>6, <1>7

LEMMA CreateObjectFits ==
  ASSUME IInv, ~outOfRange, CreateObject
  PROVE  IInv'
<1>1. /\ status' = status /\ userpt' = userpt /\ kstack' = kstack
      /\ \E grown \in NewHeapPages(1) :
           LET h == GetFrames(grown, free)
           IN  /\ free' = free \ Range(h)
               /\ heap' = With(heap, h)
               /\ outOfRange' = (NoFrame \in Range(h))
  BY DEF CreateObject
<1>2. PICK grown \in NewHeapPages(1) :
        /\ free' = free \ Range(GetFrames(grown, free))
        /\ heap' = With(heap, GetFrames(grown, free))
        /\ outOfRange' = (NoFrame \in Range(GetFrames(grown, free)))
  BY <1>1
<1>3. /\ HeapOK'
      /\ NoFrame \notin Range(GetFrames(grown, free)) => Range(heap') \subseteq Frame
      /\ Partition(free \ Range(GetFrames(grown, free)), UserFrames, KStackFrames, HeapFrames')
  BY <1>2, HeapTakes
<1>4. TablesOK' /\ UserFrames' = UserFrames
  BY <1>1, NoTableChanges DEF IInv
<1>5. StatusOK' /\ KStacksOK' /\ KStackFrames' = KStackFrames
  BY <1>1 DEF IInv, StatusOK, KStacksOK, KernelStackIsWhole, KStackFrames
<1>6. Partition(free', UserFrames', KStackFrames', HeapFrames')
  BY <1>2, <1>3, <1>4, <1>5
<1>7. EntriesNameFrames' /\ outOfRange' \in BOOLEAN
  <2>1. \A p \in Proc : FramesOf(userpt[p].pt) \subseteq Frame /\ kstack[p] \subseteq Frame
    BY DEF IInv, EntriesNameFrames
  <2>2. outOfRange' \in BOOLEAN
    BY <1>2
  <2>3. ~outOfRange' => Range(heap') \subseteq Frame
    BY <1>2, <1>3
  <2> QED
    BY <1>1, <2>1, <2>2, <2>3 DEF EntriesNameFrames
<1> QED
  BY <1>3, <1>4, <1>5, <1>6, <1>7 DEF IInv

(***************************************************************************)
(* The top page of the kernel heap is given back.                          *)
(***************************************************************************)
LEMMA KernelReclaimFits ==
  ASSUME IInv, ~outOfRange, KernelReclaim
  PROVE  IInv'
<1> DEFINE top == Cardinality(DOMAIN heap) - 1
<1>1. /\ status' = status /\ userpt' = userpt /\ kstack' = kstack
      /\ outOfRange' = outOfRange
      /\ free' = free \cup {heap[top]} /\ heap' = Without(heap, {top})
      /\ DOMAIN heap # {}
  BY DEF KernelReclaim
<1>2. top \in DOMAIN heap /\ \E n \in 0..MaxHeap : DOMAIN heap \ {top} = 0..(n - 1)
  <2>1. PICK n \in 0..MaxHeap : DOMAIN heap = 0..(n - 1)
    BY DEF IInv, HeapOK
  <2>2. MaxHeap \in Nat /\ n \in Nat /\ n # 0
    BY <1>1, <2>1, MemoryAssumption
  <2>3. top = n - 1
    BY <2>1, <2>2, FS_Interval
  <2> HIDE DEF top
  <2>4. top \in DOMAIN heap /\ DOMAIN heap \ {top} = 0..((n - 1) - 1)
    BY <2>1, <2>2, <2>3
  <2> QED
    BY <2>2, <2>4
<1> HIDE DEF top
<1>3. /\ DOMAIN heap' = DOMAIN heap \ {top}
      /\ \A m \in DOMAIN heap' : heap'[m] = heap[m]
  <2>1. /\ DOMAIN Without(heap, {top}) = DOMAIN heap \ {top}
        /\ \A m \in DOMAIN heap \ {top} : Without(heap, {top})[m] = heap[m]
    BY WithoutRemoves
  <2> QED
    BY <1>1, <2>1
<1>4. Range(heap) \subseteq Frame /\ HeapFrames = Range(heap) /\ OncePerFrame(heap)
  BY PartsOf DEF IInv, EntriesNameFrames, HeapOK
<1>5. Range(heap') = Range(heap) \ {heap[top]} /\ OncePerFrame(heap')
  <2>1. \A m \in DOMAIN heap : heap[m] \in Frame /\ (heap[m] = heap[top] => m = top)
    BY <1>2, <1>4 DEF Range, OncePerFrame
  <2>2. Range(heap') = Range(heap) \ {heap[top]}
    BY <1>2, <1>3, <2>1 DEF Range
  <2>3. OncePerFrame(heap')
    BY <1>3, <1>4 DEF OncePerFrame
  <2> QED
    BY <2>2, <2>3
<1>6. HeapOK'
  BY <1>2, <1>3, <1>4, <1>5 DEF HeapOK
<1>7. heap[top] \in HeapFrames /\ HeapFrames' = HeapFrames \ {heap[top]}
  BY <1>2, <1>4, <1>5 DEF HeapFrames, Range
<1>8. TablesOK' /\ UserFrames' = UserFrames
  BY <1>1, NoTableChanges DEF IInv
<1>9. StatusOK' /\ KStacksOK' /\ KStackFrames' = KStackFrames
  BY <1>1 DEF IInv, StatusOK, KStacksOK, KernelStackIsWhole, KStackFrames
<1>10. Partition(free \cup {heap[top]}, UserFrames, KStackFrames, HeapFrames \ {heap[top]})
  <2> DEFINE X == {heap[top]}
  <2>1. X \in SUBSET HeapFrames
    BY <1>7
  <2> HIDE DEF X
  <2>2. Partition(free \cup X, UserFrames, KStackFrames, HeapFrames \ X)
    BY <2>1, HeapReturns DEF IInv
  <2> QED
    BY <2>2 DEF X
<1>11. Partition(free', UserFrames', KStackFrames', HeapFrames')
  BY <1>1, <1>7, <1>8, <1>9, <1>10
<1>12. EntriesNameFrames' /\ outOfRange' \in BOOLEAN
  BY <1>1, <1>4, <1>5 DEF IInv, EntriesNameFrames
<1> QED
  BY <1>6, <1>8, <1>9, <1>11, <1>12 DEF IInv

-----------------------------------------------------------------------------
(***************************************************************************)
(* Processes that wait to be collected give their kernel stacks back.      *)
(***************************************************************************)
LEMMA StacksCollected ==
  ASSUME IInv, ~outOfRange, NEW dead \in SUBSET Defunct,
         kstack' = [q \in Proc |-> IF q \in dead THEN {} ELSE kstack[q]],
         \A q \in Proc : status'[q] = "free" <=> q \in dead \/ status[q] = "free",
         NEW fr, NEW U, NEW H, Partition(fr, U, KStackFrames, H)
  PROVE  /\ KStacksOK' /\ \A q \in Proc : kstack'[q] \subseteq Frame
         /\ Partition(fr \cup KStacksOf(dead), U, KStackFrames', H)
<1>1. /\ \A q \in Proc : kstack[q] \subseteq Frame /\ KStackFrames[q] = kstack[q]
      /\ KStackFrames = [q \in Proc |-> KStackFrames[q]]
      /\ dead \in SUBSET Proc
  BY PartsOf DEF IInv, EntriesNameFrames, Defunct, KStackFrames
<1>2. \A q \in Proc : kstack'[q] = IF q \in dead THEN {} ELSE kstack[q]
  OBVIOUS
<1>3. KernelStackIsWhole'
  <2>1. KernelStackIsWhole
    BY DEF IInv, KStacksOK
  <2>2. ASSUME NEW q \in Proc \ {InitProc}
        PROVE  Cardinality(kstack'[q]) = IF status'[q] = "free" THEN 0 ELSE KStack
    <3>1. CASE q \in dead
      BY <1>2, <3>1, FS_EmptySet
    <3>2. CASE q \notin dead
      BY <1>2, <2>1, <3>2 DEF KernelStackIsWhole
    <3> QED
      BY <3>1, <3>2
  <2> QED
    BY <2>2 DEF KernelStackIsWhole
<1>4. KStacksOK'
  <2>1. ASSUME NEW q \in Proc
        PROVE  /\ kstack'[q] \subseteq Frame \cup {NoFrame}
               /\ status'[q] = "free" => kstack'[q] = {}
    BY <1>1, <1>2 DEF IInv, KStacksOK
  <2>2. kstack' = [q \in Proc |-> kstack'[q]]
    OBVIOUS
  <2> QED
    BY <1>3, <2>1, <2>2 DEF KStacksOK
<1>5. KStackFrames' = [q \in Proc |-> IF q \in dead THEN {} ELSE KStackFrames[q]]
  BY <1>1, <1>2 DEF KStackFrames
<1>6. UNION {KStackFrames[q] : q \in dead} = KStacksOf(dead)
  BY <1>1 DEF KStacksOf
<1>7. Partition(fr \cup UNION {KStackFrames[q] : q \in dead}, U,
                [q \in Proc |-> IF q \in dead THEN {} ELSE KStackFrames[q]], H)
  BY <1>1, KStacksReturn
<1>8. Partition(fr \cup KStacksOf(dead), U, KStackFrames', H)
  BY <1>5, <1>6, <1>7
<1>9. \A q \in Proc : kstack'[q] \subseteq Frame
  BY <1>1, <1>2
<1> QED
  BY <1>4, <1>8, <1>9

(***************************************************************************)
(* process_destroy frees terminated processes only, never init.            *)
(***************************************************************************)
LEMMA DestroyFrees ==
  ASSUME IInv, NEW dead \in SUBSET Defunct
  PROVE  /\ StatusOK /\ InitProc \in Proc /\ InitProc \notin dead
         /\ Destroy(dead, status) \in [Proc -> {"free", "alive", "defunct"}]
         /\ \A q \in Proc : Destroy(dead, status)[q] = IF q \in dead THEN "free" ELSE status[q]
         /\ \A q \in dead : q \in Proc /\ status[q] = "defunct"
<1>1. StatusOK /\ InitProc \in Proc
  BY MemoryAssumption DEF IInv
<1>2. \A q \in dead : q \in Proc /\ status[q] = "defunct"
  BY DEF Defunct
<1>3. \A q \in Proc : Destroy(dead, status)[q] = IF q \in dead THEN "free" ELSE status[q]
  BY DEF Destroy
<1>4. Destroy(dead, status) \in [Proc -> {"free", "alive", "defunct"}]
  BY <1>1 DEF StatusOK, Destroy
<1> QED
  BY <1>1, <1>2, <1>3, <1>4 DEF StatusOK

LEMMA KernelWaitFits ==
  ASSUME IInv, ~outOfRange, KernelWait
  PROVE  IInv'
<1>1. PICK dead \in SUBSET Defunct :
        /\ free' = free \cup KStacksOf(dead)
        /\ status' = Destroy(dead, status)
        /\ kstack' = [q \in Proc |-> IF q \in dead THEN {} ELSE kstack[q]]
  BY DEF KernelWait
<1>2. userpt' = userpt /\ heap' = heap /\ outOfRange' = outOfRange
  BY DEF KernelWait
<1>3. /\ \A q \in Proc : status'[q] = IF q \in dead THEN "free" ELSE status[q]
      /\ StatusOK'
      /\ \A q \in dead : q \in Proc /\ status[q] = "defunct"
  BY <1>1, DestroyFrees DEF StatusOK
<1>4. TablesOK' /\ UserFrames' = UserFrames
  BY <1>2, <1>3, NoTableChanges DEF IInv
<1>5. HeapOK' /\ HeapFrames' = HeapFrames
  BY <1>2 DEF IInv, HeapOK, HeapFrames
<1>6. /\ KStacksOK' /\ \A q \in Proc : kstack'[q] \subseteq Frame
      /\ Partition(free \cup KStacksOf(dead), UserFrames, KStackFrames', HeapFrames)
  <2>1. Partition(free, UserFrames, KStackFrames, HeapFrames)
    BY DEF IInv
  <2>2. \A q \in Proc : status'[q] = "free" <=> q \in dead \/ status[q] = "free"
    BY <1>3
  <2>3. kstack' = [q \in Proc |-> IF q \in dead THEN {} ELSE kstack[q]]
    BY <1>1
  <2> QED
    BY <2>1, <2>2, <2>3, StacksCollected
<1>7. Partition(free', UserFrames', KStackFrames', HeapFrames')
  BY <1>1, <1>4, <1>5, <1>6
<1>8. EntriesNameFrames' /\ outOfRange' \in BOOLEAN
  BY <1>2, <1>6 DEF IInv, EntriesNameFrames
<1> QED
  BY <1>3, <1>4, <1>5, <1>6, <1>7, <1>8 DEF IInv

(***************************************************************************)
(* A process ends, in Exit or in an Exec that fails: its user memory is    *)
(* given back, with the kernel stacks of those that it destroys.           *)
(***************************************************************************)
LEMMA ProcessDies ==
  ASSUME IInv, ~outOfRange, NEW p \in Proc, status[p] = "alive", p # InitProc,
         NEW dead \in SUBSET Defunct,
         status' = [Destroy(dead, status) EXCEPT ![p] = "defunct"],
         userpt' = [userpt EXCEPT ![p].pt = <<>>],
         kstack' = [q \in Proc |-> IF q \in dead THEN {} ELSE kstack[q]],
         NEW fr, NEW H, Partition(fr, UserFrames, KStackFrames, H)
  PROVE  /\ StatusOK' /\ TablesOK' /\ KStacksOK'
         /\ \A q \in Proc : FramesOf(userpt'[q].pt) \subseteq Frame /\ kstack'[q] \subseteq Frame
         /\ Partition(fr \cup VacatedByExit(p, dead), UserFrames', KStackFrames', H)
<1>1. /\ status'[p] = "defunct" /\ p \notin dead
      /\ \A q \in Proc \ {p} : status'[q] = IF q \in dead THEN "free" ELSE status[q]
      /\ \A q \in dead : q \in Proc /\ status[q] = "defunct"
      /\ StatusOK'
  <2> DEFINE d == Destroy(dead, status)
  <2>1. /\ StatusOK /\ InitProc \in Proc
        /\ d \in [Proc -> {"free", "alive", "defunct"}]
        /\ \A q \in Proc : d[q] = IF q \in dead THEN "free" ELSE status[q]
        /\ \A q \in dead : q \in Proc /\ status[q] = "defunct"
        /\ InitProc \notin dead
    BY DestroyFrees
  <2>2. status' = [d EXCEPT ![p] = "defunct"]
    OBVIOUS
  <2> HIDE DEF d
  <2>3. status'[p] = "defunct" /\ p \notin dead
    BY <2>1, <2>2
  <2>4. \A q \in Proc \ {p} : status'[q] = IF q \in dead THEN "free" ELSE status[q]
    BY <2>1, <2>2
  <2>5. StatusOK'
    BY <2>1, <2>2 DEF StatusOK
  <2> QED
    BY <2>1, <2>3, <2>4, <2>5
<1>2. DOMAIN <<>> = {} /\ FramesOf(<<>>) = {} /\ OncePerTable(<<>>)
  BY EmptyTable
<1> DEFINE none == <<>>
           old == userpt[p]
           u == [old EXCEPT !.pt = none]
<1>3. IsUserPt(old)
  BY DEF IInv, TablesOK
<1>4. DOMAIN none = {} /\ FramesOf(none) = {} /\ OncePerTable(none)
  BY <1>2
<1>5. userpt' = [userpt EXCEPT ![p] = u]
  OBVIOUS
<1> HIDE DEF none, old
<1>6. u.pt = none /\ IsUserPt(u)
  <2>1. DOMAIN old = Fields
    BY <1>3 DEF IsUserPt, IsRecord, Record, Fields
  <2>2. DOMAIN u = Fields /\ u = [x \in DOMAIN u |-> u[x]]
    BY <2>1
  <2>3. /\ u.pt = none /\ u.brk = old.brk /\ u.data_end = old.data_end
        /\ u.stack_low = old.stack_low /\ u.size = old.size
    BY <2>1 DEF Fields
  <2> HIDE DEF u
  <2>4. IsRecord(u)
    <3>1. u = [pt |-> u.pt, brk |-> u.brk, data_end |-> u.data_end,
               stack_low |-> u.stack_low, size |-> u.size]
      BY <2>2, RecordOfFields
    <3> QED
      BY <3>1 DEF IsRecord, Record
  <2>5. UserPtOK(u)
    BY <1>3, <1>4, <2>3 DEF IsUserPt, UserPtOK
  <2> QED
    BY <1>4, <2>3, <2>4, <2>5 DEF IsUserPt
<1> HIDE DEF u
<1>7. /\ TablesOK'
      /\ UserFrames' = [UserFrames EXCEPT ![p] = FramesOf(u.pt) \cap Frame]
      /\ userpt'[p] = u /\ \A q \in Proc \ {p} : userpt'[q] = userpt[q]
  <2>1. DOMAIN u.pt = {}
    BY <1>4, <1>6
  <2>2. IF status'[p] = "alive" THEN HasRedZone(u) ELSE DOMAIN u.pt = {}
    BY <1>1, <2>1
  <2>3. \A q \in Proc \ {p} : status'[q] = "alive" <=> status[q] = "alive"
    BY <1>1
  <2>4. TablesOK
    BY DEF IInv
  <2> QED
    BY <1>5, <1>6, <2>2, <2>3, <2>4, OneTableChanges
<1>8. UserFrames[p] = FramesOf(old.pt) /\ UserFrames = [q \in Proc |-> UserFrames[q]]
  BY PartsOf DEF old, UserFrames
<1>9. Partition(fr \cup FramesOf(old.pt), UserFrames', KStackFrames, H)
  <2>1. Partition(fr \cup UserFrames[p], [UserFrames EXCEPT ![p] = @ \ UserFrames[p]],
                  KStackFrames, H)
    BY UserReturns
  <2>2. [UserFrames EXCEPT ![p] = @ \ UserFrames[p]] = UserFrames'
    BY <1>4, <1>6, <1>7
  <2> QED
    BY <1>8, <2>1, <2>2
<1>10. /\ KStacksOK' /\ \A q \in Proc : kstack'[q] \subseteq Frame
       /\ Partition((fr \cup FramesOf(old.pt)) \cup KStacksOf(dead), UserFrames',
                    KStackFrames', H)
  <2>1. \A q \in Proc : status'[q] = "free" <=> q \in dead \/ status[q] = "free"
    BY <1>1
  <2> QED
    BY <1>9, <2>1, StacksCollected
<1>11. Partition(fr \cup VacatedByExit(p, dead), UserFrames', KStackFrames', H)
  <2>1. fr \cup VacatedByExit(p, dead) = (fr \cup FramesOf(old.pt)) \cup KStacksOf(dead)
    BY DEF VacatedByExit, old
  <2> QED
    BY <1>10, <2>1
<1>12. \A q \in Proc : FramesOf(userpt'[q].pt) \subseteq Frame
  BY <1>4, <1>6, <1>7 DEF IInv, EntriesNameFrames
<1> QED
  BY <1>1, <1>7, <1>10, <1>11, <1>12

LEMMA KernelExitFits ==
  ASSUME IInv, ~outOfRange, NEW p \in Proc, status[p] = "alive", KernelExit(p)
  PROVE  IInv'
<1>1. PICK dead \in SUBSET Defunct :
        /\ free' = free \cup VacatedByExit(p, dead)
        /\ status' = [Destroy(dead, status) EXCEPT ![p] = "defunct"]
        /\ userpt' = [userpt EXCEPT ![p].pt = <<>>]
        /\ kstack' = [q \in Proc |-> IF q \in dead THEN {} ELSE kstack[q]]
  BY DEF KernelExit
<1>2. p # InitProc /\ heap' = heap /\ outOfRange' = outOfRange
  BY DEF KernelExit
<1>3. Partition(free, UserFrames, KStackFrames, HeapFrames)
  BY DEF IInv
<1>4. /\ StatusOK' /\ TablesOK' /\ KStacksOK'
      /\ \A q \in Proc : FramesOf(userpt'[q].pt) \subseteq Frame /\ kstack'[q] \subseteq Frame
      /\ Partition(free \cup VacatedByExit(p, dead), UserFrames', KStackFrames', HeapFrames)
  BY <1>1, <1>2, <1>3, ProcessDies
<1>5. HeapOK' /\ HeapFrames' = HeapFrames
  BY <1>2 DEF IInv, HeapOK, HeapFrames
<1>6. Partition(free', UserFrames', KStackFrames', HeapFrames')
  BY <1>1, <1>4, <1>5
<1>7. EntriesNameFrames' /\ outOfRange' \in BOOLEAN
  BY <1>2, <1>4 DEF IInv, EntriesNameFrames
<1> QED
  BY <1>4, <1>5, <1>6, <1>7 DEF IInv

LEMMA TrapMemoryFits ==
  ASSUME IInv, ~outOfRange, NEW p \in Proc, status[p] = "alive",
         NEW addr \in Addresses, TrapMemory(p, addr)
  PROVE  IInv'
<1>1. CASE addr >= StackLimit(p) /\ addr <= userpt[p].stack_low * PageSize
           /\ GrowStack(p, addr)
  BY <1>1, GrowStackFits
<1>2. CASE KernelExit(p)
  BY <1>2, KernelExitFits
<1> QED
  BY <1>1, <1>2 DEF TrapMemory

-----------------------------------------------------------------------------
(***************************************************************************)
(* The pages that LoadProgram maps.                                        *)
(***************************************************************************)
LEMMA PagesOfAre ==
  ASSUME NEW li \in Image, Fits(li)
  PROVE  /\ li.text \in 1..Pages /\ li.data \in 1..Pages /\ li.stack \in 1..Pages
         /\ PagesOf(li) \in SUBSET (0..(Pages - 1)) /\ Cardinality(PagesOf(li)) = Needs(li)
<1>1. /\ li.text \in 1..Pages /\ li.data \in 1..Pages /\ li.stack \in 1..Pages
      /\ Pages \in Nat
  BY MemoryAssumption
<1> DEFINE n == li.text + li.data
           m == Pages - li.stack
           low == 0..(n - 1)
           high == m..(Pages - 1)
<1>2. n \in Nat /\ m \in Nat /\ n < m /\ m <= Pages
  BY <1>1 DEF Fits
<1>3. Needs(li) = n + (Pages - m)
  BY <1>1 DEF Needs
<1>4. PagesOf(li) = low \cup high
  <2>1. PagesOf(li) = 0..(li.text + li.data - 1) \cup (Pages - li.stack)..(Pages - 1)
    BY DEF PagesOf
  <2>2. low = 0..(li.text + li.data - 1)
    <3>1. n - 1 = li.text + li.data - 1
      BY <1>1
    <3> QED
      BY <3>1
  <2>3. high = (Pages - li.stack)..(Pages - 1)
    OBVIOUS
  <2> HIDE DEF low, high
  <2> QED
    BY <2>1, <2>2, <2>3
<1> HIDE DEF n, m
<1>5. low \cap high = {} /\ low \cup high \in SUBSET (0..(Pages - 1))
  BY <1>1, <1>2
<1>6. /\ IsFiniteSet(low) /\ Cardinality(low) = n
      /\ IsFiniteSet(high) /\ Cardinality(high) = Pages - m
  <2>1. n - 1 \in Int /\ Pages - 1 \in Int /\ m \in Int /\ 0 \in Int
    BY <1>1, <1>2
  <2>2. IsFiniteSet(low) /\ Cardinality(low) = IF 0 <= n - 1 THEN (n - 1) - 0 + 1 ELSE 0
    BY <2>1, FS_Interval
  <2>3. /\ IsFiniteSet(high)
        /\ Cardinality(high) = IF m <= Pages - 1 THEN (Pages - 1) - m + 1 ELSE 0
    BY <2>1, FS_Interval
  <2> HIDE DEF low, high
  <2> QED
    BY <1>1, <1>2, <2>2, <2>3
<1> HIDE DEF low, high
<1>7. Cardinality(low \cup high) = n + (Pages - m)
  <2>1. Cardinality({}) = 0
    BY FS_EmptySet
  <2>2. Cardinality(low \cup high) =
          Cardinality(low) + Cardinality(high) - Cardinality(low \cap high)
    BY <1>6, FS_Union
  <2> QED
    BY SMTT(30), <1>1, <1>2, <1>5, <1>6, <2>1, <2>2
<1> QED
  BY <1>1, <1>3, <1>4, <1>5, <1>7

(***************************************************************************)
(* What LoadProgram leaves in the record of the process, when its check of *)
(* the free frames has succeeded.                                          *)
(***************************************************************************)
LEMMA ProgramFits ==
  ASSUME NEW li \in Image, Fits(li), NEW fr \in SUBSET Frame, Needs(li) <= Cardinality(fr)
  PROVE  LET g == GetFrames(PagesOf(li), fr)
             u == Loaded(li, g)
         IN  /\ IsUserPt(u) /\ HasRedZone(u)
             /\ FramesOf(u.pt) = Range(g) /\ Range(g) \subseteq fr
<1> DEFINE pages == PagesOf(li)
           g == GetFrames(pages, fr)
           prot == [v \in DOMAIN g |-> IF v < li.text THEN RX ELSE RW]
           pt == Entries(g, prot)
           u == Loaded(li, g)
<1>1. /\ li.text \in 1..Pages /\ li.data \in 1..Pages /\ li.stack \in 1..Pages
      /\ pages \in SUBSET (0..(Pages - 1)) /\ Cardinality(pages) = Needs(li)
  BY PagesOfAre
<1>2. Pages \in Nat
  BY MemoryAssumption
<1>3. pages = 0..(li.text + li.data - 1) \cup (Pages - li.stack)..(Pages - 1)
  BY DEF PagesOf
<1> HIDE DEF pages
<1>4. DOMAIN g = pages /\ Range(g) \subseteq fr
  BY <1>1, PagesAreFinite, FramesHandedOut
<1>5. \A v \in pages : prot[v] \in {RW, RX}
  BY <1>4
<1> HIDE DEF prot
<1>6. IsTable(pt) /\ DOMAIN pt = pages /\ FramesOf(pt) = Range(g)
  BY <1>1, <1>5, NewTable
<1>7. u = Record(pt, li.text + li.data, li.text + li.data - 1, Pages - li.stack, Needs(li))
  BY DEF Loaded, Record, prot
<1> HIDE DEF pt, u
<1>8. /\ li.text + li.data \in 0..Pages /\ li.text + li.data - 1 \in 0..Pages
      /\ Pages - li.stack \in 0..Pages /\ Needs(li) \in Int
      /\ li.text + li.data < Pages - li.stack
      /\ li.text + li.data - 1 <= li.text + li.data
  BY <1>1, <1>2 DEF Fits, Needs
<1>9. IsUserPt(u)
  BY <1>6, <1>7, <1>8, RecordIsUserPt
<1>10. u.pt = pt /\ HasRedZone(u)
  <2>1. /\ u.pt = pt /\ u.brk = li.text + li.data /\ u.data_end = li.text + li.data - 1
        /\ u.stack_low = Pages - li.stack
    BY <1>7 DEF Record
  <2>2. DOMAIN u.pt = 0..(u.brk - 1) \cup u.stack_low..(Pages - 1)
    <3>1. u.brk - 1 = li.text + li.data - 1
      BY <1>1, <2>1
    <3> QED
      BY <1>3, <1>6, <2>1, <3>1
  <2>3. u.data_end <= u.brk /\ u.brk < u.stack_low
    BY <1>8, <2>1
  <2> QED
    BY <2>1, <2>2, <2>3 DEF HasRedZone
<1> QED
  BY <1>4, <1>6, <1>9, <1>10 DEF u, g, pages

(***************************************************************************)
(* The old memory of a process is given back and a program is loaded, when *)
(* the kernel heap has taken what it needs from free.                      *)
(***************************************************************************)
LEMMA ProgramReplaces ==
  ASSUME IInv, ~outOfRange, NEW p \in Proc, status[p] = "alive",
         NEW li \in Image, Fits(li),
         NEW fr \in SUBSET Frame, NEW H, Partition(fr, UserFrames, KStackFrames, H),
         NEW rest, rest = fr \cup FramesOf(userpt[p].pt), Needs(li) <= Cardinality(rest),
         userpt' = [userpt EXCEPT ![p] = Loaded(li, GetFrames(PagesOf(li), rest))],
         status' = status, kstack' = kstack
  PROVE  /\ StatusOK' /\ TablesOK' /\ KStacksOK'
         /\ \A q \in Proc : FramesOf(userpt'[q].pt) \subseteq Frame /\ kstack'[q] \subseteq Frame
         /\ Partition(rest \ Range(GetFrames(PagesOf(li), rest)), UserFrames', KStackFrames', H)
<1> DEFINE g == GetFrames(PagesOf(li), rest)
           u == Loaded(li, g)
           got == Range(g)
           old == UserFrames[p]
<1>1. /\ old = FramesOf(userpt[p].pt) /\ old \subseteq Frame
      /\ UserFrames = [q \in Proc |-> UserFrames[q]]
  BY PartsOf DEF IInv, EntriesNameFrames, UserFrames
<1>2. rest = fr \cup old /\ rest \in SUBSET Frame
  BY <1>1
<1>3. IsUserPt(u) /\ HasRedZone(u) /\ FramesOf(u.pt) = got /\ got \subseteq rest
  BY <1>2, ProgramFits
<1>4. userpt' = [userpt EXCEPT ![p] = u]
  OBVIOUS
<1> HIDE DEF g, u, got, old
<1>5. /\ TablesOK'
      /\ UserFrames' = [UserFrames EXCEPT ![p] = FramesOf(u.pt) \cap Frame]
      /\ userpt'[p] = u /\ \A q \in Proc \ {p} : userpt'[q] = userpt[q]
  <2>1. TablesOK /\ status'[p] = "alive"
    BY DEF IInv
  <2>2. \A q \in Proc \ {p} : status'[q] = "alive" <=> status[q] = "alive"
    OBVIOUS
  <2> QED
    BY <1>3, <1>4, <2>1, <2>2, OneTableChanges
<1>6. StatusOK' /\ KStacksOK' /\ KStackFrames' = KStackFrames
  <2>1. StatusOK'
    BY DEF IInv, StatusOK
  <2>2. KStacksOK'
    BY DEF IInv, KStacksOK, KernelStackIsWhole
  <2> QED
    BY <2>1, <2>2 DEF KStackFrames
<1>7. Partition(rest \ got, UserFrames', KStackFrames', H)
  <2> DEFINE U1 == [UserFrames EXCEPT ![p] = @ \ old]
             U2 == [U1 EXCEPT ![p] = @ \cup got]
  <2>1. Partition(fr \cup old, U1, KStackFrames, H)
    <3>1. old \in SUBSET UserFrames[p]
      BY DEF old
    <3> QED
      BY <3>1, UserReturns
  <2>2. U1[p] = {}
    BY <1>1 DEF old
  <2> HIDE DEF U1
  <2>3. Partition(rest, U1, KStackFrames, H)
    BY <1>2, <2>1
  <2>4. Partition(rest \ got, U2, KStackFrames, H)
    BY <1>3, <2>3, UserGets
  <2>5. U2 = [U1 EXCEPT ![p] = got]
    BY <2>2
  <2>6. U2 = [UserFrames EXCEPT ![p] = got]
    BY <1>1, <2>5 DEF U1
  <2>7. U2 = UserFrames'
    BY <1>2, <1>3, <1>5, <2>6
  <2> HIDE DEF U2
  <2> QED
    BY <1>6, <2>4, <2>7
<1>8. \A q \in Proc : FramesOf(userpt'[q].pt) \subseteq Frame /\ kstack'[q] \subseteq Frame
  BY <1>2, <1>3, <1>5 DEF IInv, EntriesNameFrames
<1> QED
  BY <1>5, <1>6, <1>7, <1>8 DEF g, got

LEMMA KernelExecFits ==
  ASSUME IInv, ~outOfRange, NEW p \in Proc, status[p] = "alive",
         NEW li \in Image, KernelExec(p, li)
  PROVE  IInv'
<1>1. Fits(li)
  BY DEF KernelExec
<1>2. PICK grown \in NewHeapPages(MaxHeap) :
        LET h == GetFrames(grown, free)
            rest == (free \ Range(h)) \cup FramesOf(userpt[p].pt)
            frames == GetFrames(PagesOf(li), rest)
        IN  /\ heap' = With(heap, h)
            /\ \/ /\ Needs(li) <= Cardinality(rest)
                  /\ free' = rest \ Range(frames)
                  /\ userpt' = [userpt EXCEPT ![p] = Loaded(li, frames)]
                  /\ outOfRange' = (NoFrame \in Range(h) \cup Range(frames))
                  /\ UNCHANGED <<status, kstack>>
               \/ /\ p # InitProc
                  /\ \E dead \in SUBSET Defunct :
                       /\ free' = rest \cup KStacksOf(dead)
                       /\ status' = [Destroy(dead, status) EXCEPT ![p] = "defunct"]
                       /\ kstack' = [q \in Proc |-> IF q \in dead THEN {} ELSE kstack[q]]
                  /\ userpt' = [userpt EXCEPT ![p].pt = <<>>]
                  /\ outOfRange' = (NoFrame \in Range(h))
  BY DEF KernelExec
<1> DEFINE h == GetFrames(grown, free)
           fr == free \ Range(h)
           rest == fr \cup FramesOf(userpt[p].pt)
<1>3. /\ HeapOK'
      /\ NoFrame \notin Range(h) => Range(heap') \subseteq Frame
      /\ Partition(fr, UserFrames, KStackFrames, HeapFrames')
  BY <1>2, HeapTakes, MemoryAssumption
<1>4. fr \in SUBSET Frame
  BY <1>3 DEF Partition
<1>5. outOfRange' \in BOOLEAN /\ (NoFrame \in Range(h) => outOfRange')
  <2> DEFINE got == Range(GetFrames(PagesOf(li), rest))
  <2>1. \/ outOfRange' = (NoFrame \in Range(h) \cup got)
        \/ outOfRange' = (NoFrame \in Range(h))
    BY <1>2
  <2> HIDE DEF h, got
  <2>2. /\ (NoFrame \in Range(h)) \in BOOLEAN /\ (NoFrame \in Range(h) \cup got) \in BOOLEAN
        /\ NoFrame \in Range(h) => NoFrame \in Range(h) \cup got
    OBVIOUS
  <2>3. outOfRange' \in BOOLEAN
    BY <2>1, <2>2
  <2>4. NoFrame \in Range(h) => outOfRange'
    BY <2>1, <2>2
  <2> QED
    BY <2>3, <2>4
<1>6. CASE /\ Needs(li) <= Cardinality(rest)
           /\ free' = rest \ Range(GetFrames(PagesOf(li), rest))
           /\ userpt' = [userpt EXCEPT ![p] = Loaded(li, GetFrames(PagesOf(li), rest))]
           /\ UNCHANGED <<status, kstack>>
  <2>1. status' = status /\ kstack' = kstack
    BY <1>6
  <2>2. /\ StatusOK' /\ TablesOK' /\ KStacksOK'
        /\ \A q \in Proc : FramesOf(userpt'[q].pt) \subseteq Frame /\ kstack'[q] \subseteq Frame
        /\ Partition(rest \ Range(GetFrames(PagesOf(li), rest)), UserFrames', KStackFrames',
                     HeapFrames')
    <3> DEFINE H == HeapFrames'
    <3>1. Partition(fr, UserFrames, KStackFrames, H)
      BY <1>3
    <3>2. rest = fr \cup FramesOf(userpt[p].pt)
      OBVIOUS
    <3>3. /\ Needs(li) <= Cardinality(rest)
          /\ userpt' = [userpt EXCEPT ![p] = Loaded(li, GetFrames(PagesOf(li), rest))]
      BY <1>6
    <3> HIDE DEF fr, rest, H
    <3>4. /\ StatusOK' /\ TablesOK' /\ KStacksOK'
          /\ \A q \in Proc : FramesOf(userpt'[q].pt) \subseteq Frame /\ kstack'[q] \subseteq Frame
          /\ Partition(rest \ Range(GetFrames(PagesOf(li), rest)), UserFrames', KStackFrames', H)
      BY <1>1, <1>4, <2>1, <3>1, <3>2, <3>3, ProgramReplaces
    <3> QED
      BY <3>4 DEF H
  <2>3. Partition(free', UserFrames', KStackFrames', HeapFrames')
    <3>1. free' = rest \ Range(GetFrames(PagesOf(li), rest))
      BY <1>6
    <3> HIDE DEF rest
    <3> QED
      BY <2>2, <3>1
  <2>4. EntriesNameFrames' /\ outOfRange' \in BOOLEAN
    <3>1. outOfRange' \in BOOLEAN
      BY <1>5
    <3>2. ~outOfRange' => Range(heap') \subseteq Frame
      BY <1>3, <1>5
    <3> QED
      BY <2>2, <3>1, <3>2 DEF EntriesNameFrames
  <2> QED
    BY <1>3, <2>2, <2>3, <2>4 DEF IInv
<1>7. CASE /\ p # InitProc
           /\ \E dead \in SUBSET Defunct :
                /\ free' = rest \cup KStacksOf(dead)
                /\ status' = [Destroy(dead, status) EXCEPT ![p] = "defunct"]
                /\ kstack' = [q \in Proc |-> IF q \in dead THEN {} ELSE kstack[q]]
           /\ userpt' = [userpt EXCEPT ![p].pt = <<>>]
  <2>1. PICK dead \in SUBSET Defunct :
          /\ free' = rest \cup KStacksOf(dead)
          /\ status' = [Destroy(dead, status) EXCEPT ![p] = "defunct"]
          /\ kstack' = [q \in Proc |-> IF q \in dead THEN {} ELSE kstack[q]]
    BY <1>7
  <2>2. /\ StatusOK' /\ TablesOK' /\ KStacksOK'
        /\ \A q \in Proc : FramesOf(userpt'[q].pt) \subseteq Frame /\ kstack'[q] \subseteq Frame
        /\ Partition(fr \cup VacatedByExit(p, dead), UserFrames', KStackFrames', HeapFrames')
    <3> DEFINE H == HeapFrames'
    <3>1. Partition(fr, UserFrames, KStackFrames, H)
      BY <1>3
    <3>2. /\ status' = [Destroy(dead, status) EXCEPT ![p] = "defunct"]
          /\ kstack' = [q \in Proc |-> IF q \in dead THEN {} ELSE kstack[q]]
          /\ userpt' = [userpt EXCEPT ![p].pt = <<>>] /\ p # InitProc
      BY <1>7, <2>1
    <3> HIDE DEF fr, rest, H
    <3>3. /\ StatusOK' /\ TablesOK' /\ KStacksOK'
          /\ \A q \in Proc : FramesOf(userpt'[q].pt) \subseteq Frame /\ kstack'[q] \subseteq Frame
          /\ Partition(fr \cup VacatedByExit(p, dead), UserFrames', KStackFrames', H)
      BY <3>1, <3>2, ProcessDies
    <3> QED
      BY <3>3 DEF H
  <2>3. Partition(free', UserFrames', KStackFrames', HeapFrames')
    <3>1. free' = rest \cup KStacksOf(dead)
      BY <2>1
    <3>2. free' = fr \cup VacatedByExit(p, dead)
      BY <3>1 DEF VacatedByExit
    <3> HIDE DEF fr
    <3> QED
      BY <2>2, <3>2
  <2>4. EntriesNameFrames' /\ outOfRange' \in BOOLEAN
    <3>1. outOfRange' \in BOOLEAN
      BY <1>5
    <3>2. ~outOfRange' => Range(heap') \subseteq Frame
      BY <1>3, <1>5
    <3> QED
      BY <2>2, <3>1, <3>2 DEF EntriesNameFrames
  <2> QED
    BY <1>3, <2>2, <2>3, <2>4 DEF IInv
<1> QED
  BY <1>2, <1>6, <1>7

-----------------------------------------------------------------------------
(***************************************************************************)
(* A kernel stack whose frames have all been found has all its pages.      *)
(***************************************************************************)
LEMMA KStackSize ==
  ASSUME NEW fr \in SUBSET Frame
  PROVE  LET k == GetFrames(0..(KStack - 1), fr)
         IN  /\ Range(k) \subseteq fr \cup {NoFrame}
             /\ NoFrame \notin Range(k) => Cardinality(Range(k)) = KStack
<1> DEFINE pages == 0..(KStack - 1)
           k == GetFrames(pages, fr)
           T == Range(k)
<1>1. KStack \in Nat /\ KStack - 1 \in Int /\ 0 \in Int /\ KStack > 0
  BY MemoryAssumption
<1>2. pages \in SUBSET Int /\ IsFiniteSet(pages) /\ Cardinality(pages) = KStack
  <2>1. IsFiniteSet(pages) /\ Cardinality(pages) = IF 0 > KStack - 1 THEN 0 ELSE (KStack - 1) - 0 + 1
    BY <1>1, FS_Interval
  <2> QED
    BY <1>1, <2>1
<1> HIDE DEF pages
<1>3. /\ DOMAIN k = pages /\ k = [v \in pages |-> k[v]]
      /\ T \subseteq fr \cup {NoFrame} /\ OncePerFrame(k)
  BY <1>2, FramesHandedOut
<1> HIDE DEF k
<1>4. k \in Surjection(pages, T)
  BY <1>3 DEF Surjection, Range
<1>5. ASSUME NoFrame \notin T PROVE k \in Injection(pages, T)
  <2>1. k \in [pages -> T]
    BY <1>3 DEF Range
  <2>2. \A v \in pages : k[v] \in Frame
    BY <1>3, <1>5 DEF Range
  <2>3. \A v, w \in pages : k[v] = k[w] => v = w
    BY <1>3, <2>2 DEF OncePerFrame
  <2> QED
    BY <2>1, <2>3 DEF Injection, IsInjective
<1> HIDE DEF T
<1>6. NoFrame \notin T => Cardinality(T) = Cardinality(pages)
  BY <1>2, <1>4, <1>5, FS_Surjection
<1> QED
  BY <1>2, <1>3, <1>6 DEF T, k, pages

(***************************************************************************)
(* The user memory of a child.                                             *)
(***************************************************************************)
LEMMA CopyFits ==
  ASSUME IInv, ~outOfRange, NEW p \in Proc, status[p] = "alive", NEW fr \in SUBSET Frame
  PROVE  LET g == GetFrames(DOMAIN userpt[p].pt, fr)
             u == CopyOf(p, g)
         IN  /\ IsUserPt(u) /\ HasRedZone(u)
             /\ FramesOf(u.pt) = Range(g) /\ Range(g) \subseteq fr \cup {NoFrame}
<1> DEFINE old == userpt[p]
           pages == DOMAIN old.pt
           g == GetFrames(pages, fr)
           prot == [v \in DOMAIN g |-> old.pt[v].prot]
           pt == Entries(g, prot)
           u == CopyOf(p, g)
<1>1. /\ IsTable(old.pt) /\ old.brk \in 0..Pages /\ old.data_end \in 0..Pages
      /\ old.stack_low \in 0..Pages
      /\ DOMAIN old.pt = 0..(old.brk - 1) \cup old.stack_low..(Pages - 1)
      /\ old.data_end <= old.brk /\ old.brk < old.stack_low /\ IsRecord(old)
  BY LiveMemory DEF IInv
<1>2. new_user_pt.size = 0
  BY DEF new_user_pt
<1>3. u = Copied(old, pt, 0)
  BY <1>2 DEF CopyOf, Copied
<1> HIDE DEF old, u, g
<1>4. pages \in SUBSET (0..(Pages - 1)) /\ \A v \in pages : old.pt[v].prot \in {RW, RX}
  BY <1>1 DEF IsTable, Entry
<1> HIDE DEF pages
<1>5. DOMAIN g = pages
  BY <1>4, PagesAreFinite, FramesHandedOut DEF g
<1>6. \A v \in pages : prot[v] \in {RW, RX}
  BY <1>4, <1>5
<1> HIDE DEF prot
<1>7. /\ IsTable(pt) /\ DOMAIN pt = pages /\ FramesOf(pt) = Range(g)
      /\ Range(g) \subseteq fr \cup {NoFrame}
  BY <1>4, <1>6, NewTable DEF g
<1> HIDE DEF pt
<1>8. u = Record(pt, old.brk, old.data_end, old.stack_low, 0)
  BY <1>1, <1>3, FieldsThatMove
<1>9. IsUserPt(u)
  BY <1>1, <1>7, <1>8, RecordIsUserPt
<1>10. u.pt = pt /\ HasRedZone(u)
  <2>1. /\ u.pt = pt /\ u.brk = old.brk /\ u.data_end = old.data_end
        /\ u.stack_low = old.stack_low
    BY <1>8 DEF Record
  <2>2. DOMAIN u.pt = 0..(u.brk - 1) \cup u.stack_low..(Pages - 1)
    BY <1>1, <1>7, <2>1 DEF pages
  <2> QED
    BY <1>1, <2>1, <2>2 DEF HasRedZone
<1> QED
  BY <1>7, <1>9, <1>10 DEF u, g, pages, old

LEMMA KernelForkFits ==
  ASSUME IInv, ~outOfRange, NEW p \in Proc, status[p] = "alive", KernelFork(p)
  PROVE  IInv'
<1>1. PICK c \in Proc, grown \in NewHeapPages(1) :
        LET h == GetFrames(grown, free)
            u == GetFrames(DOMAIN userpt[p].pt, free \ Range(h))
            k == GetFrames(0..(KStack - 1), free \ (Range(h) \cup Range(u)))
            taken == Range(h) \cup Range(u) \cup Range(k)
        IN  /\ status[c] = "free"
            /\ status' = [status EXCEPT ![c] = "alive"]
            /\ free' = free \ taken
            /\ heap' = With(heap, h)
            /\ userpt' = [userpt EXCEPT ![c] = CopyOf(p, u)]
            /\ kstack' = [kstack EXCEPT ![c] = Range(k)]
            /\ outOfRange' = (NoFrame \in taken)
  BY DEF KernelFork
<1> DEFINE h == GetFrames(grown, free)
           fr1 == free \ Range(h)
           u == GetFrames(DOMAIN userpt[p].pt, fr1)
           fr2 == free \ (Range(h) \cup Range(u))
           k == GetFrames(0..(KStack - 1), fr2)
           copy == CopyOf(p, u)
           H == HeapFrames'
<1>2. /\ status[c] = "free" /\ status' = [status EXCEPT ![c] = "alive"]
      /\ free' = free \ (Range(h) \cup Range(u) \cup Range(k))
      /\ userpt' = [userpt EXCEPT ![c] = copy]
      /\ kstack' = [kstack EXCEPT ![c] = Range(k)]
      /\ outOfRange' = (NoFrame \in (Range(h) \cup Range(u) \cup Range(k)))
  BY <1>1
<1>3. /\ HeapOK'
      /\ NoFrame \notin Range(h) => Range(heap') \subseteq Frame
      /\ Partition(fr1, UserFrames, KStackFrames, H)
  BY <1>1, HeapTakes
<1>4. fr1 \in SUBSET Frame /\ fr2 \in SUBSET fr1 /\ fr2 \in SUBSET Frame /\ fr2 = fr1 \ Range(u)
  <2>1. fr1 \in SUBSET Frame
    BY <1>3 DEF Partition
  <2> QED
    BY <2>1
<1>5. /\ IsUserPt(copy) /\ HasRedZone(copy)
      /\ FramesOf(copy.pt) = Range(u) /\ Range(u) \subseteq fr1 \cup {NoFrame}
  BY <1>4, CopyFits
<1>6. /\ Range(k) \subseteq fr2 \cup {NoFrame}
      /\ NoFrame \notin Range(k) => Cardinality(Range(k)) = KStack
  BY <1>4, KStackSize
<1> HIDE DEF h, fr1, u, fr2, k, copy, H
<1>7. /\ StatusOK /\ InitProc \in Proc /\ c # InitProc /\ c # p
      /\ DOMAIN userpt[c].pt = {} /\ kstack[c] = {}
  BY <1>2, MemoryAssumption DEF IInv, StatusOK, TablesOK, KStacksOK
<1>8. /\ status'[c] = "alive" /\ \A q \in Proc \ {c} : status'[q] = status[q]
      /\ StatusOK'
  BY <1>2, <1>7 DEF StatusOK
<1>9. /\ TablesOK'
      /\ UserFrames' = [UserFrames EXCEPT ![c] = FramesOf(copy.pt) \cap Frame]
      /\ userpt'[c] = copy /\ \A q \in Proc \ {c} : userpt'[q] = userpt[q]
  <2>1. TablesOK
    BY DEF IInv
  <2>2. userpt' = [userpt EXCEPT ![c] = copy]
    BY <1>2
  <2>3. \A q \in Proc \ {c} : status'[q] = "alive" <=> status[q] = "alive"
    BY <1>8
  <2>4. IF status'[c] = "alive" THEN HasRedZone(copy) ELSE DOMAIN copy.pt = {}
    BY <1>5, <1>8
  <2> QED
    BY <1>5, <2>1, <2>2, <2>3, <2>4, OneTableChanges
<1>10. kstack = [q \in Proc |-> kstack[q]]
  BY DEF IInv, KStacksOK
<1>11. /\ kstack'[c] = Range(k) /\ \A q \in Proc \ {c} : kstack'[q] = kstack[q]
       /\ kstack' = [q \in Proc |-> kstack'[q]]
  BY <1>2, <1>10
<1>12. KStacksOK'
  <2>1. ASSUME NEW q \in Proc
        PROVE  /\ kstack'[q] \subseteq Frame \cup {NoFrame}
               /\ status'[q] = "free" => kstack'[q] = {}
    BY <1>4, <1>6, <1>8, <1>11 DEF IInv, KStacksOK
  <2>2. ASSUME ~outOfRange', NEW q \in Proc \ {InitProc}
        PROVE  Cardinality(kstack'[q]) = IF status'[q] = "free" THEN 0 ELSE KStack
    <3>1. CASE q = c
      BY <1>2, <1>6, <1>8, <1>11, <2>2, <3>1
    <3>2. CASE q # c
      BY <1>8, <1>11, <3>2 DEF IInv, KStacksOK, KernelStackIsWhole
    <3> QED
      BY <3>1, <3>2
  <2>3. outOfRange' \/ KernelStackIsWhole'
    BY <2>2 DEF KernelStackIsWhole
  <2> QED
    BY <1>11, <2>1, <2>3 DEF KStacksOK
<1>13. KStackFrames' = [KStackFrames EXCEPT ![c] = Range(k) \cap Frame]
  BY <1>11 DEF KStackFrames
<1>14. Partition(free', UserFrames', KStackFrames', HeapFrames')
  <2> DEFINE X == Range(u) \cap Frame
             Y == Range(k) \cap Frame
             U1 == [UserFrames EXCEPT ![c] = @ \cup X]
             K1 == [KStackFrames EXCEPT ![c] = @ \cup Y]
  <2>1. NoFrame \notin Frame
    BY MemoryAssumption
  <2>2. /\ X \in SUBSET fr1 /\ fr1 \ X = fr2
        /\ Y \in SUBSET fr2 /\ fr2 \ Y = free'
    <3>1. X \in SUBSET fr1 /\ Y \in SUBSET fr2
      BY <1>5, <1>6, <2>1
    <3>2. fr1 \ X = fr2
      BY <1>4
    <3>3. free' = fr2 \ Range(k)
      BY <1>2 DEF fr2
    <3>4. fr2 \ Y = fr2 \ Range(k)
      BY <1>4
    <3> QED
      BY <3>1, <3>2, <3>3, <3>4
  <2>3. UserFrames[c] = {} /\ KStackFrames[c] = {}
    BY <1>7, EmptyTable DEF UserFrames, KStackFrames
  <2> HIDE DEF X, Y
  <2>4. Partition(fr1 \ X, U1, KStackFrames, H)
    BY <1>3, <2>2, UserGets
  <2>5. U1 = [UserFrames EXCEPT ![c] = X]
    BY <2>3
  <2>6. U1 = UserFrames'
    BY <1>5, <1>9, <2>5 DEF X
  <2>7. K1 = [KStackFrames EXCEPT ![c] = Y]
    BY <2>3
  <2>8. K1 = KStackFrames'
    BY <1>13, <2>7 DEF Y
  <2> HIDE DEF U1
  <2>9. Partition(fr2, U1, KStackFrames, H)
    BY <2>2, <2>4
  <2>10. Partition(fr2 \ Y, U1, K1, H)
    BY <2>2, <2>9, KStackGets
  <2> HIDE DEF K1
  <2> QED
    BY <2>2, <2>6, <2>8, <2>10 DEF H
<1>15. EntriesNameFrames' /\ outOfRange' \in BOOLEAN
  <2>1. outOfRange' \in BOOLEAN
    BY <1>2
  <2>2. ASSUME ~outOfRange'
        PROVE  Range(heap') \subseteq Frame /\ Range(u) \subseteq Frame /\ Range(k) \subseteq Frame
    BY <1>2, <1>3, <1>4, <1>5, <1>6, <2>2
  <2>3. ASSUME ~outOfRange', NEW q \in Proc
        PROVE  FramesOf(userpt'[q].pt) \subseteq Frame /\ kstack'[q] \subseteq Frame
    <3>1. CASE q = c
      BY <1>5, <1>9, <1>11, <2>2, <2>3, <3>1
    <3>2. CASE q # c
      BY <1>9, <1>11, <3>2 DEF IInv, EntriesNameFrames
    <3> QED
      BY <3>1, <3>2
  <2> QED
    BY <2>1, <2>2, <2>3 DEF EntriesNameFrames
<1> QED
  BY <1>3, <1>8, <1>9, <1>12, <1>14, <1>15 DEF IInv

-----------------------------------------------------------------------------
LEMMA InitFits == Init => IInv
<1> SUFFICES ASSUME Init PROVE IInv
    OBVIOUS
<1> DEFINE g == GetFrames(PagesOf(Boot), Frame)
           u == Loaded(Boot, g)
           got == Range(g)
           fresh == new_user_pt
<1>1. /\ status = [p \in Proc |-> IF p = InitProc THEN "alive" ELSE "free"]
      /\ free = Frame \ got
      /\ userpt = [p \in Proc |-> IF p = InitProc THEN u ELSE fresh]
      /\ kstack = [p \in Proc |-> {}] /\ heap = <<>> /\ outOfRange = FALSE
  BY DEF Init
<1>2. InitProc \in Proc /\ NoFrame \notin Frame /\ MaxHeap \in Nat /\ Pages \in Nat
  BY MemoryAssumption
<1>3. IsUserPt(u) /\ HasRedZone(u) /\ FramesOf(u.pt) = got /\ got \subseteq Frame
  <2>1. Boot \in Image /\ Fits(Boot) /\ Needs(Boot) <= Cardinality(Frame)
    <3>1. /\ Boot.text + Boot.data + Boot.stack < Pages
          /\ Boot.text + Boot.data + Boot.stack <= Cardinality(Frame)
          /\ Boot \in Image /\ Pages \in Nat
          /\ Boot.text \in 1..Pages /\ Boot.data \in 1..Pages /\ Boot.stack \in 1..Pages
      BY MemoryAssumption
    <3> QED
      BY <3>1 DEF Fits, Needs
  <2>2. Frame \in SUBSET Frame
    OBVIOUS
  <2> QED
    BY <2>1, <2>2, ProgramFits
<1>4. DOMAIN <<>> = {} /\ FramesOf(<<>>) = {} /\ OncePerTable(<<>>)
  BY EmptyTable
<1>5. IsUserPt(fresh) /\ DOMAIN fresh.pt = {} /\ FramesOf(fresh.pt) = {}
  <2> DEFINE none == <<>>
  <2>1. fresh = Record(none, 0, 0, 0, 0)
    BY DEF new_user_pt, Record
  <2>2. DOMAIN none = {} /\ FramesOf(none) = {} /\ OncePerTable(none)
    BY <1>4
  <2> HIDE DEF fresh, none
  <2>3. IsTable(none)
    BY <2>2 DEF IsTable
  <2>4. 0 \in 0..Pages /\ 0 \in Int
    BY <1>2
  <2>5. IsUserPt(fresh)
    BY <2>1, <2>3, <2>4, RecordIsUserPt
  <2> QED
    BY <2>1, <2>2, <2>5 DEF Record
<1> HIDE DEF g, u, got, fresh
<1>6. StatusOK
  BY <1>1, <1>2 DEF StatusOK
<1>7. TablesOK
  BY <1>1, <1>3, <1>5 DEF TablesOK
<1>8. KStacksOK
  <2>1. Cardinality({}) = 0
    BY FS_EmptySet
  <2>2. KernelStackIsWhole
    BY <1>1, <2>1 DEF KernelStackIsWhole
  <2> QED
    BY <1>1, <2>2 DEF KStacksOK
<1>9. HeapOK /\ Range(heap) = {}
  <2>1. DOMAIN heap = {}
    BY <1>1, <1>4
  <2>2. 0 \in 0..MaxHeap /\ DOMAIN heap = 0..(0 - 1)
    BY <1>2, <2>1
  <2>3. \E n \in 0..MaxHeap : DOMAIN heap = 0..(n - 1)
    BY <2>2
  <2> QED
    BY <2>1, <2>3 DEF HeapOK, OncePerFrame, Range
<1>10. EntriesNameFrames /\ outOfRange \in BOOLEAN
  BY <1>1, <1>3, <1>5, <1>9 DEF EntriesNameFrames
<1>11. Partition(free, UserFrames, KStackFrames, HeapFrames)
  <2>1. UserFrames = [p \in Proc |-> IF p = InitProc THEN got ELSE {}]
    BY <1>1, <1>3, <1>5 DEF UserFrames
  <2>2. KStackFrames = [p \in Proc |-> {}] /\ HeapFrames = {}
    BY <1>1, <1>9 DEF KStackFrames, HeapFrames
  <2> QED
    BY <1>1, <1>2, <1>3, <2>1, <2>2 DEF Partition
<1> QED
  BY <1>6, <1>7, <1>8, <1>9, <1>10, <1>11 DEF IInv

LEMMA StepFits == IInv /\ [Next]_vars => IInv'
<1> SUFFICES ASSUME IInv, [Next]_vars PROVE IInv'
    OBVIOUS
<1>1. CASE UNCHANGED vars
  <2>1. StatusOK' /\ TablesOK' /\ KStacksOK' /\ HeapOK' /\ EntriesNameFrames'
    BY <1>1 DEF vars, IInv, StatusOK, TablesOK, KStacksOK, KernelStackIsWhole, HeapOK,
                EntriesNameFrames
  <2>2. /\ free' = free /\ outOfRange' = outOfRange /\ UserFrames' = UserFrames
        /\ KStackFrames' = KStackFrames /\ HeapFrames' = HeapFrames
    BY <1>1 DEF vars, UserFrames, KStackFrames, HeapFrames
  <2>3. Partition(free', UserFrames', KStackFrames', HeapFrames')
    BY <2>2 DEF IInv
  <2> QED
    BY <2>1, <2>2, <2>3 DEF IInv
<1>2. CASE Next
  <2>1. ~outOfRange
    BY <1>2 DEF Next
  <2>2. CASE CreateObject
    BY <2>1, <2>2, CreateObjectFits
  <2>3. CASE KernelReclaim
    BY <2>1, <2>3, KernelReclaimFits
  <2>4. CASE KernelWait
    BY <2>1, <2>4, KernelWaitFits
  <2>5. ASSUME NEW p \in Proc, status[p] = "alive", KernelFork(p) PROVE IInv'
    BY <2>1, <2>5, KernelForkFits
  <2>6. ASSUME NEW p \in Proc, status[p] = "alive", KernelExit(p) PROVE IInv'
    BY <2>1, <2>6, KernelExitFits
  <2>7. ASSUME NEW p \in Proc, status[p] = "alive", NEW addr \in Addresses,
               KernelUserBrk(p, addr) \/ TrapMemory(p, addr)
        PROVE  IInv'
    BY <2>1, <2>7, UserBrkFits, TrapMemoryFits
  <2>8. ASSUME NEW p \in Proc, status[p] = "alive", NEW li \in Image, KernelExec(p, li)
        PROVE  IInv'
    BY <2>1, <2>8, KernelExecFits
  <2> QED
    BY <1>2, <2>2, <2>3, <2>4, <2>5, <2>6, <2>7, <2>8 DEF Next
<1> QED
  BY <1>1, <1>2

(***************************************************************************)
(* Free frames, user memory, kernel stacks and kernel heap partition the   *)
(* frames in every reachable state, whatever the handlers do.              *)
(***************************************************************************)
THEOREM InductiveInvariant == Spec => []IInv
BY InitFits, StepFits, PTL DEF Spec

(***************************************************************************)
(* A page that is not mapped separates the heap and the stack of every     *)
(* live process.                                                           *)
(***************************************************************************)
THEOREM RedZoneAlways == Spec => []RedZone
<1>1. IInv => RedZone
  BY DEF IInv, TablesOK, HasRedZone, RedZone
<1> QED
  BY <1>1, InductiveInvariant, PTL

-----------------------------------------------------------------------------
(***************************************************************************)
(* The owners of a frame, one kind at a time.                              *)
(***************************************************************************)
LEMMA OwnersAre ==
  ASSUME NEW f, NEW x
  PROVE  x \in Owners(f) <=>
           \/ \E p \in Proc : \E v \in DOMAIN userpt[p].pt :
                userpt[p].pt[v].pfn = f /\ x = <<p, v>>
           \/ \E p \in Proc : f \in kstack[p] /\ x = <<p, "kstack">>
           \/ \E n \in DOMAIN heap : heap[n] = f /\ x = <<n, "heap">>
<1> DEFINE A == UNION {{<<p, v>> : v \in {w \in DOMAIN userpt[p].pt : userpt[p].pt[w].pfn = f}} :
                         p \in Proc}
           B == {<<p, "kstack">> : p \in {q \in Proc : f \in kstack[q]}}
           C == {<<n, "heap">> : n \in {m \in DOMAIN heap : heap[m] = f}}
<1>1. x \in A <=> \E p \in Proc : \E v \in DOMAIN userpt[p].pt :
                    userpt[p].pt[v].pfn = f /\ x = <<p, v>>
  OBVIOUS
<1>2. x \in B <=> \E p \in Proc : f \in kstack[p] /\ x = <<p, "kstack">>
  OBVIOUS
<1>3. x \in C <=> \E n \in DOMAIN heap : heap[n] = f /\ x = <<n, "heap">>
  OBVIOUS
<1>4. Owners(f) = A \cup B \cup C
  BY DEF Owners
<1> HIDE DEF A, B, C
<1> QED
  BY <1>1, <1>2, <1>3, <1>4

(***************************************************************************)
(* Who owns a frame, from the partition.                                   *)
(***************************************************************************)
LEMMA PartOfFrame ==
  ASSUME IInv, NEW f \in Frame
  PROVE  /\ f \in free => Owners(f) = {}
         /\ f \notin free => \E t : Owners(f) = {t}
<1>1. /\ \A p \in Proc : UserFrames[p] = FramesOf(userpt[p].pt) \cap Frame
      /\ \A p \in Proc : KStackFrames[p] = kstack[p] \cap Frame
      /\ HeapFrames = Range(heap) \cap Frame
  BY DEF UserFrames, KStackFrames, HeapFrames
<1>2. \A p \in Proc : \A v \in DOMAIN userpt[p].pt :
        userpt[p].pt[v].pfn = f => f \in UserFrames[p]
  BY <1>1 DEF FramesOf
<1>3. \A p \in Proc : f \in kstack[p] => f \in KStackFrames[p]
  BY <1>1
<1>4. \A n \in DOMAIN heap : heap[n] = f => f \in HeapFrames
  BY <1>1 DEF Range
<1>5. Partition(free, UserFrames, KStackFrames, HeapFrames)
  BY DEF IInv
<1>6. ASSUME f \in free, NEW x PROVE x \notin Owners(f)
  <2>1. f \notin HeapFrames /\ \A p \in Proc : f \notin UserFrames[p] /\ f \notin KStackFrames[p]
    BY <1>5, <1>6 DEF Partition
  <2> QED
    BY <1>2, <1>3, <1>4, <2>1, OwnersAre
<1>7. ASSUME f \in HeapFrames PROVE \E t : Owners(f) = {t}
  <2>1. \A p \in Proc : f \notin UserFrames[p] /\ f \notin KStackFrames[p]
    BY <1>5, <1>7 DEF Partition
  <2>2. PICK n \in DOMAIN heap : heap[n] = f
    BY <1>1, <1>7 DEF Range
  <2>3. \A m \in DOMAIN heap : heap[m] = f => m = n
    BY <2>2 DEF IInv, HeapOK, OncePerFrame
  <2>4. ASSUME NEW x PROVE x \in Owners(f) <=> x = <<n, "heap">>
    BY <1>2, <1>3, <2>1, <2>2, <2>3, OwnersAre
  <2>5. Owners(f) = {<<n, "heap">>}
    BY <2>4
  <2> QED
    BY <2>5
<1>8. ASSUME NEW p \in Proc, f \in UserFrames[p] PROVE \E t : Owners(f) = {t}
  <2>1. /\ f \notin HeapFrames /\ \A q \in Proc : f \notin KStackFrames[q]
        /\ \A q \in Proc \ {p} : f \notin UserFrames[q]
    BY <1>5, <1>8 DEF Partition
  <2>2. PICK v \in DOMAIN userpt[p].pt : userpt[p].pt[v].pfn = f
    BY <1>1, <1>8 DEF FramesOf
  <2>3. \A w \in DOMAIN userpt[p].pt : userpt[p].pt[w].pfn = f => w = v
    BY <2>2 DEF IInv, TablesOK, IsUserPt, OncePerTable
  <2>4. ASSUME NEW x PROVE x \in Owners(f) <=> x = <<p, v>>
    BY <1>2, <1>3, <1>4, <2>1, <2>2, <2>3, OwnersAre
  <2>5. Owners(f) = {<<p, v>>}
    BY <2>4
  <2> QED
    BY <2>5
<1>9. ASSUME NEW p \in Proc, f \in KStackFrames[p] PROVE \E t : Owners(f) = {t}
  <2>1. /\ f \notin HeapFrames /\ \A q \in Proc : f \notin UserFrames[q]
        /\ \A q \in Proc \ {p} : f \notin KStackFrames[q]
    BY <1>5, <1>9 DEF Partition
  <2>2. f \in kstack[p]
    BY <1>1, <1>9
  <2>3. ASSUME NEW x PROVE x \in Owners(f) <=> x = <<p, "kstack">>
    BY <1>2, <1>3, <1>4, <2>1, <2>2, OwnersAre
  <2>4. Owners(f) = {<<p, "kstack">>}
    BY <2>3
  <2> QED
    BY <2>4
<1>10. f \in free \/ f \in HeapFrames \/ \E p \in Proc : f \in UserFrames[p] \/ f \in KStackFrames[p]
  BY <1>5 DEF Partition
<1>11. f \in free => Owners(f) = {}
  BY <1>6
<1>12. f \notin free => \E t : Owners(f) = {t}
  BY <1>7, <1>8, <1>9, <1>10
<1> QED
  BY <1>11, <1>12

(***************************************************************************)
(* Every frame is free or has one owner: one page of one table, one kernel *)
(* stack or one page of the kernel heap; a process keeps its whole kernel  *)
(* stack until it is destroyed.                                            *)
(***************************************************************************)
THEOREM EveryFrameAlwaysHasOneOwner == Spec => []EveryFrameHasOneOwner
<1>1. IInv => EveryFrameHasOneOwner
  <2> SUFFICES ASSUME IInv PROVE EveryFrameHasOneOwner
    OBVIOUS
  <2>1. TypeOK
    <3>1. status \in [Proc -> {"free", "alive", "defunct"}] /\ free \subseteq Frame
      BY DEF IInv, StatusOK, Partition
    <3>2. \A p \in Proc : UserPtOK(userpt[p]) /\ kstack[p] \subseteq Frame \cup {NoFrame}
      BY DEF IInv, TablesOK, IsUserPt, KStacksOK
    <3>3. DOMAIN heap \subseteq 0..(MaxHeap - 1)
      <4>1. PICK n \in 0..MaxHeap : DOMAIN heap = 0..(n - 1)
        BY DEF IInv, HeapOK
      <4> QED
        BY <4>1, MemoryAssumption
    <3>4. Range(heap) \subseteq Frame \cup {NoFrame} /\ outOfRange \in BOOLEAN
      BY DEF IInv, HeapOK
    <3> QED
      BY <3>1, <3>2, <3>3, <3>4 DEF TypeOK
  <2>2. ASSUME NEW f \in Frame
        PROVE  Cardinality(Owners(f)) = IF f \in free THEN 0 ELSE 1
    <3>1. CASE f \in free
      BY <3>1, PartOfFrame, FS_EmptySet
    <3>2. CASE f \notin free
      <4>1. PICK t : Owners(f) = {t}
        BY <3>2, PartOfFrame
      <4>2. Cardinality({t}) = 1
        BY FS_Singleton
      <4> QED
        BY <3>2, <4>1, <4>2
    <3> QED
      BY <3>1, <3>2
  <2>3. outOfRange \/ KernelStackIsWhole
    BY DEF IInv, KStacksOK
  <2> QED
    BY <2>1, <2>2, <2>3 DEF EveryFrameHasOneOwner
<1> QED
  BY <1>1, InductiveInvariant, PTL

-----------------------------------------------------------------------------
(***************************************************************************)
(* get_frame for at most as many pages as frames are free.                 *)
(***************************************************************************)
LEMMA AllServed ==
  ASSUME NEW pages \in SUBSET Int, IsFiniteSet(pages), NEW fr \in SUBSET Frame,
         Cardinality(pages) <= Cardinality(fr)
  PROVE  LET got == Range(GetFrames(pages, fr))
         IN  /\ NoFrame \notin got /\ got \subseteq fr
             /\ Cardinality(fr) - Cardinality(pages) <= Cardinality(fr \ got)
<1> DEFINE g == GetFrames(pages, fr)
           got == Range(g)
<1>1. IsFiniteSet(fr) /\ NoFrame \notin Frame
  BY MemoryAssumption, FS_Subset
<1>2. DOMAIN g = pages /\ g = [v \in pages |-> g[v]] /\ got \subseteq fr
  BY FramesHandedOut
<1> HIDE DEF g
<1>3. g \in Surjection(pages, got)
  BY <1>2 DEF Surjection, Range
<1> HIDE DEF got
<1>4. IsFiniteSet(got) /\ Cardinality(got) <= Cardinality(pages)
  BY <1>3, FS_Surjection
<1>5. /\ IsFiniteSet(fr \ got)
      /\ Cardinality(fr \ got) = Cardinality(fr) - Cardinality(fr \cap got)
  BY <1>1, FS_Difference
<1>6. fr \cap got = got
  BY <1>2
<1>7. /\ Cardinality(fr) \in Nat /\ Cardinality(got) \in Nat /\ Cardinality(pages) \in Nat
      /\ Cardinality(fr \ got) \in Nat
  BY <1>1, <1>4, <1>5, FS_CardinalityType
<1>8. Cardinality(fr) - Cardinality(pages) <= Cardinality(fr \ got)
  BY <1>4, <1>5, <1>6, <1>7
<1> QED
  BY <1>1, <1>2, <1>8 DEF got, g

(***************************************************************************)
(* A range of pages has as many pages as the comparison with frames_left   *)
(* takes it to have.                                                       *)
(***************************************************************************)
LEMMA IntervalSize ==
  ASSUME NEW a \in Int, NEW b \in Int, NEW n \in Nat, b - a <= n
  PROVE  /\ a..(b - 1) \in SUBSET Int /\ IsFiniteSet(a..(b - 1))
         /\ Cardinality(a..(b - 1)) <= n
<1>1. b - 1 \in Int
  OBVIOUS
<1>2. /\ IsFiniteSet(a..(b - 1))
      /\ Cardinality(a..(b - 1)) = IF a > b - 1 THEN 0 ELSE (b - 1) - a + 1
  BY <1>1, FS_Interval
<1> QED
  BY <1>2

(***************************************************************************)
(* The check of the break, and that of the stack, asks for enough.         *)
(***************************************************************************)
LEMMA UserBrkServed ==
  ASSUME IInv, ~outOfRange, NEW p \in Proc, status[p] = "alive",
         NEW addr \in Addresses, KernelUserBrk(p, addr)
  PROVE  ~outOfRange'
<1> DEFINE next == UpToPage(addr)
           brk == userpt[p].brk
           grown == brk..(next - 1)
<1>1. brk \in Int
  BY LiveMemory DEF IInv
<1>2. next \in Int
  <2>1. addr + PageSize - 1 \in Int /\ PageSize \in Nat \ {0}
    BY MemoryAssumption DEF Addresses
  <2> QED
    BY <2>1, Quotient DEF UpToPage
<1>3. free \in SUBSET Frame /\ Cardinality(free) \in Nat
  <2>1. free \in SUBSET Frame
    BY PartsOf
  <2> QED
    BY <2>1, MemoryAssumption, FS_Subset, FS_CardinalityType
<1>4. next - brk <= Cardinality(free) /\ outOfRange' = (NoFrame \in Range(GetFrames(grown, free)))
  BY DEF KernelUserBrk, frames_left
<1> HIDE DEF next, brk
<1>5. grown \in SUBSET Int /\ IsFiniteSet(grown) /\ Cardinality(grown) <= Cardinality(free)
  BY <1>1, <1>2, <1>3, <1>4, IntervalSize
<1> HIDE DEF grown
<1>6. NoFrame \notin Range(GetFrames(grown, free))
  BY <1>3, <1>5, AllServed
<1> QED
  BY <1>4, <1>6

(***************************************************************************)
(* The comparison in TrapMemory suffices for growing the stack.            *)
(***************************************************************************)
LEMMA GrowStackServed ==
  ASSUME IInv, ~outOfRange, NEW p \in Proc, status[p] = "alive", NEW addr \in Addresses,
         userpt[p].stack_low - DownToPage(addr) <= frames_left, GrowStack(p, addr)
  PROVE  ~outOfRange'
<1> DEFINE next == DownToPage(addr)
           low == userpt[p].stack_low
           grown == next..(low - 1)
<1>1. low \in Int
  BY LiveMemory DEF IInv
<1>2. next \in Int
  <2>1. addr \in Int /\ PageSize \in Nat \ {0}
    BY MemoryAssumption DEF Addresses
  <2> QED
    BY <2>1, Quotient DEF DownToPage
<1>3. free \in SUBSET Frame /\ Cardinality(free) \in Nat
  <2>1. free \in SUBSET Frame
    BY PartsOf
  <2> QED
    BY <2>1, MemoryAssumption, FS_Subset, FS_CardinalityType
<1>4. low - next <= Cardinality(free) /\ outOfRange' = (NoFrame \in Range(GetFrames(grown, free)))
  BY DEF GrowStack, frames_left
<1> HIDE DEF next, low
<1>5. grown \in SUBSET Int /\ IsFiniteSet(grown) /\ Cardinality(grown) <= Cardinality(free)
  BY <1>1, <1>2, <1>3, <1>4, IntervalSize
<1> HIDE DEF grown
<1>6. NoFrame \notin Range(GetFrames(grown, free))
  BY <1>3, <1>5, AllServed
<1> QED
  BY <1>4, <1>6

(***************************************************************************)
(* malloc is given its pages if there are as many free frames.             *)
(***************************************************************************)
LEMMA HeapServed ==
  ASSUME IInv, ~outOfRange, NEW most \in Nat, NEW grown \in NewHeapPages(most),
         Cardinality(grown) <= Cardinality(free)
  PROVE  LET got == Range(GetFrames(grown, free))
         IN  /\ NoFrame \notin got /\ got \subseteq free /\ free \ got \in SUBSET Frame
             /\ Cardinality(free) - most <= Cardinality(free \ got)
<1>1. free \in SUBSET Frame /\ IsFiniteSet(free) /\ Cardinality(free) \in Nat
  <2>1. free \in SUBSET Frame
    BY PartsOf
  <2> QED
    BY <2>1, MemoryAssumption, FS_Subset, FS_CardinalityType
<1>2. grown \in SUBSET Int /\ IsFiniteSet(grown) /\ Cardinality(grown) \in 0..most
  BY NewPagesAreNew DEF IInv
<1> DEFINE got == Range(GetFrames(grown, free))
<1>3. /\ NoFrame \notin got /\ got \subseteq free
      /\ Cardinality(free) - Cardinality(grown) <= Cardinality(free \ got)
  BY <1>1, <1>2, AllServed
<1> HIDE DEF got
<1>4. Cardinality(free \ got) \in Nat
  BY <1>1, FS_Subset, FS_CardinalityType
<1>5. Cardinality(free) - most <= Cardinality(free \ got)
  BY <1>1, <1>2, <1>3, <1>4
<1> QED
  BY <1>1, <1>3, <1>5 DEF got

(***************************************************************************)
(* One page is no more than what is free if anything is.                   *)
(***************************************************************************)
LEMMA OnePage ==
  ASSUME IInv, NEW grown \in NewHeapPages(1), free # {}
  PROVE  Cardinality(grown) <= Cardinality(free)
<1>1. IsFiniteSet(free) /\ Cardinality(free) \in Nat
  <2>1. free \in SUBSET Frame
    BY DEF IInv, Partition
  <2> QED
    BY <2>1, MemoryAssumption, FS_Subset, FS_CardinalityType
<1>2. Cardinality(free) # 0
  BY <1>1, FS_EmptySet
<1>3. 1 \in Nat
  OBVIOUS
<1>4. Cardinality(grown) \in 0..1
  BY <1>3, NewPagesAreNew DEF IInv
<1> QED
  BY <1>1, <1>2, <1>4

(***************************************************************************)
(* Fork has its frames if size counts the pages: one for malloc, one for   *)
(* every page and two for the kernel stack.                                *)
(***************************************************************************)
LEMMA ForkServed ==
  ASSUME IInv, ~outOfRange, NEW p \in Proc, status[p] = "alive", KStack <= 2,
         KernelFork(p), userpt[p].size >= Cardinality(DOMAIN userpt[p].pt)
  PROVE  ~outOfRange'
<1> DEFINE pages == DOMAIN userpt[p].pt
           n == Cardinality(pages)
           size == userpt[p].size
           left == Cardinality(free)
<1>1. pages \in SUBSET Int /\ IsFiniteSet(pages) /\ size \in Int /\ n \in Nat
  <2>1. IsTable(userpt[p].pt) /\ size \in Int
    BY LiveMemory DEF IInv
  <2>2. pages \in SUBSET (0..(Pages - 1))
    BY <2>1 DEF IsTable
  <2>3. pages \in SUBSET Int /\ IsFiniteSet(pages)
    BY <2>2, PagesAreFinite
  <2> QED
    BY <2>1, <2>3, FS_CardinalityType
<1>2. free \in SUBSET Frame /\ IsFiniteSet(free) /\ left \in Nat
  <2>1. free \in SUBSET Frame
    BY PartsOf
  <2> QED
    BY <2>1, MemoryAssumption, FS_Subset, FS_CardinalityType
<1>3. n <= size /\ ~(left < size + 3)
  BY <1>1 DEF KernelFork, no_kernel_memory, ForkNeeds, frames_left
<1>4. left >= n + 3
  BY <1>1, <1>2, <1>3
<1>5. free # {}
  BY <1>1, <1>4, FS_EmptySet
<1>6. PICK grown \in NewHeapPages(1) :
        LET h == GetFrames(grown, free)
            u == GetFrames(DOMAIN userpt[p].pt, free \ Range(h))
            k == GetFrames(0..(KStack - 1), free \ (Range(h) \cup Range(u)))
        IN  outOfRange' = (NoFrame \in Range(h) \cup Range(u) \cup Range(k))
  BY DEF KernelFork
<1> DEFINE h == GetFrames(grown, free)
           fr1 == free \ Range(h)
           u == GetFrames(pages, fr1)
           fr2 == fr1 \ Range(u)
           k == GetFrames(0..(KStack - 1), fr2)
<1>7. outOfRange' = (NoFrame \in Range(h) \cup Range(u) \cup Range(k))
  <2>1. free \ (Range(h) \cup Range(u)) = fr2
    OBVIOUS
  <2> QED
    BY <1>6, <2>1
<1>8. NoFrame \notin Range(h) /\ fr1 \in SUBSET Frame /\ left - 1 <= Cardinality(fr1)
  <2>1. Cardinality(grown) <= Cardinality(free) /\ 1 \in Nat
    BY <1>5, OnePage
  <2> QED
    BY <2>1, HeapServed
<1> HIDE DEF pages, n, size, left, h, fr1
<1>9. Cardinality(fr1) \in Nat
  BY <1>8, MemoryAssumption, FS_Subset, FS_CardinalityType
<1>10. n <= Cardinality(fr1) /\ n + 2 <= Cardinality(fr1)
  BY <1>1, <1>2, <1>4, <1>8, <1>9
<1>11. /\ NoFrame \notin Range(u) /\ Range(u) \subseteq fr1
       /\ Cardinality(fr1) - n <= Cardinality(fr2)
  BY <1>1, <1>8, <1>10, AllServed DEF n
<1> HIDE DEF u, fr2
<1>12. fr2 \in SUBSET Frame /\ Cardinality(fr2) \in Nat
  <2>1. fr2 \in SUBSET Frame
    BY <1>8 DEF fr2
  <2> QED
    BY <2>1, MemoryAssumption, FS_Subset, FS_CardinalityType
<1>13. KStack <= Cardinality(fr2) /\ KStack \in Nat
  BY <1>1, <1>9, <1>10, <1>11, <1>12, MemoryAssumption
<1>14. NoFrame \notin Range(k)
  <2>1. KStack - 0 <= Cardinality(fr2) /\ KStack \in Int /\ 0 \in Int
    BY <1>12, <1>13
  <2>2. /\ 0..(KStack - 1) \in SUBSET Int /\ IsFiniteSet(0..(KStack - 1))
        /\ Cardinality(0..(KStack - 1)) <= Cardinality(fr2)
    BY <1>12, <2>1, IntervalSize
  <2> QED
    BY <1>12, <2>2, AllServed
<1> QED
  BY <1>7, <1>8, <1>11, <1>14

(***************************************************************************)
(* Exec: the new memory has its frames after the comparison, so that only  *)
(* the arguments can be short, when they need more pages than are free.    *)
(***************************************************************************)
LEMMA ExecServed ==
  ASSUME IInv, ~outOfRange, NEW p \in Proc, status[p] = "alive",
         NEW li \in Image, KernelExec(p, li), outOfRange'
  PROVE  frames_left < Cardinality(DOMAIN heap' \ DOMAIN heap)
<1>1. Fits(li)
  BY DEF KernelExec
<1>2. PICK grown \in NewHeapPages(MaxHeap) :
        LET h == GetFrames(grown, free)
            rest == (free \ Range(h)) \cup FramesOf(userpt[p].pt)
            frames == GetFrames(PagesOf(li), rest)
        IN  /\ heap' = With(heap, h)
            /\ \/ /\ Needs(li) <= Cardinality(rest)
                  /\ outOfRange' = (NoFrame \in Range(h) \cup Range(frames))
               \/ outOfRange' = (NoFrame \in Range(h))
  BY DEF KernelExec
<1> DEFINE h == GetFrames(grown, free)
           rest == (free \ Range(h)) \cup FramesOf(userpt[p].pt)
           frames == GetFrames(PagesOf(li), rest)
<1>3. /\ heap' = With(heap, h)
      /\ NoFrame \in Range(h) \/ (Needs(li) <= Cardinality(rest) /\ NoFrame \in Range(frames))
  BY <1>2
<1>4. MaxHeap \in Nat
  BY MemoryAssumption
<1>5. /\ grown \in SUBSET Int /\ IsFiniteSet(grown) /\ grown \cap DOMAIN heap = {}
  BY <1>4, NewPagesAreNew DEF IInv
<1>6. free \in SUBSET Frame /\ FramesOf(userpt[p].pt) \in SUBSET Frame
  BY PartsOf DEF IInv, EntriesNameFrames
<1>7. Cardinality(grown) \in Nat /\ Cardinality(free) \in Nat
  BY <1>5, <1>6, MemoryAssumption, FS_Subset, FS_CardinalityType
<1>8. rest \in SUBSET Frame
  BY <1>6
<1>9. Needs(li) <= Cardinality(rest) => NoFrame \notin Range(frames)
  <2>1. NoFrame \notin Frame
    BY MemoryAssumption
  <2> HIDE DEF rest
  <2> QED
    BY <1>1, <1>8, <2>1, ProgramFits
<1>10. NoFrame \in Range(h)
  BY <1>3, <1>9
<1>11. ~(Cardinality(grown) <= Cardinality(free))
  BY <1>4, <1>10, HeapServed
<1>12. DOMAIN heap' \ DOMAIN heap = grown
  <2>1. DOMAIN h = grown
    BY <1>5, <1>6, FramesHandedOut
  <2>2. DOMAIN heap \cap DOMAIN h = {}
    BY <1>5, <2>1
  <2>3. DOMAIN With(heap, h) = DOMAIN heap \cup DOMAIN h
    BY <2>2, WithAdds
  <2> HIDE DEF h
  <2> QED
    BY <1>3, <1>5, <2>1, <2>3
<1> QED
  BY <1>7, <1>11, <1>12 DEF frames_left

(***************************************************************************)
(* The comparisons with frames_left that precede get_frame suffice: only a *)
(* Fork by a process whose size field understates its pages, and an Exec   *)
(* whose arguments need more pages of the kernel heap than frames are      *)
(* left, run out unnoticed, however large the arguments are.               *)
(* KernelFork asks for 3 pages beside the user memory; one is for malloc,  *)
(* so this holds on machines whose kernel stack, NUM_KSTACK_PAGES, is at   *)
(* most 2 pages: the size of KERNEL_STACK_MAXSIZE is external.             *)
(***************************************************************************)
THEOREM ChecksAlwaysSuffice ==
  ASSUME KStack <= 2
  PROVE  Spec => ChecksSuffice
<1>1. IInv /\ [Next]_vars => [RunsOutInTwoCases]_vars
  <2> SUFFICES ASSUME IInv, Next, ~outOfRange, outOfRange' PROVE RunsOutInTwoCases
    BY DEF RunsOutInTwoCases
  <2>1. CASE CreateObject
    <3>1. PICK grown \in NewHeapPages(1) : outOfRange' = (NoFrame \in Range(GetFrames(grown, free)))
      BY <2>1 DEF CreateObject
    <3>2. free # {}
      <4>1. ~(Cardinality(free) < 1)
        BY <2>1 DEF CreateObject, no_kernel_memory, frames_left
      <4> QED
        BY <4>1, FS_EmptySet
    <3>3. NoFrame \notin Range(GetFrames(grown, free))
      <4>1. Cardinality(grown) <= Cardinality(free) /\ 1 \in Nat
        BY <3>2, OnePage
      <4> QED
        BY <4>1, HeapServed
    <3> QED
      BY <3>1, <3>3
  <2>2. CASE KernelReclaim \/ KernelWait
    BY <2>2 DEF KernelReclaim, KernelWait
  <2>3. ASSUME NEW p \in Proc, status[p] = "alive", KernelFork(p) PROVE RunsOutInTwoCases
    <3>1. ~(userpt[p].size >= Cardinality(DOMAIN userpt[p].pt))
      BY <2>3, ForkServed
    <3>2. userpt[p].size < Cardinality(DOMAIN userpt[p].pt)
      <4>1. IsTable(userpt[p].pt) /\ userpt[p].size \in Int
        BY <2>3, LiveMemory DEF IInv
      <4>2. Cardinality(DOMAIN userpt[p].pt) \in Nat
        BY <4>1, PagesAreFinite, FS_CardinalityType DEF IsTable
      <4> QED
        BY <3>1, <4>1, <4>2
    <3> QED
      BY <2>3, <3>2 DEF RunsOutInTwoCases
  <2>4. ASSUME NEW p \in Proc, KernelExit(p) PROVE FALSE
    BY <2>4 DEF KernelExit
  <2>5. ASSUME NEW p \in Proc, status[p] = "alive", NEW addr \in Addresses, KernelUserBrk(p, addr)
        PROVE  FALSE
    BY <2>5, UserBrkServed
  <2>6. ASSUME NEW p \in Proc, status[p] = "alive", NEW addr \in Addresses, TrapMemory(p, addr)
        PROVE  FALSE
    <3>1. CASE /\ userpt[p].stack_low - DownToPage(addr) <= frames_left
               /\ GrowStack(p, addr)
      BY <2>6, <3>1, GrowStackServed
    <3>2. CASE KernelExit(p)
      BY <2>4, <3>2
    <3> QED
      BY <2>6, <3>1, <3>2 DEF TrapMemory
  <2>7. ASSUME NEW p \in Proc, status[p] = "alive", NEW li \in Image, KernelExec(p, li)
        PROVE  RunsOutInTwoCases
    <3>1. frames_left < Cardinality(DOMAIN heap' \ DOMAIN heap)
      BY <2>7, ExecServed
    <3> QED
      BY <2>7, <3>1 DEF RunsOutInTwoCases
  <2> QED
    BY <2>1, <2>2, <2>3, <2>4, <2>5, <2>6, <2>7 DEF Next
<1> QED
  BY <1>1, InductiveInvariant, PTL DEF Spec, ChecksSuffice

=============================================================================

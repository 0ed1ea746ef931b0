------------------------------ MODULE MemPool -------------------------------
(***************************************************************************)
(* The fixed-size memory pool of kvstore_mpv1.c.  Addresses count bytes    *)
(* from the start of the page, and a pointer takes PointerSize of them.  A *)
(* free block begins with the address of the next one; its user overwrites *)
(* it.  A byte of a pointer is represented by the whole pointer.           *)
(***************************************************************************)
EXTENDS Integers, FiniteSets, Sequences

CONSTANTS
  MEM_PAGE_SIZE,   \* bytes of the page
  PointerSize,
  MinBlock,        \* 16 bytes
  BlockSizes       \* the sizes mp_init is called with

ASSUME MemPoolAssumption ==
  /\ {MEM_PAGE_SIZE, PointerSize, MinBlock} \cup BlockSizes \subseteq Nat \ {0}
  /\ PointerSize <= MinBlock

VARIABLES
  pool,     \* the mempool_t: block_size, free_count, free_ptr, and mem
  taken     \* history: the blocks given out

poolvars == <<pool, taken>>

NullPtr == -1
UserData == -2

Max2(a, b) == IF a > b THEN a ELSE b

\* The bytes behind the page are there to see whether anyone writes them.
Memory == 0 .. MEM_PAGE_SIZE + PointerSize - 1

Fill(mem, a, n, x) == [b \in Memory |-> IF b \in a .. a + n - 1 THEN x ELSE mem[b]]

\* *(char**)a = p, and the reading of it.
Store(mem, a, p) == Fill(mem, a, PointerSize, p)
Load(mem, a) == mem[a]

\* The loop links the blocks; the NULL goes one block behind the last.
mp_init(size) ==
  LET s == Max2(size, MinBlock)
      n == MEM_PAGE_SIZE \div s
      linked == [b \in Memory |-> IF b < n * s /\ b % s < PointerSize
                                  THEN (b \div s + 1) * s ELSE UserData]
  IN  [block_size |-> s, free_count |-> n, free_ptr |-> 0,
       mem |-> Store(linked, n * s, NullPtr)]

NoPool ==
  [block_size |-> 0, free_count |-> 0, free_ptr |-> NullPtr, mem |-> [b \in Memory |-> UserData]]

PoolInit == pool = NoPool /\ taken = {}

Start == pool = NoPool /\ (\E size \in BlockSizes : pool' = mp_init(size)) /\ UNCHANGED taken

\* A plausible slip: only the list says whether a block is left.
mp_allock_NoCount ==
  /\ pool.free_ptr # NullPtr
  /\ pool' = [pool EXCEPT !.free_ptr = Load(pool.mem, pool.free_ptr),
                          !.mem = Fill(@, pool.free_ptr, pool.block_size, UserData)]
  /\ taken' = taken \cup {pool.free_ptr}

\* The caller fills the block it gets.  Without a block the result is NULL.
mp_allock ==
  /\ pool.free_count # 0
  /\ pool' = [pool EXCEPT !.free_ptr = Load(pool.mem, pool.free_ptr), !.free_count = @ - 1,
                          !.mem = Fill(@, pool.free_ptr, pool.block_size, UserData)]
  /\ taken' = taken \cup {pool.free_ptr}

mp_free(b) ==
  /\ pool' = [pool EXCEPT !.mem = Store(@, b, pool.free_ptr), !.free_ptr = b, !.free_count = @ + 1]
  /\ taken' = taken \ {b}

\* Callers free only what they have.
PoolNext == Start \/ mp_allock \/ \E b \in taken : mp_free(b)

-----------------------------------------------------------------------------
Blocks == {a \in 0 .. MEM_PAGE_SIZE - pool.block_size : a % pool.block_size = 0}

\* The free list: its i-th block.
FreeBlock ==
  LET at[i \in 0 .. pool.free_count] ==
        IF i = 0 THEN pool.free_ptr
        ELSE IF at[i - 1] \in Memory THEN Load(pool.mem, at[i - 1]) ELSE NullPtr
  IN  at

\* free_count blocks of the free list are blocks of the page, all different,
\* and together with those given out they are all the blocks there are: none
\* is given out twice and none is lost, whatever the users write.  Nobody
\* writes behind the page, but for mp_init when what the blocks leave of it is
\* less than a pointer, as in its only call (kvstore.c:506), whose block is
\* the whole page.
FreeListExact ==
  LET free == {FreeBlock[i] : i \in 0 .. pool.free_count - 1}
  IN  pool # NoPool =>
      /\ free \cup taken = Blocks /\ free \cap taken = {}
      /\ Cardinality(free) = pool.free_count
      /\ (\E b \in Memory : b >= MEM_PAGE_SIZE /\ pool.mem[b] # UserData) =>
           MEM_PAGE_SIZE % pool.block_size < PointerSize

=============================================================================

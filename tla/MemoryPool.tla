----------------------------- MODULE MemoryPool -----------------------------
(***************************************************************************)
(* MemoryPoolAllocator, from which a document takes the memory of its      *)
(* values: allocators that share a pool by counting references, and a pool *)
(* that is a list of chunks, of which the head serves every allocation.    *)
(*                                                                         *)
(* A pool's chunks are a sequence whose last element is the head. A block  *)
(* is what a caller holds: where it lies, the size asked for and the size  *)
(* set aside for it. What a caller has given up is no block any more, and  *)
(* nothing is a block that lay in memory since freed.                      *)
(***************************************************************************)
EXTENDS Integers, Sequences, FiniteSets

CONSTANTS
    Allocators,    \* the allocator objects of the program
    Pools,         \* what their shared data may be
    Word,          \* the alignment
    ChunkCapacity, \* the capacity of a chunk, unless a block needs more
    Buffers,       \* the capacities of buffers a caller may supply
    Sizes,         \* the sizes callers ask for
    MaxChunks      \* bound: the chunks of a pool

ASSUME MemoryPoolAssumption ==
    /\ Word \in Nat \ {0}
    /\ ChunkCapacity \in Nat
    /\ Buffers \subseteq Nat
    /\ Sizes \subseteq Nat
    /\ IsFiniteSet(Allocators)
    /\ "no object" \notin Pools /\ "moved" \notin Pools
    /\ MaxChunks \in Nat

VARIABLES
    shared, \* [Allocators -> the pool, or what there is instead]
    pool,   \* [Pools -> chunks and the number of references]
    blocks  \* the blocks callers hold

poolVars == <<shared, pool, blocks>>

NoObject == "no object"  \* not constructed, or destroyed
MovedFrom == "moved"         \* moved from: without shared data
SharedData(chunks, refcount) == [chunks |-> chunks, refcount |-> refcount]
NoPool == SharedData(<<>>, 0)

Chunk(capacity) == [capacity |-> capacity, size |-> 0]
Living == { p \in Pools : pool[p].refcount > 0 }
Serves(a, p) == p \in Pools /\ shared[a] = p
HeadOf(p) == Len(pool[p].chunks)
Align(n) == ((n + Word - 1) \div Word) * Word

BlockIn(p, chunk, at, asked) ==
    [pool |-> p, chunk |-> chunk, at |-> at, asked |-> asked, size |-> Align(asked)]
Resized(b, asked, size) ==
    [pool |-> b.pool, chunk |-> b.chunk, at |-> b.at, asked |-> asked, size |-> size]
Block == [pool : Pools, chunk : Nat \ {0}, at : Nat, asked : Nat, size : Nat]

PoolInit ==
    /\ shared = [a \in Allocators |-> NoObject]
    /\ pool = [p \in Pools |-> NoPool]
    /\ blocks = {}

-----------------------------------------------------------------------------
(* Objects                                                                 *)

\* The first chunk has no capacity, or that of the buffer.
Construct(a, p, capacity) ==
    /\ shared[a] = NoObject /\ p \notin Living
    /\ shared' = [shared EXCEPT ![a] = p]
    /\ pool' = [pool EXCEPT ![p] = SharedData(<<Chunk(capacity)>>, 1)]
    /\ UNCHANGED blocks

\* One reference more.
Referred(pools, p) ==
    [pools EXCEPT ![p] = SharedData(pools[p].chunks, pools[p].refcount + 1)]
Copy(a, b) ==
    \E p \in Pools :
        /\ shared[a] = NoObject /\ Serves(b, p)
        /\ shared' = [shared EXCEPT ![a] = p]
        /\ pool' = Referred(pool, p)
        /\ UNCHANGED blocks

Move(a, b) ==
    /\ shared[a] = NoObject /\ shared[b] \in Pools
    /\ shared' = [shared EXCEPT ![a] = shared[b], ![b] = MovedFrom]
    /\ UNCHANGED <<pool, blocks>>

\* Mutant: the destructor frees the chunks without counting the references.
ReleasedAtOnce(p) == [pool EXCEPT ![p] = NoPool]

\* The destructor, of an allocator whose shared data are p.
Released(p) ==
    [pool EXCEPT ![p] = IF pool[p].refcount > 1
                        THEN SharedData(pool[p].chunks, pool[p].refcount - 1) ELSE NoPool]
Kept(p) == IF pool[p].refcount > 1 THEN blocks ELSE { b \in blocks : b.pool # p }

Destroy(a) ==
    /\ shared[a] # NoObject
    /\ shared' = [shared EXCEPT ![a] = NoObject]
    /\ IF shared[a] = MovedFrom THEN UNCHANGED <<pool, blocks>>
       ELSE pool' = Released(shared[a]) /\ blocks' = Kept(shared[a])

\* The right-hand side is counted before the left-hand side is released.
Assign(a, b) ==
    \E p \in Pools :
        /\ shared[a] # NoObject /\ Serves(b, p)
        /\ shared' = [shared EXCEPT ![a] = p]
        /\ IF shared[a] = MovedFrom
           THEN pool' = Referred(pool, p) /\ UNCHANGED blocks
           ELSE IF shared[a] = p THEN UNCHANGED <<pool, blocks>>
           ELSE /\ pool' = Referred(Released(shared[a]), p)
                /\ blocks' = Kept(shared[a])

\* An allocator that is moved to itself is released and left without a pool.
MoveAssign(a, b) ==
    /\ shared[a] # NoObject /\ shared[b] \in Pools
    /\ shared' = IF a = b THEN [shared EXCEPT ![a] = MovedFrom]
                 ELSE [shared EXCEPT ![a] = shared[b], ![b] = MovedFrom]
    /\ IF shared[a] = MovedFrom THEN UNCHANGED <<pool, blocks>>
       ELSE pool' = Released(shared[a]) /\ blocks' = Kept(shared[a])

-----------------------------------------------------------------------------
(* Memory                                                                  *)

WithChunks(p, chunks) == [pool EXCEPT ![p] = SharedData(chunks, pool[p].refcount)]

\* Only the first chunk remains, and is empty.
Clear(a) ==
    \E p \in Pools :
        /\ Serves(a, p)
        /\ pool' = WithChunks(p, <<Chunk(pool[p].chunks[1].capacity)>>)
        /\ blocks' = { b \in blocks : b.pool # p }
        /\ UNCHANGED shared

HasRoom(p, n) == pool[p].chunks[HeadOf(p)].size + n <= pool[p].chunks[HeadOf(p)].capacity

\* The pool's chunks after n, a multiple of Word, is taken from the head, or from a new head.
Taken(p, n) ==
    LET head == pool[p].chunks[HeadOf(p)]
    IN  [pool[p].chunks EXCEPT
           ![HeadOf(p)] = [capacity |-> head.capacity, size |-> head.size + n]]
TakenAnew(p, n) ==
    Append(pool[p].chunks,
           [capacity |-> IF ChunkCapacity > n THEN ChunkCapacity ELSE n, size |-> n])

\* asked is taken from p for a caller that gives up the blocks old. Where there is no
\* room, memory for a chunk may be refused: the caller gets nothing and gives up nothing.
Allocate(p, asked, old) ==
    LET n == Align(asked)
        chunk == pool[p].chunks[HeadOf(p)]
    IN  IF HasRoom(p, n)
        THEN /\ pool' = WithChunks(p, Taken(p, n))
             /\ blocks' = (blocks \ old) \cup {BlockIn(p, HeadOf(p), chunk.size, asked)}
        ELSE /\ HeadOf(p) < MaxChunks
             /\ \/ /\ pool' = WithChunks(p, TakenAnew(p, n))
                   /\ blocks' = (blocks \ old) \cup {BlockIn(p, HeadOf(p) + 1, 0, asked)}
                \/ UNCHANGED <<pool, blocks>>

Malloc(a, asked) ==
    \E p \in Pools :
        /\ Serves(a, p) /\ asked > 0
        /\ Allocate(p, asked, {})
        /\ UNCHANGED shared

\* Mutant: a block grows where it lies although others follow it.
GrowsInPlaceAnywhere(b, more) == HasRoom(b.pool, more)

\* Whether b, of which the caller counts Align(b.asked), is the last of the head.
GrowsInPlace(b, more) ==
    /\ b.chunk = HeadOf(b.pool)
    /\ b.at + Align(b.asked) = pool[b.pool].chunks[HeadOf(b.pool)].size
    /\ HasRoom(b.pool, more)

Realloc(a, b, asked) ==
    LET more == Align(asked) - Align(b.asked)
    IN  /\ Serves(a, b.pool) /\ b \in blocks
        /\ UNCHANGED shared
        /\ CASE asked = 0 -> blocks' = blocks \ {b} /\ UNCHANGED pool
             [] asked > 0 /\ more <= 0 ->
                  blocks' = (blocks \ {b}) \cup {Resized(b, asked, b.size)} /\ UNCHANGED pool
             [] asked > 0 /\ more > 0 /\ GrowsInPlace(b, more) ->
                  /\ pool' = WithChunks(b.pool, Taken(b.pool, more))
                  /\ blocks' = (blocks \ {b})
                                 \cup {Resized(b, asked, Align(asked))}
             [] OTHER -> Allocate(b.pool, asked, {b})

PoolNext ==
    \E a \in Allocators :
        \/ \E p \in Pools, capacity \in {0} \cup Buffers : Construct(a, p, capacity)
        \/ \E b \in Allocators : Copy(a, b) \/ Move(a, b) \/ Assign(a, b) \/ MoveAssign(a, b)
        \/ Destroy(a) \/ Clear(a)
        \/ \E n \in Sizes : Malloc(a, n) \/ \E b \in blocks : Realloc(a, b, n)

PoolSpec == PoolInit /\ [][PoolNext]_poolVars

-----------------------------------------------------------------------------
PoolTypeOK ==
    /\ shared \in [Allocators -> Pools \cup {NoObject, MovedFrom}]
    /\ pool \in [Pools -> [chunks : Seq([capacity : Nat, size : Nat]), refcount : Nat]]
    /\ blocks \subseteq Block

Apart(b, c) == b.at + b.size <= c.at \/ c.at + c.size <= b.at

(* A block lies within its chunk, is at least as long as was asked for,    *)
(* and no other block lies in it: whatever is allocated, grown in place,   *)
(* shrunk, cleared and shared, two values of a document never lie in the   *)
(* same memory (allocators.h:280-291, 324-373).                            *)
BlocksApart ==
    \A b \in blocks :
        /\ b.chunk <= HeadOf(b.pool)
        /\ b.at + b.size <= pool[b.pool].chunks[b.chunk].capacity
        /\ b.asked <= b.size
        /\ \A c \in blocks \ {b} : c.pool = b.pool /\ c.chunk = b.chunk => Apart(b, c)

(* A pool lives exactly as long as an allocator refers to it, and counts   *)
(* those that do; no block outlives its pool (allocators.h:215-277).       *)
PoolsAreCounted ==
    /\ \A p \in Pools : pool[p].refcount = Cardinality({ a \in Allocators : shared[a] = p })
    /\ \A b \in blocks : b.pool \in Living
=============================================================================

-------------------------- MODULE MemoryPoolProofs --------------------------
(***************************************************************************)
(* Proofs about MemoryPool: for any number of allocators, pools and        *)
(* chunks, blocks do not overlap and references are counted.               *)
(***************************************************************************)
EXTENDS MemoryPool, FiniteSetTheorems, SequenceTheorems, TLAPS

Data == [chunks : Seq([capacity : Nat, size : Nat]), refcount : Nat]
Referents == Pools \cup {NoObject, MovedFrom}
Users(s, p) == { a \in Allocators : s[a] = p }

\* The parts of the inductive invariant.
Chunked ==
    \A p \in Living :
        /\ Len(pool[p].chunks) >= 1
        /\ \A i \in 1..Len(pool[p].chunks) : pool[p].chunks[i].size <= pool[p].chunks[i].capacity
Lying ==
    \A b \in blocks :
        /\ b.chunk <= Len(pool[b.pool].chunks)
        /\ b.at + b.size <= pool[b.pool].chunks[b.chunk].size
        /\ b.asked > 0 /\ Align(b.asked) <= b.size
Distinct ==
    \A b \in blocks : \A c \in blocks \ {b} : c.pool = b.pool /\ c.chunk = b.chunk => Apart(b, c)
PoolIInv == PoolTypeOK /\ PoolsAreCounted /\ Chunked /\ Lying /\ Distinct

-----------------------------------------------------------------------------
\* Division leaves less than the divisor.
LEMMA Division ==
    ASSUME NEW m \in Nat, NEW w \in Nat \ {0}
    PROVE  m \div w \in Nat /\ m < w * (m \div w) + w
  OBVIOUS

\* Aligning rounds up.
LEMMA AlignUp ==
    ASSUME NEW n \in Nat
    PROVE  Align(n) \in Nat /\ Align(n) >= n
  <1>1. Word \in Nat \ {0}
    BY MemoryPoolAssumption, Zenon
  <1>2. PICK m \in Nat : m = n + Word - 1
    BY <1>1
  <1>3. PICK q \in Nat : q = m \div Word /\ m < Word * q + Word
    BY <1>1, Division
  <1>4. Align(n) = q * Word
    BY <1>2, <1>3 DEF Align
  <1> QED  BY <1>1, <1>2, <1>3, <1>4

\* An allocator that begins to refer to p is one more of those that do.
LEMMA UsersAdded ==
    ASSUME NEW s \in [Allocators -> Referents], NEW a \in Allocators, NEW p, s[a] # p
    PROVE  Cardinality(Users([s EXCEPT ![a] = p], p)) = Cardinality(Users(s, p)) + 1
  <1>1. Users([s EXCEPT ![a] = p], p) = Users(s, p) \cup {a}
    BY DEF Users
  <1>2. IsFiniteSet(Users(s, p)) /\ a \notin Users(s, p)
    BY MemoryPoolAssumption, FS_Subset DEF Users
  <1> QED  BY <1>1, <1>2, FS_AddElement

\* One that ceases to is one less.
LEMMA UsersRemoved ==
    ASSUME NEW s \in [Allocators -> Referents], NEW a \in Allocators, NEW p, s[a] = p, NEW v, v # p
    PROVE  /\ Cardinality(Users([s EXCEPT ![a] = v], p)) = Cardinality(Users(s, p)) - 1
           /\ Cardinality(Users(s, p)) \in Nat \ {0}
  <1>1. Users([s EXCEPT ![a] = v], p) = Users(s, p) \ {a}
    BY DEF Users
  <1>2. IsFiniteSet(Users(s, p)) /\ a \in Users(s, p)
    BY MemoryPoolAssumption, FS_Subset DEF Users
  <1>3. Cardinality(Users(s, p)) \in Nat /\ Users(s, p) # {}
    BY <1>2, FS_CardinalityType
  <1>4. Cardinality(Users(s, p)) # 0
    BY <1>2, <1>3, FS_EmptySet
  <1> QED  BY <1>1, <1>2, <1>3, <1>4, FS_RemoveElement

\* Any other change leaves them as they are.
LEMMA UsersSame ==
    ASSUME NEW s \in [Allocators -> Referents], NEW a \in Allocators, NEW p, s[a] # p, NEW v, v # p
    PROVE  Users([s EXCEPT ![a] = v], p) = Users(s, p)
  BY DEF Users

\* What keeps chunks keeps the blocks in them apart.
LEMMA BlocksStay ==
    ASSUME PoolIInv, blocks' \subseteq blocks,
           \A b \in blocks' : pool'[b.pool].chunks = pool[b.pool].chunks
    PROVE  Lying' /\ Distinct'
  BY DEF PoolIInv, Lying, Distinct, Apart, Align

-----------------------------------------------------------------------------
\* The invariant holds at the beginning.
LEMMA PoolBegins == PoolInit => PoolIInv
  <1> SUFFICES ASSUME PoolInit PROVE PoolIInv
    OBVIOUS
  <1>1. PoolTypeOK
    BY DEF PoolInit, PoolTypeOK, NoPool, SharedData
  <1>2. ASSUME NEW p \in Pools PROVE { a \in Allocators : shared[a] = p } = {}
    BY MemoryPoolAssumption DEF PoolInit, NoObject
  <1>3. PoolsAreCounted
    BY <1>2, FS_EmptySet DEF PoolInit, PoolsAreCounted, NoPool, SharedData
  <1> QED
    BY <1>1, <1>3 DEF PoolInit, PoolIInv, Chunked, Lying, Distinct, Living, NoPool, SharedData

\* What is known of the state, and that an allocator's pool lives.
LEMMA Known ==
    ASSUME PoolIInv
    PROVE  /\ shared \in [Allocators -> Referents]
           /\ pool \in [Pools -> Data]
           /\ blocks \subseteq Block
           /\ NoObject \notin Pools /\ MovedFrom \notin Pools
           /\ \A r \in Pools : pool[r].refcount = Cardinality(Users(shared, r))
           /\ \A a \in Allocators : shared[a] \in Pools => pool[shared[a]].refcount > 0
           /\ \A c \in blocks : c.pool \in Pools /\ pool[c.pool].refcount > 0
  <1>1. /\ shared \in [Allocators -> Referents]
        /\ pool \in [Pools -> Data]
        /\ blocks \subseteq Block
        /\ NoObject \notin Pools /\ MovedFrom \notin Pools
    BY MemoryPoolAssumption DEF PoolIInv, PoolTypeOK, NoObject, MovedFrom, Data, Referents
  <1>2. \A r \in Pools : pool[r].refcount = Cardinality(Users(shared, r))
    BY DEF PoolIInv, PoolsAreCounted, Users
  <1>3. ASSUME NEW a \in Allocators, shared[a] \in Pools PROVE pool[shared[a]].refcount > 0
    <2>1. Users(shared, shared[a]) # {} /\ IsFiniteSet(Users(shared, shared[a]))
      BY MemoryPoolAssumption, FS_Subset DEF Users
    <2> QED  BY <1>2, <1>3, <2>1, FS_EmptySet, FS_CardinalityType
  <1>4. \A c \in blocks : c.pool \in Pools /\ pool[c.pool].refcount > 0
    BY DEF PoolIInv, PoolsAreCounted, Living
  <1> QED  BY <1>1, <1>2, <1>3, <1>4

\* The destructor counts one reference less, and keeps the chunks of what blocks remain.
LEMMA Releases ==
    ASSUME PoolIInv, NEW a \in Allocators, NEW p \in Pools, shared[a] = p, NEW v \in {NoObject, MovedFrom}
    PROVE  /\ Released(p) \in [Pools -> Data]
           /\ \A r \in Pools :
                Released(p)[r].refcount = Cardinality(Users([shared EXCEPT ![a] = v], r))
           /\ \A r \in Pools : r # p => Released(p)[r] = pool[r]
           /\ \A r \in Pools : Released(p)[r].refcount > 0 =>
                pool[r].refcount > 0 /\ Released(p)[r].chunks = pool[r].chunks
           /\ \A b \in Kept(p) : b \in blocks /\ Released(p)[b.pool].refcount > 0
  <1> DEFINE s == [shared EXCEPT ![a] = v]
  <1>1. /\ shared \in [Allocators -> Referents] /\ pool \in [Pools -> Data]
        /\ blocks \subseteq Block /\ v \notin Pools
    BY Known
  <1>2. \A r \in Pools : pool[r].refcount = Cardinality(Users(shared, r))
    BY Known
  <1>3. /\ Cardinality(Users(s, p)) = Cardinality(Users(shared, p)) - 1
        /\ Cardinality(Users(shared, p)) \in Nat \ {0}
    BY <1>1, UsersRemoved
  <1>4. \A r \in Pools : r # p => Users(s, r) = Users(shared, r)
    BY <1>1, UsersSame, ZenonT(60)
  <1>5. pool[p].refcount \in Nat \ {0}
    BY <1>2, <1>3
  <1>6. NoPool \in Data /\ NoPool.refcount = 0
    BY DEF NoPool, SharedData, Data
  <1>7. \A r \in Pools : r # p => Released(p)[r] = pool[r]
    BY <1>1 DEF Released
  <1>8. Released(p)[p] = IF pool[p].refcount > 1 THEN SharedData(pool[p].chunks, pool[p].refcount - 1) ELSE NoPool
    BY <1>1 DEF Released
  <1>9. Released(p)[p].refcount = pool[p].refcount - 1
    <2>1. CASE pool[p].refcount > 1
      BY <1>1, <1>8, <2>1 DEF SharedData
    <2>2. CASE ~(pool[p].refcount > 1)
      BY <1>5, <1>6, <1>8, <2>2
    <2> QED  BY <2>1, <2>2
  <1>10. Released(p) \in [Pools -> Data]
    <2>1. SharedData(pool[p].chunks, pool[p].refcount - 1)
            \in Data
      BY <1>1, <1>5 DEF SharedData, Data
    <2> QED  BY <1>1, <1>6, <2>1 DEF Released
  <1>11. \A r \in Pools : Released(p)[r].refcount = Cardinality(Users(s, r))
    BY <1>1, <1>2, <1>3, <1>4, <1>7, <1>9
  <1>12. \A r \in Pools : Released(p)[r].refcount > 0 =>
            pool[r].refcount > 0 /\ Released(p)[r].chunks = pool[r].chunks
    <2>1. Released(p)[p].refcount > 0 => pool[p].refcount > 1
      BY <1>5, <1>9
    <2>2. pool[p].refcount > 1 => Released(p)[p].chunks = pool[p].chunks
      BY <1>8 DEF SharedData
    <2> QED  BY <1>5, <1>7, <2>1, <2>2
  <1>13. \A b \in Kept(p) : b \in blocks /\ Released(p)[b.pool].refcount > 0
    <2> SUFFICES ASSUME NEW b \in Kept(p) PROVE b \in blocks /\ Released(p)[b.pool].refcount > 0
      OBVIOUS
    <2>1. b \in blocks /\ (pool[p].refcount > 1 \/ b.pool # p)
      BY DEF Kept
    <2>2. b.pool \in Pools /\ pool[b.pool].refcount > 0
      BY <2>1 DEF PoolIInv, PoolsAreCounted, Living
    <2> QED  BY <1>5, <1>7, <1>9, <2>1, <2>2
  <1> QED  BY <1>7, <1>10, <1>11, <1>12, <1>13

-----------------------------------------------------------------------------
\* What an action on objects must do for the invariant to be kept.
LEMMA ObjectsKeep ==
    ASSUME PoolIInv, PoolTypeOK',
           \A r \in Pools : pool'[r].refcount = Cardinality(Users(shared', r)),
           \A r \in Pools : pool'[r].refcount > 0 =>
             pool[r].refcount > 0 /\ pool'[r].chunks = pool[r].chunks,
           \A b \in blocks' : b \in blocks /\ pool'[b.pool].refcount > 0
    PROVE  PoolIInv'
  <1>1. \A b \in blocks' : b.pool \in Pools
    BY DEF PoolTypeOK, Block
  <1>2. PoolsAreCounted'
    BY <1>1 DEF PoolsAreCounted, Living, Users
  <1>3. Chunked'
    BY DEF PoolIInv, Chunked, Living
  <1>4. Lying' /\ Distinct'
    BY <1>1, BlocksStay
  <1> QED  BY <1>2, <1>3, <1>4 DEF PoolIInv

\* A pool's data with one reference more are data of a pool.
LEMMA OneMore ==
    ASSUME NEW pools \in [Pools -> Data], NEW p \in Pools
    PROVE  /\ Referred(pools, p) \in [Pools -> Data]
           /\ Referred(pools, p)[p].refcount = pools[p].refcount + 1
           /\ \A r \in Pools : Referred(pools, p)[r].chunks = pools[r].chunks
           /\ \A r \in Pools : r # p => Referred(pools, p)[r] = pools[r]
  BY DEF Referred, SharedData, Data

\* A new reference, of an allocator that had none, to a pool that lives.
LEMMA OneMoreKeeps ==
    ASSUME PoolIInv, NEW a \in Allocators, NEW p \in Pools, shared[a] \notin Pools,
           pool[p].refcount > 0, shared' = [shared EXCEPT ![a] = p],
           pool' = Referred(pool, p), blocks' = blocks
    PROVE  PoolIInv'
  <1>1. Cardinality(Users(shared', p)) = Cardinality(Users(shared, p)) + 1
    BY Known, UsersAdded
  <1>2. ASSUME NEW r \in Pools, r # p PROVE Users(shared', r) = Users(shared, r)
    <2>1. shared \in [Allocators -> Referents] /\ shared[a] # r
      BY <1>2, Known
    <2> QED  BY <1>2, <2>1, UsersSame
  <1>3. /\ pool' \in [Pools -> Data]
        /\ pool'[p].refcount = pool[p].refcount + 1
        /\ \A r \in Pools : pool'[r].chunks = pool[r].chunks
        /\ \A r \in Pools : r # p => pool'[r] = pool[r]
    BY Known, OneMore
  <1>4. shared' \in [Allocators -> Referents]
    BY Known DEF Referents
  <1>5. PoolTypeOK'
    BY <1>3, <1>4, Known DEF PoolTypeOK, Data, Referents
  <1>6. pool[p].refcount \in Nat
    BY Known DEF Data
  <1>7. \A r \in Pools : pool'[r].refcount = Cardinality(Users(shared', r))
    BY <1>1, <1>2, <1>3, Known
  <1>8. \A r \in Pools : pool'[r].refcount > 0 =>
            pool[r].refcount > 0 /\ pool'[r].chunks = pool[r].chunks
    BY <1>3
  <1>9. \A c \in blocks' : c \in blocks /\ pool'[c.pool].refcount > 0
    BY <1>3, <1>6, Known
  <1> QED  BY <1>5, <1>7, <1>8, <1>9, ObjectsKeep

\* Copying a reference keeps the invariant.
LEMMA CopyKeeps ==
    ASSUME PoolIInv, NEW a \in Allocators, NEW b \in Allocators, Copy(a, b)
    PROVE  PoolIInv'
  <1>1. PICK p \in Pools : /\ shared[a] = NoObject /\ shared[b] = p
                           /\ shared' = [shared EXCEPT ![a] = p]
                           /\ pool' = Referred(pool, p) /\ blocks' = blocks
    BY DEF Copy, Serves
  <1> QED  BY <1>1, Known, OneMoreKeeps

\* A new pool has one reference, and an empty chunk.
LEMMA ConstructKeeps ==
    ASSUME PoolIInv, NEW a \in Allocators, NEW p \in Pools, NEW n \in Nat, Construct(a, p, n)
    PROVE  PoolIInv'
  <1>1. /\ shared[a] = NoObject /\ ~(pool[p].refcount > 0)
        /\ shared' = [shared EXCEPT ![a] = p] /\ blocks' = blocks
        /\ pool' = [pool EXCEPT ![p] = SharedData(<<Chunk(n)>>, 1)]
    BY DEF Construct, Living
  <1>2. SharedData(<<Chunk(n)>>, 1) \in Data
    BY DEF SharedData, Chunk, Data
  <1>3. /\ pool' \in [Pools -> Data]
        /\ pool'[p] = SharedData(<<Chunk(n)>>, 1)
        /\ \A r \in Pools : r # p => pool'[r] = pool[r]
    BY <1>1, <1>2, Known
  <1>4. shared' \in [Allocators -> Referents]
    BY <1>1, Known DEF Referents
  <1>5. PoolTypeOK'
    BY <1>1, <1>3, <1>4, Known DEF PoolTypeOK, Data, Referents
  <1>6. Cardinality(Users(shared', p)) = Cardinality(Users(shared, p)) + 1
    BY <1>1, Known, UsersAdded
  <1>7. ASSUME NEW r \in Pools, r # p PROVE Users(shared', r) = Users(shared, r)
    <2>1. shared[a] # r /\ p # r
      BY <1>1, <1>7, Known
    <2>2. shared \in [Allocators -> Referents]
      BY Known
    <2> QED  BY <1>1, <2>1, <2>2, UsersSame
  <1>8. pool[p].refcount = 0
    BY <1>1, Known DEF Data
  <1>9. \A r \in Pools : pool'[r].refcount = Cardinality(Users(shared', r))
    BY <1>3, <1>6, <1>7, <1>8, Known DEF SharedData
  <1>10. \A c \in blocks' : c \in blocks /\ c.pool \in Pools /\ c.pool # p
                              /\ pool'[c.pool] = pool[c.pool] /\ pool[c.pool].refcount > 0
    BY <1>1, <1>3, Known
  <1>11. PoolsAreCounted'
    BY <1>9, <1>10 DEF PoolsAreCounted, Living, Users
  <1>12. Chunked'
    BY <1>3 DEF PoolIInv, Chunked, Living, SharedData, Chunk
  <1>13. Lying' /\ Distinct'
    BY <1>1, <1>10, BlocksStay
  <1> QED  BY <1>5, <1>11, <1>12, <1>13 DEF PoolIInv

\* A reference that moves to an allocator without one is still one.
LEMMA UsersMoved ==
    ASSUME NEW s \in [Allocators -> Referents], NEW a \in Allocators, NEW b \in Allocators,
           NEW p \in Pools, s[a] # p, MovedFrom # p, a # b
    PROVE  Cardinality(Users([s EXCEPT ![a] = s[b], ![b] = MovedFrom], p)) = Cardinality(Users(s, p))
  <1>1. PICK s1 \in [Allocators -> Referents] : s1 = [s EXCEPT ![a] = s[b]]
    OBVIOUS
  <1>2. s1[b] = s[b] /\ [s EXCEPT ![a] = s[b], ![b] = MovedFrom] = [s1 EXCEPT ![b] = MovedFrom]
    BY <1>1
  <1>3. CASE p = s[b]
    <2>1. Cardinality(Users(s1, p)) = Cardinality(Users(s, p)) + 1
      BY <1>1, <1>3, UsersAdded
    <2>2. Cardinality(Users([s1 EXCEPT ![b] = MovedFrom], p)) = Cardinality(Users(s1, p)) - 1
      <3>1. s1[b] = p /\ MovedFrom # p
        BY <1>2, <1>3
      <3> QED  BY <3>1, UsersRemoved
    <2>3. Cardinality(Users(s, p)) \in Nat
      BY MemoryPoolAssumption, FS_Subset, FS_CardinalityType DEF Users
    <2> QED  BY <1>2, <2>1, <2>2, <2>3
  <1>4. CASE p # s[b]
    <2>1. Users(s1, p) = Users(s, p)
      BY <1>1, <1>4 DEF Users
    <2>2. Users([s1 EXCEPT ![b] = MovedFrom], p) = Users(s1, p)
      BY <1>2, <1>4 DEF Users
    <2> QED  BY <1>2, <2>1, <2>2
  <1> QED  BY <1>3, <1>4

\* Moving a reference keeps the invariant.
LEMMA MoveKeeps ==
    ASSUME PoolIInv, NEW a \in Allocators, NEW b \in Allocators, Move(a, b)
    PROVE  PoolIInv'
  <1>1. /\ shared[a] = NoObject /\ shared[b] \in Pools /\ pool' = pool /\ blocks' = blocks
        /\ shared' = [shared EXCEPT ![a] = shared[b], ![b] = MovedFrom]
    BY DEF Move
  <1>2. a # b
    BY <1>1, Known
  <1>3. ASSUME NEW r \in Pools PROVE Cardinality(Users(shared', r)) = Cardinality(Users(shared, r))
    <2>1. shared[a] # r /\ MovedFrom # r
      BY <1>1, Known
    <2>2. shared \in [Allocators -> Referents]
      BY Known
    <2> QED  BY <1>1, <1>2, <2>1, <2>2, UsersMoved, ZenonT(60)
  <1>4. shared' \in [Allocators -> Referents]
    BY <1>1, Known DEF Referents
  <1>5. PoolTypeOK'
    BY <1>1, <1>4, Known DEF PoolTypeOK, Data, Referents
  <1>6. \A r \in Pools : pool'[r].refcount = Cardinality(Users(shared', r))
    BY <1>1, <1>3, Known
  <1>7. \A c \in blocks' : c \in blocks /\ pool'[c.pool].refcount > 0
    BY <1>1, Known
  <1> QED  BY <1>1, <1>5, <1>6, <1>7, ObjectsKeep

\* Destroying an allocator keeps the invariant.
LEMMA DestroyKeeps ==
    ASSUME PoolIInv, NEW a \in Allocators, Destroy(a)
    PROVE  PoolIInv'
  <1>1. shared[a] # NoObject /\ shared' = [shared EXCEPT ![a] = NoObject]
    BY DEF Destroy
  <1>2. shared' \in [Allocators -> Referents]
    BY <1>1, Known DEF Referents
  <1>3. CASE shared[a] = MovedFrom
    <2>1. pool' = pool /\ blocks' = blocks
      BY <1>3 DEF Destroy
    <2>2. ASSUME NEW r \in Pools PROVE Users(shared', r) = Users(shared, r)
      <3>1. shared[a] # r /\ NoObject # r
        BY <1>3, Known
      <3> QED  BY <1>1, <3>1, Known, UsersSame, ZenonT(60)
    <2>3. PoolTypeOK'
      BY <1>2, <2>1, Known DEF PoolTypeOK, Data, Referents
    <2>4. \A r \in Pools : pool'[r].refcount = Cardinality(Users(shared', r))
      BY <2>1, <2>2, Known
    <2>5. \A c \in blocks' : c \in blocks /\ pool'[c.pool].refcount > 0
      BY <2>1, Known
    <2> QED  BY <2>1, <2>3, <2>4, <2>5, ObjectsKeep
  <1>4. CASE shared[a] # MovedFrom
    <2>1. PICK p \in Pools : shared[a] = p /\ pool' = Released(p) /\ blocks' = Kept(p)
      <3>1. shared[a] \in Pools
        BY <1>1, <1>4, Known DEF Referents
      <3> QED  BY <1>4, <3>1 DEF Destroy
    <2>3. /\ pool' \in [Pools -> Data]
          /\ \A r \in Pools : pool'[r].refcount = Cardinality(Users(shared', r))
          /\ \A r \in Pools : pool'[r].refcount > 0 =>
               pool[r].refcount > 0 /\ pool'[r].chunks = pool[r].chunks
          /\ \A c \in blocks' : c \in blocks /\ pool'[c.pool].refcount > 0
      BY <1>1, <2>1, Releases
    <2>4. PoolTypeOK'
      BY <1>2, <2>3, Known DEF PoolTypeOK, Data, Referents
    <2> QED  BY <2>3, <2>4, ObjectsKeep
  <1> QED  BY <1>3, <1>4

\* Moving on from a state of the references in which an allocator has none.
LEMMA MovedKeeps ==
    ASSUME PoolIInv, NEW a \in Allocators, NEW b \in Allocators, a # b,
           NEW s \in [Allocators -> Referents], s[a] \notin Pools,
           shared' = [s EXCEPT ![a] = s[b], ![b] = MovedFrom],
           pool' \in [Pools -> Data],
           \A r \in Pools : pool'[r].refcount = Cardinality(Users(s, r)),
           \A r \in Pools : pool'[r].refcount > 0 =>
             pool[r].refcount > 0 /\ pool'[r].chunks = pool[r].chunks,
           \A c \in blocks' : c \in blocks /\ pool'[c.pool].refcount > 0
    PROVE  PoolIInv'
  <1>1. ASSUME NEW r \in Pools PROVE Cardinality(Users(shared', r)) = Cardinality(Users(s, r))
    <2>1. s[a] # r /\ MovedFrom # r
      BY Known
    <2> QED  BY <2>1, UsersMoved, ZenonT(60)
  <1>2. shared' \in [Allocators -> Referents]
    BY DEF Referents
  <1>3. PoolTypeOK'
    BY <1>2, Known DEF PoolTypeOK, Data, Referents
  <1>4. \A r \in Pools : pool'[r].refcount = Cardinality(Users(shared', r))
    BY <1>1
  <1> QED  BY <1>3, <1>4, ObjectsKeep

\* Assignment keeps the invariant.
LEMMA AssignKeeps ==
    ASSUME PoolIInv, NEW a \in Allocators, NEW b \in Allocators, Assign(a, b)
    PROVE  PoolIInv'
  <1>1. PICK p \in Pools :
          /\ shared[a] # NoObject /\ shared[b] = p /\ shared' = [shared EXCEPT ![a] = p]
          /\ IF shared[a] = MovedFrom
             THEN pool' = Referred(pool, p) /\ UNCHANGED blocks
             ELSE IF shared[a] = p THEN UNCHANGED <<pool, blocks>>
             ELSE pool' = Referred(Released(shared[a]), p) /\ blocks' = Kept(shared[a])
    BY DEF Assign, Serves
  <1>2. pool[p].refcount > 0
    BY <1>1, Known
  <1>3. CASE shared[a] = MovedFrom
    <2>1. shared[a] \notin Pools /\ pool' = Referred(pool, p) /\ blocks' = blocks
      BY <1>1, <1>3, Known
    <2> QED  BY <1>1, <1>2, <2>1, OneMoreKeeps
  <1>4. CASE shared[a] = p
    <2>1. shared' = shared /\ pool' = pool /\ blocks' = blocks
      BY <1>1, <1>4, Known
    <2> QED  BY <2>1 DEF PoolIInv, PoolTypeOK, PoolsAreCounted, Living, Chunked, Lying, Distinct
  <1>5. CASE shared[a] # MovedFrom /\ shared[a] # p
    <2>1. PICK q \in Pools : /\ shared[a] = q /\ q # p
                             /\ pool' = Referred(Released(q), p) /\ blocks' = Kept(q)
      <3>1. shared[a] \in Pools
        BY <1>1, <1>5, Known DEF Referents
      <3> QED  BY <1>1, <1>5, <3>1
    <2>2. PICK s \in [Allocators -> Referents] : s = [shared EXCEPT ![a] = MovedFrom]
      BY Known DEF Referents
    <2>3. /\ Released(q) \in [Pools -> Data]
          /\ \A r \in Pools : Released(q)[r].refcount = Cardinality(Users(s, r))
          /\ \A r \in Pools : Released(q)[r].refcount > 0 =>
               pool[r].refcount > 0 /\ Released(q)[r].chunks = pool[r].chunks
          /\ \A c \in Kept(q) : c \in blocks /\ Released(q)[c.pool].refcount > 0
      <3>1. shared[a] = q /\ s = [shared EXCEPT ![a] = MovedFrom]
        BY <2>1, <2>2
      <3>2. MovedFrom \in {NoObject, MovedFrom}
        OBVIOUS
      <3> QED  BY <3>1, <3>2, Releases, ZenonT(60)
    <2>13. Released(q)[p] = pool[p]
      BY <2>1, Known DEF Released
    <2>4. s[a] \notin Pools /\ shared' = [s EXCEPT ![a] = p] /\ shared' \in [Allocators -> Referents]
      BY <1>1, <2>2, Known DEF Referents
    <2>5. Cardinality(Users(shared', p)) = Cardinality(Users(s, p)) + 1
      BY <2>4, UsersAdded
    <2>6. ASSUME NEW r \in Pools, r # p PROVE Users(shared', r) = Users(s, r)
      BY <2>4, <2>6 DEF Users
    <2>7. /\ pool' \in [Pools -> Data]
          /\ pool'[p].refcount = Released(q)[p].refcount + 1
          /\ \A r \in Pools : pool'[r].chunks = Released(q)[r].chunks
          /\ \A r \in Pools : r # p => pool'[r] = Released(q)[r]
      BY <2>1, <2>3, OneMore
    <2>8. PoolTypeOK'
      <3>1. blocks' \subseteq Block
        BY <2>1, <2>3, Known
      <3> QED  BY <2>4, <2>7, <3>1 DEF PoolTypeOK, Data, Referents
    <2>9. \A r \in Pools : pool'[r].refcount = Cardinality(Users(shared', r))
      BY <2>3, <2>5, <2>6, <2>7
    <2>10. \A r \in Pools : pool'[r].refcount > 0 =>
              pool[r].refcount > 0 /\ pool'[r].chunks = pool[r].chunks
      BY <1>2, <2>3, <2>13, <2>7
    <2>11. pool'[p].refcount > 0
      BY <1>2, <2>13, <2>7, Known DEF Data
    <2>12. \A c \in blocks' : c \in blocks /\ pool'[c.pool].refcount > 0
      BY <2>1, <2>3, <2>7, <2>11, Known, SMTT(30)
    <2> QED  BY <2>8, <2>9, <2>10, <2>12, ObjectsKeep
  <1> QED  BY <1>3, <1>4, <1>5

\* Move assignment keeps the invariant, to itself as well.
LEMMA MoveAssignKeeps ==
    ASSUME PoolIInv, NEW a \in Allocators, NEW b \in Allocators, MoveAssign(a, b)
    PROVE  PoolIInv'
  <1>1. /\ shared[a] # NoObject /\ shared[b] \in Pools
        /\ shared' = IF a = b THEN [shared EXCEPT ![a] = MovedFrom]
                     ELSE [shared EXCEPT ![a] = shared[b], ![b] = MovedFrom]
        /\ IF shared[a] = MovedFrom THEN UNCHANGED <<pool, blocks>>
           ELSE pool' = Released(shared[a]) /\ blocks' = Kept(shared[a])
    BY DEF MoveAssign
  <1>2. CASE shared[a] = MovedFrom
    <2>1. /\ a # b /\ shared \in [Allocators -> Referents] /\ shared[a] \notin Pools
          /\ pool' = pool /\ blocks' = blocks
      BY <1>1, <1>2, Known
    <2>2. /\ pool' \in [Pools -> Data]
          /\ \A r \in Pools : pool'[r].refcount = Cardinality(Users(shared, r))
          /\ \A c \in blocks' : c \in blocks /\ pool'[c.pool].refcount > 0
      BY <2>1, Known
    <2> QED  BY <1>1, <2>1, <2>2, MovedKeeps
  <1>3. CASE shared[a] # MovedFrom
    <2>1. PICK q \in Pools : shared[a] = q /\ pool' = Released(q) /\ blocks' = Kept(q)
      <3>1. shared[a] \in Pools
        BY <1>1, <1>3, Known DEF Referents
      <3> QED  BY <1>1, <1>3, <3>1
    <2>2. PICK s \in [Allocators -> Referents] : s = [shared EXCEPT ![a] = MovedFrom]
      BY Known DEF Referents
    <2>3. /\ pool' \in [Pools -> Data]
          /\ \A r \in Pools : pool'[r].refcount = Cardinality(Users(s, r))
          /\ \A r \in Pools : pool'[r].refcount > 0 =>
               pool[r].refcount > 0 /\ pool'[r].chunks = pool[r].chunks
          /\ \A c \in blocks' : c \in blocks /\ pool'[c.pool].refcount > 0
      <3>1. PICK v \in {NoObject, MovedFrom} : v = MovedFrom
        OBVIOUS
      <3>2. s = [shared EXCEPT ![a] = v] /\ shared[a] = q
        BY <2>1, <2>2, <3>1
      <3>3. /\ Released(q) \in [Pools -> Data]
            /\ \A r \in Pools : Released(q)[r].refcount = Cardinality(Users(s, r))
            /\ \A r \in Pools : Released(q)[r].refcount > 0 =>
                 pool[r].refcount > 0 /\ Released(q)[r].chunks = pool[r].chunks
            /\ \A c \in Kept(q) : c \in blocks /\ Released(q)[c.pool].refcount > 0
        <4>1. \A r \in Pools : Released(q)[r].refcount = Cardinality(Users([shared EXCEPT ![a] = v], r))
          BY <3>2, Releases, ZenonT(60)
        <4>2. /\ Released(q) \in [Pools -> Data]
              /\ \A r \in Pools : Released(q)[r].refcount > 0 =>
                   pool[r].refcount > 0 /\ Released(q)[r].chunks = pool[r].chunks
              /\ \A c \in Kept(q) : c \in blocks /\ Released(q)[c.pool].refcount > 0
          BY <3>2, Releases, Zenon
        <4> QED  BY <3>2, <4>1, <4>2
      <3> QED  BY <2>1, <3>3, Zenon
    <2>4. s[a] \notin Pools
      BY <2>2, Known
    <2>5. CASE a = b
      <3>1. shared' = s
        BY <1>1, <2>2, <2>5
      <3>2. PoolTypeOK'
        BY <2>3, <3>1, Known DEF PoolTypeOK, Data, Referents
      <3> QED  BY <2>3, <3>1, <3>2, ObjectsKeep
    <2>6. CASE a # b
      <3>1. shared' = [s EXCEPT ![a] = s[b], ![b] = MovedFrom]
        BY <1>1, <2>2, <2>6, Known
      <3> QED  BY <2>3, <2>4, <2>6, <3>1, MovedKeeps
    <2> QED  BY <2>5, <2>6
  <1> QED  BY <1>2, <1>3

-----------------------------------------------------------------------------
LEMMA Within ==
    ASSUME NEW x \in Nat, NEW y \in Nat, NEW z \in Nat, x <= y, z >= y
    PROVE  x <= z
  OBVIOUS

\* Chunks that only grow, and one block that lies apart from those that remain.
LEMMA MemoryKeeps ==
    ASSUME PoolIInv, NEW p \in Pools, pool[p].refcount > 0, shared' = shared,
           NEW chunks \in Seq([capacity : Nat, size : Nat]), pool' = WithChunks(p, chunks),
           Len(chunks) >= 1, Len(chunks) >= Len(pool[p].chunks),
           \A i \in 1..Len(chunks) : chunks[i].size <= chunks[i].capacity,
           \A i \in 1..Len(pool[p].chunks) : chunks[i].size >= pool[p].chunks[i].size,
           NEW new \in Block, new.pool = p, new.chunk <= Len(chunks), new.asked > 0,
           new.at + new.size <= chunks[new.chunk].size, Align(new.asked) <= new.size,
           NEW rest \in SUBSET blocks, blocks' = rest \cup {new},
           \A c \in rest : c.pool = p /\ c.chunk = new.chunk => Apart(new, c)
    PROVE  PoolIInv'
  <1>1. /\ pool' \in [Pools -> Data]
        /\ pool'[p].chunks = chunks /\ pool'[p].refcount = pool[p].refcount
        /\ \A r \in Pools : r # p => pool'[r] = pool[r]
    BY Known DEF WithChunks, SharedData, Data
  <1>2. \A r \in Pools : pool'[r].refcount = pool[r].refcount
    BY <1>1
  <1>3. PoolTypeOK'
    BY <1>1, Known DEF PoolTypeOK, Data, Referents
  <1>4. PoolsAreCounted'
    <2>1. \A r \in Pools : pool'[r].refcount = Cardinality(Users(shared', r))
      BY <1>2, Known
    <2>2. \A c \in blocks' : c.pool \in Pools /\ pool'[c.pool].refcount > 0
      BY <1>2, Known
    <2> QED  BY <2>1, <2>2 DEF PoolsAreCounted, Living, Users
  <1>5. Chunked'
    <2> SUFFICES ASSUME NEW r \in Pools, pool'[r].refcount > 0
                 PROVE  /\ Len(pool'[r].chunks) >= 1
                        /\ \A i \in 1..Len(pool'[r].chunks) :
                             pool'[r].chunks[i].size <= pool'[r].chunks[i].capacity
      BY DEF Chunked, Living
    <2>1. CASE r = p
      BY <1>1, <2>1
    <2>2. CASE r # p
      BY <1>1, <2>2 DEF PoolIInv, Chunked, Living
    <2> QED  BY <2>1, <2>2
  <1>6. Lying'
    <2> SUFFICES ASSUME NEW c \in blocks'
                 PROVE  /\ c.chunk <= Len(pool'[c.pool].chunks)
                        /\ c.at + c.size <= pool'[c.pool].chunks[c.chunk].size
                        /\ c.asked > 0 /\ Align(c.asked) <= c.size
      BY DEF Lying, Align
    <2>1. CASE c = new
      BY <1>1, <2>1
    <2>2. CASE c \in blocks
      <3>1. /\ c.chunk <= Len(pool[c.pool].chunks)
            /\ c.at + c.size <= pool[c.pool].chunks[c.chunk].size
            /\ c.asked > 0 /\ Align(c.asked) <= c.size
        BY <2>2 DEF PoolIInv, Lying
      <3>2. CASE c.pool = p
        <4>1. /\ c.chunk \in Nat /\ c.chunk >= 1 /\ c.at \in Nat /\ c.size \in Nat
              /\ pool[p].chunks \in Seq([capacity : Nat, size : Nat])
          <5>1. c \in Block /\ pool[p] \in Data
            BY <2>2, Known
          <5> QED  BY <5>1, SMTT(30) DEF Block, Data
        <4>2. Len(pool[p].chunks) \in Nat /\ Len(chunks) \in Nat
          BY <4>1
        <4>3. c.chunk <= Len(pool[p].chunks)
          BY <3>1, <3>2
        <4>4. c.chunk \in 1..Len(pool[p].chunks) /\ c.chunk \in 1..Len(chunks)
          BY <4>1, <4>2, <4>3
        <4>5. pool[p].chunks[c.chunk] \in [capacity : Nat, size : Nat]
          BY <4>1, <4>4, ElementOfSeq
        <4>6. chunks[c.chunk] \in [capacity : Nat, size : Nat]
          BY <4>4, ElementOfSeq
        <4>7. chunks[c.chunk].size >= pool[p].chunks[c.chunk].size
          BY <4>4
        <4>8. c.at + c.size <= pool[p].chunks[c.chunk].size
          BY <3>1, <3>2
        <4>9. c.at + c.size <= chunks[c.chunk].size
          <5>1. pool[p].chunks[c.chunk].size \in Nat /\ chunks[c.chunk].size \in Nat
            BY <4>5, <4>6
          <5>2. c.at + c.size \in Nat
            BY <4>1, SMTT(30)
          <5> QED  BY <4>7, <4>8, <5>1, <5>2, Within, Zenon
        <4>10. pool'[c.pool].chunks = chunks
          BY <1>1, <3>2
        <4>11. c.chunk <= Len(chunks)
          BY <4>2, <4>4
        <4> QED  BY <3>1, <4>9, <4>10, <4>11
      <3>3. CASE c.pool # p
        BY <1>1, <2>2, <3>1, <3>3, Known
      <3> QED  BY <3>2, <3>3
    <2> QED  BY <2>1, <2>2
  <1>7. Distinct'
    <2> SUFFICES ASSUME NEW b \in blocks', NEW c \in blocks' \ {b},
                        c.pool = b.pool, c.chunk = b.chunk
                 PROVE  Apart(b, c)
      BY DEF Distinct, Apart
    <2>1. CASE b = new
      BY <2>1
    <2>2. CASE c = new
      BY <2>2 DEF Apart
    <2>3. CASE b \in blocks /\ c \in blocks
      BY <2>3 DEF PoolIInv, Distinct
    <2> QED  BY <2>1, <2>2, <2>3
  <1> QED  BY <1>3, <1>4, <1>5, <1>6, <1>7 DEF PoolIInv

\* What is known of the head of a pool that lives, and of the blocks in it.
LEMMA KnownHead ==
    ASSUME PoolIInv, NEW p \in Pools, pool[p].refcount > 0
    PROVE  /\ pool[p].chunks \in Seq([capacity : Nat, size : Nat])
           /\ HeadOf(p) \in 1..Len(pool[p].chunks) /\ HeadOf(p) \in Nat
           /\ pool[p].chunks[HeadOf(p)] \in [capacity : Nat, size : Nat]
           /\ \A i \in 1..Len(pool[p].chunks) :
                pool[p].chunks[i].size \in Nat /\ pool[p].chunks[i].size <= pool[p].chunks[i].capacity
           /\ \A c \in blocks : c.pool = p => c.chunk <= HeadOf(p)
           /\ \A c \in blocks : c.pool = p /\ c.chunk = HeadOf(p) =>
                c.at + c.size <= pool[p].chunks[HeadOf(p)].size
  <1>1. pool[p].chunks \in Seq([capacity : Nat, size : Nat]) /\ p \in Living
    BY Known DEF Data, Living
  <1>2. Len(pool[p].chunks) >= 1 /\ Len(pool[p].chunks) \in Nat
    BY <1>1 DEF PoolIInv, Chunked
  <1>3. HeadOf(p) \in Nat /\ HeadOf(p) \in 1..Len(pool[p].chunks)
    BY <1>2 DEF HeadOf
  <1>4. \A i \in 1..Len(pool[p].chunks) : pool[p].chunks[i] \in [capacity : Nat, size : Nat]
    BY <1>1, ElementOfSeq
  <1>5. \A i \in 1..Len(pool[p].chunks) : pool[p].chunks[i].size <= pool[p].chunks[i].capacity
    BY <1>1 DEF PoolIInv, Chunked
  <1>6. \A c \in blocks : c.pool = p => c.chunk <= HeadOf(p)
    BY DEF PoolIInv, Lying, HeadOf
  <1>7. \A c \in blocks : c.pool = p /\ c.chunk = HeadOf(p) =>
          c.at + c.size <= pool[p].chunks[HeadOf(p)].size
    BY DEF PoolIInv, Lying
  <1> QED  BY <1>1, <1>3, <1>4, <1>5, <1>6, <1>7

\* Taking from the head leaves everything else.
LEMMA TakenFromHead ==
    ASSUME PoolIInv, NEW p \in Pools, pool[p].refcount > 0, NEW n \in Nat, HasRoom(p, n)
    PROVE  /\ Taken(p, n) \in Seq([capacity : Nat, size : Nat])
           /\ Len(Taken(p, n)) = Len(pool[p].chunks)
           /\ Taken(p, n)[HeadOf(p)].size = pool[p].chunks[HeadOf(p)].size + n
           /\ \A i \in 1..Len(pool[p].chunks) :
                /\ Taken(p, n)[i].size <= Taken(p, n)[i].capacity
                /\ Taken(p, n)[i].size >= pool[p].chunks[i].size
  <1> DEFINE head == pool[p].chunks[HeadOf(p)]
             more == [capacity |-> head.capacity, size |-> head.size + n]
  <1>1. head \in [capacity : Nat, size : Nat] /\ more \in [capacity : Nat, size : Nat]
    BY KnownHead, SMTT(60)
  <1>2. Taken(p, n) = [pool[p].chunks EXCEPT ![HeadOf(p)] = more]
    BY DEF Taken
  <1>3. more.size = head.size + n /\ more.size <= more.capacity
    BY DEF HasRoom
  <1> HIDE DEF head, more
  <1>4. \A i \in 1..Len(pool[p].chunks) :
          Taken(p, n)[i] = IF i = HeadOf(p) THEN more ELSE pool[p].chunks[i]
    BY <1>2, KnownHead, SMTT(30)
  <1>5. Taken(p, n) \in Seq([capacity : Nat, size : Nat]) /\ Len(Taken(p, n)) = Len(pool[p].chunks)
    BY <1>1, <1>2, KnownHead
  <1>6. Taken(p, n)[HeadOf(p)].size = pool[p].chunks[HeadOf(p)].size + n
    BY <1>3, <1>4, KnownHead DEF head
  <1>7. ASSUME NEW i \in 1..Len(pool[p].chunks)
        PROVE  /\ Taken(p, n)[i].size <= Taken(p, n)[i].capacity
               /\ Taken(p, n)[i].size >= pool[p].chunks[i].size
    <2>1. CASE i = HeadOf(p)
      <3>1. Taken(p, n)[i] = more /\ pool[p].chunks[i] = head
        BY <1>4, <2>1 DEF head
      <3>2. head.size + n >= head.size
        BY <1>1
      <3> QED  BY <1>3, <3>1, <3>2
    <2>2. CASE i # HeadOf(p)
      <3>1. Taken(p, n)[i] = pool[p].chunks[i]
        BY <1>4, <2>2
      <3>2. pool[p].chunks[i].size \in Nat /\ pool[p].chunks[i].size <= pool[p].chunks[i].capacity
        BY KnownHead
      <3> QED  BY <3>1, <3>2
    <2> QED  BY <2>1, <2>2
  <1> QED  BY <1>5, <1>6, <1>7

\* A block taken from a pool, in place of those the caller gives up.
LEMMA AllocateKeeps ==
    ASSUME PoolIInv, NEW p \in Pools, pool[p].refcount > 0, shared' = shared,
           NEW asked \in Nat, asked > 0, NEW old \in SUBSET blocks, Allocate(p, asked, old)
    PROVE  PoolIInv'
  <1> DEFINE n == Align(asked)
             h == HeadOf(p)
  <1>1. n \in Nat /\ n >= asked
    BY AlignUp
  <1> HIDE DEF n
  <1>2. CASE HasRoom(p, n)
    <2> DEFINE new == BlockIn(p, h, pool[p].chunks[h].size, asked)
    <2>1. pool' = WithChunks(p, Taken(p, n)) /\ blocks' = (blocks \ old) \cup {new}
      BY <1>2 DEF Allocate, n
    <2>2. /\ new.pool = p /\ new.chunk = h /\ new.asked = asked /\ new.size = n
          /\ new.at = pool[p].chunks[h].size
      BY DEF BlockIn, n
    <2>3. pool[p].chunks[h].size \in Nat /\ h \in Nat \ {0} /\ h \in 1..Len(pool[p].chunks)
          /\ Len(pool[p].chunks) \in Nat
      BY KnownHead, SMTT(30)
    <2>4. new \in Block
      BY <1>1, <2>3 DEF BlockIn, Block, n
    <2>5. /\ Taken(p, n) \in Seq([capacity : Nat, size : Nat])
          /\ Len(Taken(p, n)) = Len(pool[p].chunks)
          /\ Taken(p, n)[h].size = pool[p].chunks[h].size + n
          /\ \A i \in 1..Len(pool[p].chunks) :
               /\ Taken(p, n)[i].size <= Taken(p, n)[i].capacity
               /\ Taken(p, n)[i].size >= pool[p].chunks[i].size
      BY <1>1, <1>2, TakenFromHead
    <2>6. \A c \in blocks : c.pool = p /\ c.chunk = new.chunk => Apart(new, c)
      BY <2>2, KnownHead DEF Apart
    <2>7. Len(Taken(p, n)) >= 1 /\ new.chunk <= Len(Taken(p, n))
          /\ new.at + new.size <= Taken(p, n)[new.chunk].size
          /\ Align(new.asked) <= new.size
      BY <1>1, <2>2, <2>3, <2>5, SMTT(60) DEF n
    <2>8. PICK rest \in SUBSET blocks : rest = blocks \ old
      OBVIOUS
    <2>9. PICK chunks \in Seq([capacity : Nat, size : Nat]) : chunks = Taken(p, n)
      BY <2>5
    <2> HIDE DEF new
    <2>10. /\ pool' = WithChunks(p, chunks)
           /\ Len(chunks) >= 1 /\ Len(chunks) >= Len(pool[p].chunks)
           /\ \A i \in 1..Len(chunks) : chunks[i].size <= chunks[i].capacity
           /\ \A i \in 1..Len(pool[p].chunks) : chunks[i].size >= pool[p].chunks[i].size
           /\ new \in Block /\ new.pool = p /\ new.chunk <= Len(chunks) /\ new.asked > 0
           /\ new.at + new.size <= chunks[new.chunk].size /\ Align(new.asked) <= new.size
           /\ blocks' = rest \cup {new}
           /\ \A c \in rest : c.pool = p /\ c.chunk = new.chunk => Apart(new, c)
      BY <2>1, <2>2, <2>3, <2>4, <2>5, <2>6, <2>7, <2>8, <2>9
    <2> QED  BY <2>10, MemoryKeeps, ZenonT(60)
  <1>3. CASE ~HasRoom(p, n) /\ pool' = WithChunks(p, TakenAnew(p, n))
               /\ blocks' = (blocks \ old) \cup {BlockIn(p, h + 1, 0, asked)}
    <2> DEFINE new == BlockIn(p, h + 1, 0, asked)
               chunk == [capacity |-> IF ChunkCapacity > n THEN ChunkCapacity ELSE n, size |-> n]
    <2>1. /\ new.pool = p /\ new.chunk = h + 1 /\ new.asked = asked /\ new.size = n /\ new.at = 0
      BY DEF BlockIn, n
    <2>2. chunk \in [capacity : Nat, size : Nat] /\ chunk.size = n /\ chunk.size <= chunk.capacity
      <3>1. ChunkCapacity \in Nat
        BY MemoryPoolAssumption, Zenon
      <3> QED  BY <1>1, <3>1
    <2>3. /\ h \in Nat \ {0} /\ h = Len(pool[p].chunks)
          /\ pool[p].chunks \in Seq([capacity : Nat, size : Nat])
          /\ \A i \in 1..h : pool[p].chunks[i].size \in Nat
                             /\ pool[p].chunks[i].size <= pool[p].chunks[i].capacity
          /\ \A c \in blocks : c.pool = p => c.chunk \in Nat /\ c.chunk <= h
      BY KnownHead, Known DEF HeadOf, Block
    <2>4. new \in Block
      BY <1>1, <2>3 DEF BlockIn, Block, n
    <2>5. TakenAnew(p, n) = Append(pool[p].chunks, chunk)
      BY DEF TakenAnew
    <2> HIDE DEF chunk, h
    <2>6. /\ TakenAnew(p, n) \in Seq([capacity : Nat, size : Nat])
          /\ Len(TakenAnew(p, n)) = h + 1
          /\ TakenAnew(p, n)[h + 1] = chunk
          /\ \A i \in 1..h : TakenAnew(p, n)[i] = pool[p].chunks[i]
      BY <2>2, <2>3, <2>5
    <2>7. \A i \in 1..Len(TakenAnew(p, n)) :
            TakenAnew(p, n)[i].size <= TakenAnew(p, n)[i].capacity
      <3> SUFFICES ASSUME NEW i \in 1..h + 1
                   PROVE  TakenAnew(p, n)[i].size <= TakenAnew(p, n)[i].capacity
        BY <2>6
      <3>1. CASE i = h + 1
        BY <2>2, <2>6, <3>1
      <3>2. CASE i \in 1..h
        BY <2>3, <2>6, <3>2
      <3> QED  BY <2>3, <3>1, <3>2
    <2>8. \A i \in 1..Len(pool[p].chunks) : TakenAnew(p, n)[i].size >= pool[p].chunks[i].size
      <3> SUFFICES ASSUME NEW i \in 1..h
                   PROVE  TakenAnew(p, n)[i].size >= pool[p].chunks[i].size
        BY <2>3
      <3>1. pool[p].chunks[i].size \in Nat /\ TakenAnew(p, n)[i] = pool[p].chunks[i]
        BY <2>3, <2>6
      <3> QED  BY <3>1
    <2>9. \A c \in blocks : c.pool = p /\ c.chunk = new.chunk => Apart(new, c)
      BY <2>1, <2>3
    <2>10. Align(new.asked) <= new.size /\ new.at + new.size <= TakenAnew(p, n)[new.chunk].size
      BY <1>1, <2>1, <2>2, <2>6 DEF n
    <2>11. new.chunk <= Len(TakenAnew(p, n)) /\ Len(TakenAnew(p, n)) >= 1
           /\ Len(TakenAnew(p, n)) >= Len(pool[p].chunks)
      <3>1. h + 1 >= h /\ h + 1 >= 1 /\ h + 1 <= h + 1
        BY <2>3
      <3> QED  BY <2>1, <2>3, <2>6, <3>1
    <2>12. blocks' = (blocks \ old) \cup {new}
      BY <1>3
    <2>13. PICK rest \in SUBSET blocks : rest = blocks \ old
      OBVIOUS
    <2>14. PICK chunks \in Seq([capacity : Nat, size : Nat]) : chunks = TakenAnew(p, n)
      BY <2>6
    <2> HIDE DEF new
    <2>15. /\ pool' = WithChunks(p, chunks)
           /\ Len(chunks) >= 1 /\ Len(chunks) >= Len(pool[p].chunks)
           /\ \A i \in 1..Len(chunks) : chunks[i].size <= chunks[i].capacity
           /\ \A i \in 1..Len(pool[p].chunks) : chunks[i].size >= pool[p].chunks[i].size
           /\ new \in Block /\ new.pool = p /\ new.chunk <= Len(chunks) /\ new.asked > 0
           /\ new.at + new.size <= chunks[new.chunk].size /\ Align(new.asked) <= new.size
           /\ blocks' = rest \cup {new}
           /\ \A c \in rest : c.pool = p /\ c.chunk = new.chunk => Apart(new, c)
      BY <1>3, <2>1, <2>4, <2>7, <2>8, <2>9, <2>10, <2>11, <2>12, <2>13, <2>14
    <2> QED  BY <2>15, MemoryKeeps, Zenon
  <1>4. CASE pool' = pool /\ blocks' = blocks
    BY <1>4 DEF PoolIInv, PoolTypeOK, PoolsAreCounted, Living, Chunked, Lying, Distinct, Apart, Align
  <1> QED  BY <1>2, <1>3, <1>4 DEF Allocate, n

\* Malloc takes a block.
LEMMA MallocKeeps ==
    ASSUME PoolIInv, NEW a \in Allocators, NEW asked \in Nat, Malloc(a, asked)
    PROVE  PoolIInv'
  <1>1. PICK p \in Pools : /\ shared[a] = p /\ asked > 0 /\ Allocate(p, asked, {})
                           /\ shared' = shared
    BY DEF Malloc, Serves
  <1>2. pool[p].refcount > 0
    BY <1>1, Known
  <1>3. {} \in SUBSET blocks
    OBVIOUS
  <1> QED  BY <1>1, <1>2, <1>3, AllocateKeeps, Zenon

\* Clear leaves an empty first chunk and no block.
LEMMA ClearKeeps ==
    ASSUME PoolIInv, NEW a \in Allocators, Clear(a)
    PROVE  PoolIInv'
  <1>1. PICK p \in Pools :
          /\ shared[a] = p /\ shared' = shared
          /\ pool' = WithChunks(p, <<Chunk(pool[p].chunks[1].capacity)>>)
          /\ blocks' = { b \in blocks : b.pool # p }
    BY DEF Clear, Serves
  <1>2. pool[p].refcount > 0 /\ pool[p].refcount \in Nat
    BY <1>1, Known DEF Data
  <1>3. pool[p].chunks[1].capacity \in Nat
    <2>1. pool[p].chunks \in Seq([capacity : Nat, size : Nat]) /\ 1 \in 1..Len(pool[p].chunks)
      BY <1>2, KnownHead
    <2>2. pool[p].chunks[1] \in [capacity : Nat, size : Nat]
      BY <2>1, ElementOfSeq
    <2> QED  BY <2>2
  <1>4. PICK chunks \in Seq([capacity : Nat, size : Nat]) :
          /\ chunks = <<Chunk(pool[p].chunks[1].capacity)>>
          /\ Len(chunks) = 1 /\ chunks[1].size = 0 /\ chunks[1].capacity \in Nat
    <2>1. PICK n \in Nat : n = pool[p].chunks[1].capacity
      BY <1>3
    <2>2. Chunk(n) \in [capacity : Nat, size : Nat] /\ Chunk(n).size = 0 /\ Chunk(n).capacity \in Nat
      BY DEF Chunk
    <2>3. <<Chunk(n)>> \in Seq([capacity : Nat, size : Nat])
      BY <2>2
    <2> QED  BY <2>1, <2>2, <2>3
  <1>5. /\ pool' \in [Pools -> Data]
        /\ pool'[p].chunks = chunks /\ pool'[p].refcount = pool[p].refcount
        /\ \A r \in Pools : r # p => pool'[r] = pool[r]
    BY <1>1, <1>2, <1>4, Known DEF WithChunks, SharedData, Data
  <1>6. \A r \in Pools : pool'[r].refcount = pool[r].refcount
    BY <1>5
  <1>7. PoolTypeOK'
    BY <1>1, <1>5, Known DEF PoolTypeOK, Data, Referents
  <1>8. \A c \in blocks' : c \in blocks /\ c.pool \in Pools /\ c.pool # p
                           /\ pool'[c.pool] = pool[c.pool] /\ pool'[c.pool].refcount > 0
    BY <1>1, <1>5, Known
  <1>9. PoolsAreCounted'
    <2>1. \A r \in Pools : pool'[r].refcount = Cardinality(Users(shared', r))
      BY <1>1, <1>6, Known
    <2> QED  BY <1>8, <2>1 DEF PoolsAreCounted, Living, Users
  <1>10. Chunked'
    <2> SUFFICES ASSUME NEW r \in Pools, pool'[r].refcount > 0
                 PROVE  /\ Len(pool'[r].chunks) >= 1
                        /\ \A i \in 1..Len(pool'[r].chunks) :
                             pool'[r].chunks[i].size <= pool'[r].chunks[i].capacity
      BY DEF Chunked, Living
    <2>1. CASE r = p
      <3>1. \A i \in 1..Len(chunks) : i = 1
        BY <1>4
      <3>2. 0 <= chunks[1].capacity
        BY <1>4
      <3>3. \A i \in 1..Len(chunks) : chunks[i].size <= chunks[i].capacity
        BY <1>4, <3>1, <3>2
      <3>4. pool'[r].chunks = chunks /\ Len(chunks) >= 1
        BY <1>4, <1>5, <2>1
      <3> QED  BY <3>3, <3>4, Zenon
    <2>2. CASE r # p
      BY <1>5, <2>2 DEF PoolIInv, Chunked, Living
    <2> QED  BY <2>1, <2>2
  <1>11. Lying' /\ Distinct'
    BY <1>8, BlocksStay
  <1> QED  BY <1>7, <1>9, <1>10, <1>11 DEF PoolIInv

\* A block of which more or less is used where it lies, in chunks that only grew.
InPlace(b, asked, size, chunks) ==
    /\ asked > 0 /\ Align(asked) <= size
    /\ pool' = WithChunks(b.pool, chunks)
    /\ Len(chunks) = Len(pool[b.pool].chunks)
    /\ \A i \in 1..Len(chunks) : chunks[i].size <= chunks[i].capacity
                                /\ chunks[i].size >= pool[b.pool].chunks[i].size
    /\ b.at + size <= chunks[b.chunk].size
    /\ blocks' = (blocks \ {b}) \cup {Resized(b, asked, size)}
    /\ \A c \in blocks \ {b} : c.pool = b.pool /\ c.chunk = b.chunk =>
         Apart(Resized(b, asked, size), c)

\* A block that keeps its place.
LEMMA ResizedKeeps ==
    ASSUME PoolIInv, NEW b \in blocks, shared' = shared, NEW asked \in Nat, NEW size \in Nat,
           NEW chunks \in Seq([capacity : Nat, size : Nat]), InPlace(b, asked, size, chunks)
    PROVE  PoolIInv'
  <1> DEFINE new == Resized(b, asked, size)
  <1>1. b \in Block /\ b.pool \in Pools /\ pool[b.pool].refcount > 0
    BY Known
  <1>2. new \in Block /\ new.pool = b.pool /\ new.chunk = b.chunk /\ new.at = b.at
        /\ new.asked = asked /\ new.size = size
    BY <1>1 DEF Resized, Block
  <1>3. b.chunk <= Len(pool[b.pool].chunks)
    BY DEF PoolIInv, Lying
  <1>4. Len(pool[b.pool].chunks) \in Nat /\ Len(pool[b.pool].chunks) >= 1
    BY <1>1, KnownHead, SMTT(60)
  <1>5. PICK rest \in SUBSET blocks : rest = blocks \ {b}
    OBVIOUS
  <1>6. PICK p \in Pools : p = b.pool
    BY <1>1
  <1> HIDE DEF new
  <1>7. /\ pool[p].refcount > 0 /\ pool' = WithChunks(p, chunks)
        /\ Len(chunks) >= 1 /\ Len(chunks) >= Len(pool[p].chunks)
        /\ \A i \in 1..Len(chunks) : chunks[i].size <= chunks[i].capacity
        /\ \A i \in 1..Len(pool[p].chunks) : chunks[i].size >= pool[p].chunks[i].size
        /\ new \in Block /\ new.pool = p /\ new.chunk <= Len(chunks) /\ new.asked > 0
        /\ new.at + new.size <= chunks[new.chunk].size /\ Align(new.asked) <= new.size
    BY <1>1, <1>2, <1>3, <1>4, <1>6 DEF InPlace
  <1>8. /\ blocks' = rest \cup {new}
        /\ \A c \in rest : c.pool = p /\ c.chunk = new.chunk => Apart(new, c)
    <2>1. blocks' = rest \cup {new}
      BY <1>5 DEF new, InPlace
    <2>2. ASSUME NEW c \in rest, c.pool = p, c.chunk = new.chunk PROVE Apart(new, c)
      <3>1. c \in blocks \ {b} /\ c.pool = b.pool /\ c.chunk = b.chunk
        BY <1>2, <1>5, <1>6, <2>2
      <3> QED  BY <3>1, Zenon DEF new, InPlace
    <2>3. \A c \in rest : c.pool = p /\ c.chunk = new.chunk => Apart(new, c)
      BY <2>2, Zenon
    <2> QED  BY <2>1, <2>3, Zenon
  <1>9. /\ pool' = WithChunks(p, chunks)
        /\ Len(chunks) >= 1 /\ Len(chunks) >= Len(pool[p].chunks)
        /\ \A i \in 1..Len(chunks) : chunks[i].size <= chunks[i].capacity
        /\ \A i \in 1..Len(pool[p].chunks) : chunks[i].size >= pool[p].chunks[i].size
        /\ new \in Block /\ new.pool = p /\ new.chunk <= Len(chunks) /\ new.asked > 0
        /\ new.at + new.size <= chunks[new.chunk].size /\ Align(new.asked) <= new.size
        /\ blocks' = rest \cup {new}
        /\ \A c \in rest : c.pool = p /\ c.chunk = new.chunk => Apart(new, c)
    BY <1>7, <1>8
  <1>10. pool[p].refcount > 0
    BY <1>7
  <1> QED  BY <1>9, <1>10, MemoryKeeps, Zenon

\* Realloc: nothing is kept, the block stays, it grows at the head's end, or is taken anew.
LEMMA ReallocKeeps ==
    ASSUME PoolIInv, NEW a \in Allocators, NEW b \in blocks, NEW asked \in Nat,
           Realloc(a, b, asked)
    PROVE  PoolIInv'
  <1> DEFINE more == Align(asked) - Align(b.asked)
  <1>1. /\ shared' = shared /\ b \in Block /\ b.pool \in Pools /\ pool[b.pool].refcount > 0
        /\ b.asked \in Nat /\ b.at \in Nat /\ b.size \in Nat /\ b.chunk \in Nat \ {0}
    BY Known DEF Realloc, Block
  <1>2. Align(asked) \in Nat /\ Align(b.asked) \in Nat /\ Align(asked) >= asked
    BY <1>1, AlignUp
  <1>3. /\ b.chunk <= Len(pool[b.pool].chunks)
        /\ b.at + b.size <= pool[b.pool].chunks[b.chunk].size
        /\ Align(b.asked) <= b.size
    BY DEF PoolIInv, Lying
  <1>4. CASE asked = 0
    <2>1. blocks' = blocks \ {b} /\ pool' = pool
      <3>1. ~(asked > 0)
        BY <1>4
      <3> QED  BY <1>2, <1>4, <3>1 DEF Realloc
    <2>2. PoolTypeOK'
      BY <1>1, <2>1, Known DEF PoolTypeOK, Data, Referents
    <2>3. \A c \in blocks' : c \in blocks /\ pool'[c.pool].refcount > 0
      BY <2>1, Known
    <2>4. \A r \in Pools : pool'[r].refcount = Cardinality(Users(shared', r))
      BY <1>1, <2>1, Known
    <2> QED  BY <2>1, <2>2, <2>3, <2>4, ObjectsKeep
  <1>5. CASE asked > 0 /\ more <= 0
    <2>1. blocks' = (blocks \ {b}) \cup {Resized(b, asked, b.size)} /\ pool' = pool
      <3>1. asked # 0 /\ ~(more > 0)
        BY <1>2, <1>5
      <3> QED  BY <1>5, <3>1 DEF Realloc
    <2>2. PICK chunks \in Seq([capacity : Nat, size : Nat]) : chunks = pool[b.pool].chunks
      BY <1>1, KnownHead
    <2>3. pool' = WithChunks(b.pool, chunks)
      BY <1>1, <2>1, <2>2, Known DEF WithChunks, SharedData, Data
    <2>4. \A i \in 1..Len(chunks) : chunks[i].size <= chunks[i].capacity
                                      /\ chunks[i].size >= pool[b.pool].chunks[i].size
      <3> SUFFICES ASSUME NEW i \in 1..Len(chunks)
                   PROVE  chunks[i].size <= chunks[i].capacity
                          /\ chunks[i].size >= pool[b.pool].chunks[i].size
        OBVIOUS
      <3>1. chunks[i].size \in Nat /\ chunks[i].size <= chunks[i].capacity
        BY <1>1, <2>2, KnownHead
      <3> QED  BY <2>2, <3>1, SMTT(60)
    <2>5. Align(asked) <= b.size /\ b.at + b.size <= chunks[b.chunk].size
      BY <1>1, <1>2, <1>3, <1>5, <2>2
    <2>6. ASSUME NEW c \in blocks \ {b}, c.pool = b.pool, c.chunk = b.chunk
          PROVE  Apart(Resized(b, asked, b.size), c)
      <3>1. Apart(b, c)
        BY <2>6 DEF PoolIInv, Distinct
      <3> QED  BY <3>1 DEF Apart, Resized
    <2>7. \A c \in blocks \ {b} : c.pool = b.pool /\ c.chunk = b.chunk =>
            Apart(Resized(b, asked, b.size), c)
      BY <2>6, Zenon
    <2>8. Len(chunks) = Len(pool[b.pool].chunks) /\ asked > 0 /\ b.size \in Nat
      BY <1>1, <1>5, <2>2
    <2>9. shared' = shared
      BY <1>1
    <2>10. InPlace(b, asked, b.size, chunks)
      BY <2>1, <2>2, <2>3, <2>4, <2>5, <2>7, <2>8, Zenon DEF InPlace
    <2> QED  BY <2>8, <2>9, <2>10, ResizedKeeps, Zenon
  <1>6. CASE more > 0 /\ asked > 0 /\ GrowsInPlace(b, more)
    <2>1. /\ pool' = WithChunks(b.pool, Taken(b.pool, more))
          /\ blocks' = (blocks \ {b}) \cup {Resized(b, asked, Align(asked))}
      BY <1>6 DEF Realloc
    <2>2. /\ b.chunk = HeadOf(b.pool) /\ HasRoom(b.pool, more)
          /\ b.at + Align(b.asked) = pool[b.pool].chunks[b.chunk].size
      BY <1>6 DEF GrowsInPlace
    <2>3. more \in Nat
      BY <1>2, <1>6
    <2>4. /\ Taken(b.pool, more) \in Seq([capacity : Nat, size : Nat])
          /\ Len(Taken(b.pool, more)) = Len(pool[b.pool].chunks)
          /\ Taken(b.pool, more)[b.chunk].size = pool[b.pool].chunks[b.chunk].size + more
          /\ \A i \in 1..Len(pool[b.pool].chunks) :
               /\ Taken(b.pool, more)[i].size <= Taken(b.pool, more)[i].capacity
               /\ Taken(b.pool, more)[i].size >= pool[b.pool].chunks[i].size
      BY <1>1, <2>2, <2>3, TakenFromHead
    <2>5. PICK chunks \in Seq([capacity : Nat, size : Nat]) : chunks = Taken(b.pool, more)
      BY <2>4
    <2>6. b.size = Align(b.asked) /\ b.at + b.size = pool[b.pool].chunks[b.chunk].size
      <3>1. b.at + b.size <= b.at + Align(b.asked)
        BY <1>3, <2>2
      <3> QED  BY <1>1, <1>2, <1>3, <2>2, <3>1
    <2>7. b.at + Align(asked) <= chunks[b.chunk].size
      <3>1. chunks[b.chunk].size = b.at + Align(b.asked) + more
        BY <2>2, <2>4, <2>5
      <3> QED  BY <1>1, <1>2, <3>1, SMTT(60)
    <2>8. ASSUME NEW c \in blocks \ {b}, c.pool = b.pool, c.chunk = b.chunk
          PROVE  Apart(Resized(b, asked, Align(asked)), c)
      <3>1. Apart(b, c)
        BY <2>8 DEF PoolIInv, Distinct
      <3>2. /\ c.at \in Nat /\ c.size \in Nat /\ c.at + c.size <= b.at + b.size
            /\ c.size > 0
        <4>1. c \in Block
          BY Known
        <4>2. c.at \in Nat /\ c.size \in Nat /\ c.asked \in Nat
          BY <4>1 DEF Block
        <4>3. c.at + c.size <= pool[b.pool].chunks[b.chunk].size
              /\ c.asked > 0 /\ Align(c.asked) <= c.size
          BY <2>8 DEF PoolIInv, Lying
        <4>4. Align(c.asked) >= c.asked /\ Align(c.asked) \in Nat
          BY <4>2, AlignUp
        <4> QED  BY <2>6, <4>2, <4>3, <4>4
      <3>3. c.at + c.size <= b.at
        BY <1>1, <3>1, <3>2 DEF Apart
      <3> QED  BY <3>3 DEF Apart, Resized
    <2>9. \A c \in blocks \ {b} : c.pool = b.pool /\ c.chunk = b.chunk =>
            Apart(Resized(b, asked, Align(asked)), c)
      BY <2>8, Zenon
    <2>10. PICK size \in Nat : size = Align(asked)
      BY <1>2
    <2>11. /\ shared' = shared /\ asked > 0 /\ Align(asked) <= size
           /\ pool' = WithChunks(b.pool, chunks)
           /\ Len(chunks) = Len(pool[b.pool].chunks)
           /\ \A i \in 1..Len(chunks) : chunks[i].size <= chunks[i].capacity
                                           /\ chunks[i].size >= pool[b.pool].chunks[i].size
           /\ b.at + size <= chunks[b.chunk].size
           /\ blocks' = (blocks \ {b}) \cup {Resized(b, asked, size)}
      BY <1>1, <1>6, <2>1, <2>4, <2>5, <2>7, <2>10, SMTT(30)
    <2>12. \A c \in blocks \ {b} : c.pool = b.pool /\ c.chunk = b.chunk =>
             Apart(Resized(b, asked, size), c)
      BY <2>9, <2>10, Zenon
    <2>13. InPlace(b, asked, size, chunks)
      BY <2>11, <2>12, Zenon DEF InPlace
    <2> QED  BY <2>11, <2>13, ResizedKeeps, Zenon
  <1>7. CASE asked > 0 /\ Allocate(b.pool, asked, {b})
    <2>1. {b} \in SUBSET blocks
      OBVIOUS
    <2>2. PICK p \in Pools : p = b.pool
      BY <1>1
    <2>3. /\ pool[p].refcount > 0 /\ shared' = shared /\ asked > 0
          /\ Allocate(p, asked, {b})
      BY <1>1, <1>7, <2>2
    <2> QED  BY <2>1, <2>3, AllocateKeeps, Zenon
  <1> QED  BY <1>2, <1>4, <1>5, <1>6, <1>7 DEF Realloc

-----------------------------------------------------------------------------
\* Every step keeps the invariant.
LEMMA PoolContinues == PoolIInv /\ [PoolNext]_poolVars => PoolIInv'
  <1> SUFFICES ASSUME PoolIInv, [PoolNext]_poolVars PROVE PoolIInv'
    OBVIOUS
  <1>1. CASE UNCHANGED poolVars
    BY <1>1 DEF poolVars, PoolIInv, PoolTypeOK, PoolsAreCounted, Living, Chunked, Lying,
                Distinct, Apart, Align
  <1>2. ASSUME NEW a \in Allocators, NEW p \in Pools, NEW capacity \in {0} \cup Buffers,
               Construct(a, p, capacity)
        PROVE  PoolIInv'
    <2>1. capacity \in Nat
      <3>1. Buffers \subseteq Nat
        BY MemoryPoolAssumption, Zenon
      <3> QED  BY <3>1
    <2> QED  BY <1>2, <2>1, ConstructKeeps
  <1>3. ASSUME NEW a \in Allocators, NEW b \in Allocators,
               Copy(a, b) \/ Move(a, b) \/ Assign(a, b) \/ MoveAssign(a, b)
        PROVE  PoolIInv'
    BY <1>3, CopyKeeps, MoveKeeps, AssignKeeps, MoveAssignKeeps
  <1>4. ASSUME NEW a \in Allocators, Destroy(a) \/ Clear(a) PROVE PoolIInv'
    BY <1>4, DestroyKeeps, ClearKeeps
  <1>5. ASSUME NEW a \in Allocators, NEW n \in Sizes,
               Malloc(a, n) \/ \E b \in blocks : Realloc(a, b, n)
        PROVE  PoolIInv'
    <2>1. n \in Nat
      BY MemoryPoolAssumption
    <2> QED  BY <1>5, <2>1, MallocKeeps, ReallocKeeps
  <1> QED  BY <1>1, <1>2, <1>3, <1>4, <1>5, Zenon DEF PoolNext

\* The invariant says that blocks lie apart, in their chunks, and are long enough.
LEMMA PoolIInvKeepsApart == PoolIInv => BlocksApart
  <1> SUFFICES ASSUME PoolIInv, NEW b \in blocks
               PROVE  /\ b.chunk <= HeadOf(b.pool)
                      /\ b.at + b.size <= pool[b.pool].chunks[b.chunk].capacity
                      /\ b.asked <= b.size
                      /\ \A c \in blocks \ {b} :
                           c.pool = b.pool /\ c.chunk = b.chunk => Apart(b, c)
    BY DEF BlocksApart
  <1>1. b \in Block /\ b.pool \in Pools /\ pool[b.pool].refcount > 0
    BY Known
  <1>2. /\ b.chunk \in Nat \ {0} /\ b.at \in Nat /\ b.size \in Nat /\ b.asked \in Nat
    BY <1>1 DEF Block
  <1>3. /\ b.chunk <= Len(pool[b.pool].chunks)
        /\ b.at + b.size <= pool[b.pool].chunks[b.chunk].size
        /\ Align(b.asked) <= b.size
    BY DEF PoolIInv, Lying
  <1>4. Align(b.asked) \in Nat /\ Align(b.asked) >= b.asked
    BY <1>2, AlignUp
  <1>5. /\ Len(pool[b.pool].chunks) \in Nat
        /\ pool[b.pool].chunks \in Seq([capacity : Nat, size : Nat])
    BY <1>1, KnownHead
  <1>6. b.chunk \in 1..Len(pool[b.pool].chunks)
    BY <1>2, <1>3, <1>5
  <1>7. pool[b.pool].chunks[b.chunk] \in [capacity : Nat, size : Nat]
    BY <1>5, <1>6, ElementOfSeq
  <1>8. pool[b.pool].chunks[b.chunk].size <= pool[b.pool].chunks[b.chunk].capacity
    BY <1>1, <1>6, KnownHead
  <1>9. b.at + b.size <= pool[b.pool].chunks[b.chunk].capacity
    <2>1. PICK x \in Nat, y \in Nat, z \in Nat :
            /\ x = b.at + b.size /\ y = pool[b.pool].chunks[b.chunk].size
            /\ z = pool[b.pool].chunks[b.chunk].capacity
      BY <1>2, <1>7
    <2> QED  BY <1>3, <1>8, <2>1
  <1>10. b.asked <= b.size
    BY <1>2, <1>3, <1>4
  <1>11. \A c \in blocks \ {b} : c.pool = b.pool /\ c.chunk = b.chunk => Apart(b, c)
    BY DEF PoolIInv, Distinct
  <1> QED  BY <1>3, <1>9, <1>10, <1>11 DEF HeadOf

\* The allocator keeps its invariant (allocators.h:165-422).
THEOREM PoolInvariant == PoolSpec => []PoolIInv
  BY PoolBegins, PoolContinues, PTL DEF PoolSpec

\* Every block lies in its chunk, and apart from every other, whatever the sizes,
\* capacities and number of allocators (allocators.h:280-291, 324-409).
THEOREM BlocksAreApart == PoolSpec => []BlocksApart
  BY PoolInvariant, PoolIInvKeepsApart, PTL

\* A pool's count is the number of its allocators, and its blocks die with it, however
\* many allocators share how many pools (allocators.h:215-277).
THEOREM ReferencesAreCounted == PoolSpec => []PoolsAreCounted
  <1>1. PoolIInv => PoolsAreCounted
    BY DEF PoolIInv
  <1> QED  BY <1>1, PoolInvariant, PTL
=============================================================================

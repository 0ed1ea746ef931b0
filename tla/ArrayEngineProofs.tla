-------------------------- MODULE ArrayEngineProofs -------------------------
(***************************************************************************)
(* Theorems about the array engine, for every table size, every set of     *)
(* keys and values, and every sequence of calls.                           *)
(***************************************************************************)
EXTENDS ArrayEngine, TLAPS, FiniteSetTheorems, WellFoundedInduction

\* A non-empty set of natural numbers has the minimum that the first match
\* of a scan is.
LEMMA MinOfNaturals ==
  ASSUME NEW S, S \subseteq Nat, S # {}
  PROVE  Min(S) \in S /\ \A y \in S : Min(S) <= y
<1>1. PICK x \in S : \A y \in S : ~(<<y, x>> \in OpToRel(<, Nat))
  BY NatLessThanWellFounded, WFMin, Zenon
<1>2. \A y \in S : y < x => <<y, x>> \in OpToRel(<, Nat)
  <2> SUFFICES ASSUME NEW y \in S, y < x PROVE <<y, x>> \in OpToRel(<, Nat)
    BY Zenon
  <2>1. <<y, x>> \in Nat \X Nat /\ <<y, x>>[1] < <<y, x>>[2]
    OBVIOUS
  <2> QED
    BY <2>1 DEF OpToRel
<1>3. \A y \in S : ~(y < x)
  BY <1>1, <1>2, Zenon
<1>4. \A y \in S : x <= y
  BY <1>3
<1> QED
  BY <1>4, Zenon DEF Min

-----------------------------------------------------------------------------
(* The inductive invariant, as a predicate on the table.                   *)

\* Memory is written from the bottom up: above an untouched entry all are.
WrittenPrefix(arr) ==
  \A m, n \in Slot : m < n /\ KeyAt(arr, m) = Uninit => KeyAt(arr, n) = Uninit

Sound(arr) ==
  /\ arr \in ArrayType
  /\ arr.array_idx = Cardinality(Occupied(arr))
  /\ \A n \in Scanned(arr) : KeyAt(arr, n) # Uninit
  /\ WrittenPrefix(arr)
  /\ \A n \in Occupied(arr) : arr.array_table[n].value \in Value

LEMMA SoundBasics ==
  ASSUME NEW arr, Sound(arr)
  PROVE  /\ arr.array_idx \in 0 .. KVS_ARRAY_SIZE
         /\ Scanned(arr) \subseteq Slot /\ Occupied(arr) \subseteq Slot /\ Slot \subseteq Nat
         /\ IsFiniteSet(Slot) /\ IsFiniteSet(Occupied(arr))
         /\ IsFiniteSet(Scanned(arr)) /\ Cardinality(Scanned(arr)) = arr.array_idx
         /\ \A n \in Slot : KeyAt(arr, n) \in Key \cup {NULL, Uninit}
<1> USE ArraySizeAssumption
<1>1. arr.array_idx \in 0 .. KVS_ARRAY_SIZE
  BY DEF Sound, ArrayType
<1>2. Scanned(arr) \subseteq Slot /\ Occupied(arr) \subseteq Slot /\ Slot \subseteq Nat
  BY <1>1 DEF Scanned, Occupied, Slot
<1>3. IsFiniteSet(Slot)
  BY FS_Interval DEF Slot
<1>4. IsFiniteSet(Occupied(arr))
  BY <1>2, <1>3, FS_Subset
<1>5. IsFiniteSet(Scanned(arr)) /\ Cardinality(Scanned(arr)) = arr.array_idx
  <2>1. 0 \in Int /\ arr.array_idx - 1 \in Int
    BY <1>1
  <2>2. /\ IsFiniteSet(0 .. arr.array_idx - 1)
        /\ Cardinality(0 .. arr.array_idx - 1)
             = IF 0 > arr.array_idx - 1 THEN 0 ELSE arr.array_idx - 1 - 0 + 1
    BY <2>1, FS_Interval, Zenon
  <2> QED
    BY <1>1, <2>2 DEF Scanned
<1>6. \A n \in Slot : KeyAt(arr, n) \in Key \cup {NULL, Uninit}
  BY DEF Sound, ArrayType, KeyAt
<1> QED
  BY <1>1, <1>2, <1>3, <1>4, <1>5, <1>6

\* What one assignment to an entry, and to the index, does.
LEMMA PutFacts ==
  ASSUME NEW arr \in ArrayType, NEW n \in Slot,
         NEW k \in Key \cup {NULL}, NEW v \in Value \cup {NULL},
         NEW d \in Int, arr.array_idx + d \in 0 .. KVS_ARRAY_SIZE
  PROVE  LET new == Moved(Put(arr, n, Item(k, v)), d)
         IN  /\ new \in ArrayType
             /\ new.array_idx = arr.array_idx + d
             /\ KeyAt(new, n) = k /\ new.array_table[n].value = v
             /\ \A m \in Slot : m # n => /\ KeyAt(new, m) = KeyAt(arr, m)
                                         /\ new.array_table[m] = arr.array_table[m]
<1> DEFINE new == Moved(Put(arr, n, Item(k, v)), d)
<1> DEFINE table == [arr.array_table EXCEPT ![n] = Item(k, v)]
<1>1. new = [array_table |-> table, array_idx |-> arr.array_idx + d]
  BY DEF Moved, Put
<1>2. table \in [Slot -> [key : Key \cup {NULL, Uninit}, value : Value \cup {NULL, Uninit}]]
  BY DEF ArrayType, Item
<1>3. table[n] = Item(k, v) /\ \A m \in Slot : m # n => table[m] = arr.array_table[m]
  BY DEF ArrayType
<1>4. Item(k, v).key = k /\ Item(k, v).value = v
  BY DEF Item
<1> HIDE DEF table
<1>5. new \in ArrayType
  BY <1>1, <1>2 DEF ArrayType
<1> QED
  BY <1>1, <1>3, <1>4, <1>5 DEF KeyAt

LEMMA FullPrefix ==
  ASSUME NEW arr, Sound(arr), Holes(arr) = {}
  PROVE  Occupied(arr) = Scanned(arr)
<1>1. Scanned(arr) \subseteq Occupied(arr)
  BY SoundBasics, Zenon DEF Sound, Holes, Stops, Occupied
<1>2. Cardinality(Scanned(arr)) = Cardinality(Occupied(arr))
  BY SoundBasics DEF Sound
<1> QED
  BY <1>1, <1>2, SoundBasics, FS_Subset

\* While there is a hole below the index, some entry lies behind the index,
\* and so the entry at the index has been written.
LEMMA EntryBehindHole ==
  ASSUME NEW arr, Sound(arr), Holes(arr) # {}
  PROVE  arr.array_idx \in Slot /\ KeyAt(arr, arr.array_idx) # Uninit
<1>1. PICK h \in Scanned(arr) : KeyAt(arr, h) = NULL
  BY DEF Holes, Stops
<1>2. IsFiniteSet(Scanned(arr) \ {h}) /\ Cardinality(Scanned(arr) \ {h}) = arr.array_idx - 1
  BY SoundBasics, FS_RemoveElement
<1>3. PICK j \in Occupied(arr) : j \notin Scanned(arr)
  <2> SUFFICES ASSUME Occupied(arr) \subseteq Scanned(arr) PROVE FALSE
    OBVIOUS
  <2>1. Occupied(arr) \subseteq Scanned(arr) \ {h}
    BY <1>1 DEF Occupied
  <2>2. Cardinality(Occupied(arr)) <= arr.array_idx - 1
    BY <1>2, <2>1, FS_Subset
  <2> QED
    BY <2>2, SoundBasics DEF Sound
<1>4. j \in Slot /\ j >= arr.array_idx /\ KeyAt(arr, j) # Uninit
  <2>1. j \in Slot /\ KeyAt(arr, j) # Uninit
    BY <1>3 DEF Occupied
  <2>2. arr.array_idx \in 0 .. KVS_ARRAY_SIZE
    BY SoundBasics
  <2> QED
    BY <1>3, <2>1, <2>2, ArraySizeAssumption DEF Scanned, Slot
<1>5. arr.array_idx \in Slot
  BY <1>4, SoundBasics, ArraySizeAssumption DEF Slot
<1> QED
  BY <1>4, <1>5, SoundBasics DEF Sound, WrittenPrefix, Slot

-----------------------------------------------------------------------------
(* Every call keeps the table sound.                                       *)

LEMMA SetSound ==
  ASSUME NEW arr, Sound(arr), NEW k \in Key \cup {NULL}, NEW v \in Value \cup {NULL},
         NEW mem \in BOOLEAN
  PROVE  Sound(kvs_array_set(arr, k, v, mem).arr)
<1> DEFINE n == IF Holes(arr) # {} THEN Min(Holes(arr)) ELSE arr.array_idx
           new == Moved(Put(arr, n, Item(k, v)), 1)
<1>1. CASE k = NULL \/ v = NULL \/ arr.array_idx = KVS_ARRAY_SIZE \/ ~mem
  BY <1>1 DEF kvs_array_set, Returns
<1>2. CASE k # NULL /\ v # NULL /\ arr.array_idx # KVS_ARRAY_SIZE /\ mem
  <2>1. kvs_array_set(arr, k, v, mem).arr = new
    BY <1>2 DEF kvs_array_set, Returns
  <2>2. arr.array_idx \in Slot /\ arr.array_idx + 1 \in 0 .. KVS_ARRAY_SIZE
    BY <1>2, SoundBasics, ArraySizeAssumption DEF Slot
  <2>3. n \in Slot /\ n \notin Occupied(arr) /\ n <= arr.array_idx
    <3>1. CASE Holes(arr) # {}
      <4>1. Min(Holes(arr)) \in Holes(arr)
        BY <3>1, SoundBasics, MinOfNaturals DEF Holes, Stops
      <4>2. n \in Scanned(arr) /\ KeyAt(arr, n) = NULL
        BY <3>1, <4>1 DEF Holes, Stops
      <4>3. n <= arr.array_idx
        BY <4>2, <2>2, ArraySizeAssumption DEF Scanned, Slot
      <4> QED
        BY <4>2, <4>3, SoundBasics, Zenon DEF Occupied
    <3>2. CASE Holes(arr) = {}
      BY <3>2, <2>2, FullPrefix, SoundBasics DEF Scanned
    <3> QED
      BY <3>1, <3>2
  <2>4. n # arr.array_idx => KeyAt(arr, arr.array_idx) # Uninit
    BY EntryBehindHole
  <2> HIDE DEF n
  <2>5. /\ new \in ArrayType
        /\ new.array_idx = arr.array_idx + 1
        /\ KeyAt(new, n) = k /\ new.array_table[n].value = v
        /\ \A m \in Slot : m # n => /\ KeyAt(new, m) = KeyAt(arr, m)
                                    /\ new.array_table[m] = arr.array_table[m]
    BY <2>2, <2>3, PutFacts DEF Sound
  <2> HIDE DEF new
  <2>6. k \in Key /\ v \in Value /\ k # Uninit
    BY <1>2, ArrayValuesAssumption
  <2>7. Occupied(new) = Occupied(arr) \cup {n}
    BY <2>3, <2>5, <2>6, <1>2 DEF Occupied
  <2>8. new.array_idx = Cardinality(Occupied(new))
    <3>1. Cardinality(Occupied(arr) \cup {n}) = Cardinality(Occupied(arr)) + 1
      BY <2>3, SoundBasics, FS_AddElement, Zenon
    <3> QED
      BY <2>5, <2>7, <3>1 DEF Sound
  <2>9. \A m \in Scanned(new) : KeyAt(new, m) # Uninit
    <3> SUFFICES ASSUME NEW m \in Scanned(new) PROVE KeyAt(new, m) # Uninit
      OBVIOUS
    <3>1. m \in Slot /\ (m \in Scanned(arr) \/ m = arr.array_idx)
      BY <2>2, <2>5, SoundBasics DEF Scanned, Slot
    <3> QED
      BY <2>4, <2>5, <2>6, <3>1 DEF Sound
  <2>10. WrittenPrefix(new)
    <3> SUFFICES ASSUME NEW m \in Slot, NEW q \in Slot, m < q, KeyAt(new, m) = Uninit
                 PROVE  KeyAt(new, q) = Uninit
      BY DEF WrittenPrefix
    <3>1. m # n /\ KeyAt(arr, m) = Uninit
      BY <2>5, <2>6
    <3>2. m \notin Scanned(arr)
      BY <3>1 DEF Sound
    <3>3. q # n
      BY <2>3, <3>2, SoundBasics DEF Scanned, Slot
    <3> QED
      BY <2>5, <3>1, <3>3 DEF Sound, WrittenPrefix
  <2>11. \A m \in Occupied(new) : new.array_table[m].value \in Value
    BY <2>5, <2>6, <2>7, SoundBasics DEF Sound
  <2> QED
    BY <2>1, <2>5, <2>8, <2>9, <2>10, <2>11 DEF Sound
<1> QED
  BY <1>1, <1>2

\* The entry at which the scan of DEL or MOD stops, when it is not a hole.
LEMMA FirstMatch ==
  ASSUME NEW arr, Sound(arr), NEW k \in Key, NEW n,
         Stops(arr, {NULL, k}) # {}, n = Min(Stops(arr, {NULL, k})), KeyAt(arr, n) # NULL
  PROVE  n \in Scanned(arr) /\ n \in Slot /\ n \in Occupied(arr) /\ KeyAt(arr, n) = k
<1>1. n \in Stops(arr, {NULL, k})
  BY SoundBasics, MinOfNaturals DEF Stops
<1>2. n \in Scanned(arr) /\ n \in Slot /\ KeyAt(arr, n) = k
  BY <1>1, SoundBasics DEF Stops
<1> QED
  BY <1>2, ArrayValuesAssumption DEF Occupied

LEMMA DelSound ==
  ASSUME NEW arr, Sound(arr), NEW k \in Key \cup {NULL}
  PROVE  Sound(kvs_array_del(arr, k).arr)
<1> DEFINE stops == Stops(arr, {NULL, k})
           n == Min(stops)
           new == Moved(Put(arr, n, Item(NULL, NULL)), -1)
<1>1. CASE k = NULL \/ stops = {} \/ KeyAt(arr, n) = NULL
  BY <1>1 DEF kvs_array_del, Returns
<1>2. CASE k # NULL /\ stops # {} /\ KeyAt(arr, n) # NULL
  <2>1. kvs_array_del(arr, k).arr = new
    BY <1>2 DEF kvs_array_del, Returns
  <2>2. n \in Scanned(arr) /\ n \in Slot /\ n \in Occupied(arr) /\ KeyAt(arr, n) = k
    BY <1>2, FirstMatch, Zenon
  <2> HIDE DEF n
  <2>3. arr.array_idx + (-1) \in 0 .. KVS_ARRAY_SIZE /\ arr.array_idx \in Nat
    BY <2>2, SoundBasics, ArraySizeAssumption DEF Scanned
  <2>4. /\ new \in ArrayType
        /\ new.array_idx = arr.array_idx + (-1)
        /\ KeyAt(new, n) = NULL
        /\ \A m \in Slot : m # n => /\ KeyAt(new, m) = KeyAt(arr, m)
                                    /\ new.array_table[m] = arr.array_table[m]
    <3>1. arr \in ArrayType /\ -1 \in Int /\ NULL \in Key \cup {NULL} /\ NULL \in Value \cup {NULL}
      BY DEF Sound
    <3> QED
      BY <2>2, <2>3, <3>1, PutFacts
  <2> HIDE DEF new
  <2>5. Occupied(new) = Occupied(arr) \ {n}
    BY <2>2, <2>4 DEF Occupied
  <2>6. new.array_idx = Cardinality(Occupied(new))
    <3>1. Cardinality(Occupied(arr) \ {n}) = Cardinality(Occupied(arr)) - 1
      BY <2>2, SoundBasics, FS_RemoveElement, Zenon
    <3> QED
      BY <2>3, <2>4, <2>5, <3>1 DEF Sound
  <2>7. \A m \in Scanned(new) : KeyAt(new, m) # Uninit
    <3> SUFFICES ASSUME NEW m \in Scanned(new) PROVE KeyAt(new, m) # Uninit
      OBVIOUS
    <3>1. m \in Scanned(arr)
      BY <2>3, <2>4 DEF Scanned
    <3> QED
      BY <2>4, <3>1, SoundBasics, ArrayMarkersAssumption DEF Sound
  <2>8. WrittenPrefix(new)
    <3> SUFFICES ASSUME NEW m \in Slot, NEW q \in Slot, m < q, KeyAt(new, m) = Uninit
                 PROVE  KeyAt(new, q) = Uninit
      BY DEF WrittenPrefix
    <3>1. m # n /\ KeyAt(arr, m) = Uninit
      BY <2>4, ArrayMarkersAssumption
    <3>2. m \notin Scanned(arr)
      BY <3>1 DEF Sound
    <3>3. q # n
      BY <2>2, <2>3, <3>2, SoundBasics DEF Scanned, Slot
    <3> QED
      BY <2>4, <3>1, <3>3 DEF Sound, WrittenPrefix
  <2>9. \A m \in Occupied(new) : new.array_table[m].value \in Value
    BY <2>4, <2>5, SoundBasics DEF Sound
  <2> QED
    BY <2>1, <2>4, <2>6, <2>7, <2>8, <2>9 DEF Sound
<1> QED
  BY <1>1, <1>2

LEMMA ModSound ==
  ASSUME NEW arr, Sound(arr), NEW k \in Key \cup {NULL}, NEW v \in Value \cup {NULL},
         NEW mem \in BOOLEAN
  PROVE  Sound(kvs_array_mod(arr, k, v, mem).arr)
<1> DEFINE stops == Stops(arr, {NULL, k})
           n == Min(stops)
           new == Moved(Put(arr, n, Item(k, v)), 0)
<1>1. CASE k = NULL \/ v = NULL \/ stops = {} \/ KeyAt(arr, n) = NULL \/ ~mem
  BY <1>1 DEF kvs_array_mod, Returns
<1>2. CASE k # NULL /\ v # NULL /\ stops # {} /\ KeyAt(arr, n) # NULL /\ mem
  <2>1. kvs_array_mod(arr, k, v, mem).arr = Put(arr, n, Item(k, v))
    BY <1>2 DEF kvs_array_mod, Returns
  <2>2. n \in Scanned(arr) /\ n \in Slot /\ n \in Occupied(arr) /\ KeyAt(arr, n) = k
    BY <1>2, FirstMatch, Zenon
  <2> HIDE DEF n
  <2>3. arr.array_idx + 0 \in 0 .. KVS_ARRAY_SIZE /\ arr.array_idx + 0 = arr.array_idx
    BY SoundBasics, ArraySizeAssumption
  <2>4. Put(arr, n, Item(k, v)) = new
    BY <2>3 DEF Put, Moved
  <2>5. /\ new \in ArrayType
        /\ new.array_idx = arr.array_idx + 0
        /\ KeyAt(new, n) = k /\ new.array_table[n].value = v
        /\ \A m \in Slot : m # n => /\ KeyAt(new, m) = KeyAt(arr, m)
                                    /\ new.array_table[m] = arr.array_table[m]
    <3>1. arr \in ArrayType /\ 0 \in Int
      BY DEF Sound
    <3> QED
      BY <2>2, <2>3, <3>1, PutFacts
  <2> HIDE DEF new
  <2>6. \A m \in Slot : KeyAt(new, m) = KeyAt(arr, m)
    BY <2>2, <2>5
  <2>7. Occupied(new) = Occupied(arr) /\ Scanned(new) = Scanned(arr)
    BY <2>3, <2>5, <2>6 DEF Occupied, Scanned
  <2>8. \A m \in Scanned(new) : KeyAt(new, m) # Uninit
    BY <2>6, <2>7, SoundBasics DEF Sound
  <2>9. WrittenPrefix(new)
    BY <2>6 DEF Sound, WrittenPrefix
  <2>10. \A m \in Occupied(new) : new.array_table[m].value \in Value
    BY <1>2, <2>5, <2>7, SoundBasics DEF Sound
  <2> QED
    BY <2>1, <2>3, <2>4, <2>5, <2>7, <2>8, <2>9, <2>10 DEF Sound
<1> QED
  BY <1>1, <1>2

LEMMA CreateSound == Sound(kvstore_array_create)
<1> DEFINE arr == kvstore_array_create
<1>1. arr \in ArrayType /\ arr.array_idx = 0
  BY ArraySizeAssumption DEF kvstore_array_create, ArrayType, Item
<1>2. \A n \in Slot : KeyAt(arr, n) = Uninit
  BY DEF kvstore_array_create, KeyAt, Item
<1>3. Occupied(arr) = {}
  BY <1>2 DEF Occupied
<1>4. Scanned(arr) = {}
  BY <1>1 DEF Scanned
<1> QED
  BY <1>1, <1>2, <1>3, <1>4, FS_EmptySet DEF Sound, WrittenPrefix

-----------------------------------------------------------------------------
(* The results of the calls.                                               *)

LEMMA ResultTypes ==
  ASSUME NEW arr, Sound(arr), NEW k \in Key \cup {NULL}, NEW v \in Value \cup {NULL},
         NEW mem \in BOOLEAN
  PROVE  /\ kvs_array_set(arr, k, v, mem).res \in Int
         /\ kvs_array_mod(arr, k, v, mem).res \in Int \cup {Crash}
         /\ kvs_array_del(arr, k).res \in Int \cup {Crash}
         /\ kvs_array_get(arr, k) \in Value \cup {NULL, Crash}
         /\ kvs_array_count(arr) \in Int
<1>1. arr.array_idx \in Int
  BY SoundBasics, ArraySizeAssumption
<1>2. kvs_array_set(arr, k, v, mem).res \in Int
  BY DEF kvs_array_set, Returns
<1>3. kvs_array_mod(arr, k, v, mem).res \in Int \cup {Crash}
  BY <1>1 DEF kvs_array_mod, Returns
<1>4. kvs_array_del(arr, k).res \in Int \cup {Crash}
  BY <1>1 DEF kvs_array_del, Returns
<1>5. kvs_array_get(arr, k) \in Value \cup {NULL, Crash}
  <2> DEFINE stops == Stops(arr, {NULL, k})
             n == Min(stops)
  <2>1. CASE k = NULL \/ stops = {} \/ KeyAt(arr, n) = NULL
    BY <2>1 DEF kvs_array_get
  <2>2. CASE k # NULL /\ stops # {} /\ KeyAt(arr, n) # NULL
    <3>1. n \in Occupied(arr)
      BY <2>2, FirstMatch, Zenon
    <3>2. kvs_array_get(arr, k) = arr.array_table[n].value
      BY <2>2 DEF kvs_array_get
    <3> QED
      BY <3>1, <3>2 DEF Sound
  <2> QED
    BY <2>1, <2>2
<1> QED
  BY <1>1, <1>2, <1>3, <1>4, <1>5 DEF kvs_array_count

Inv == TypeOK /\ Sound(Array)

LEMMA FinishKeepsInv ==
  ASSUME NEW op \in {"SET", "GET", "MOD", "DEL", "COUNT"}, NEW k \in Key \cup {NULL},
         NEW v \in Value \cup {NULL}, NEW arr, NEW res,
         Sound(arr), res \in Int \cup Value \cup {NULL, Crash},
         Finish(op, k, v, [arr |-> arr, res |-> res])
  PROVE  Inv'
<1>1. Array' = arr /\ ret' = Call(op, k, v, res)
  BY DEF Finish
<1>2. alive' \in BOOLEAN
  BY DEF Finish
<1>3. ret' \in [op : {"START", "SET", "GET", "MOD", "DEL", "COUNT"},
                key : Key \cup {NULL},
                val : Value \cup {NULL},
                res : Int \cup Value \cup {NULL, Crash}]
  BY <1>1 DEF Call
<1>4. Sound(Array)'
  BY <1>1 DEF Sound, Occupied, Scanned, WrittenPrefix, KeyAt, ArrayType
<1> QED
  BY <1>2, <1>3, <1>4 DEF Inv, TypeOK, Sound

LEMMA InvStep ==
  ASSUME Inv, [Next]_vars
  PROVE  Inv'
<1>0. Sound(Array)
  BY DEF Inv
<1>1. ASSUME NEW k \in Key \cup {NULL}, NEW v \in Value \cup {NULL}, NEW mem \in BOOLEAN,
             Set(k, v, mem)
      PROVE  Inv'
  <2> DEFINE r == kvs_array_set(Array, k, v, mem)
  <2>1. r = [arr |-> r.arr, res |-> r.res]
    BY DEF kvs_array_set, Returns
  <2>2. Sound(r.arr) /\ r.res \in Int
    BY <1>0, SetSound, ResultTypes, Zenon
  <2>3. Finish("SET", k, v, r)
    BY <1>1 DEF Set
  <2> HIDE DEF r
  <2> QED
    BY <2>1, <2>2, <2>3, FinishKeepsInv
<1>2. ASSUME NEW k \in Key \cup {NULL}, NEW v \in Value \cup {NULL}, NEW mem \in BOOLEAN,
             Mod(k, v, mem)
      PROVE  Inv'
  <2> DEFINE r == kvs_array_mod(Array, k, v, mem)
  <2>1. r = [arr |-> r.arr, res |-> r.res]
    BY DEF kvs_array_mod, Returns
  <2>2. Sound(r.arr) /\ r.res \in Int \cup {Crash}
    BY <1>0, ModSound, ResultTypes
  <2>3. Finish("MOD", k, v, r)
    BY <1>2 DEF Mod
  <2> HIDE DEF r
  <2> QED
    BY <2>1, <2>2, <2>3, FinishKeepsInv
<1>3. ASSUME NEW k \in Key \cup {NULL}, Del(k)
      PROVE  Inv'
  <2> DEFINE r == kvs_array_del(Array, k)
  <2>1. r = [arr |-> r.arr, res |-> r.res]
    BY DEF kvs_array_del, Returns
  <2>2. Sound(r.arr) /\ r.res \in Int \cup {Crash}
    BY <1>0, DelSound, ResultTypes, Zenon
  <2>3. Finish("DEL", k, NULL, r)
    BY <1>3 DEF Del
  <2> HIDE DEF r
  <2> QED
    BY <2>1, <2>2, <2>3, FinishKeepsInv
<1>4. ASSUME NEW k \in Key \cup {NULL}, Get(k)
      PROVE  Inv'
  <2>1. kvs_array_get(Array, k) \in Value \cup {NULL, Crash}
    BY <1>0, ResultTypes, Zenon
  <2>2. Finish("GET", k, NULL, [arr |-> Array, res |-> kvs_array_get(Array, k)])
    BY <1>4 DEF Get, Returns
  <2> QED
    BY <1>0, <2>1, <2>2, FinishKeepsInv
<1>5. CASE Count
  <2>1. kvs_array_count(Array) \in Int
    BY <1>0, ResultTypes, Zenon
  <2>2. Finish("COUNT", NULL, NULL, [arr |-> Array, res |-> kvs_array_count(Array)])
    BY <1>5 DEF Count, Returns
  <2> QED
    BY <1>0, <2>1, <2>2, FinishKeepsInv
<1>6. CASE Restart
  <2>1. Sound(Array')
    BY <1>6, CreateSound DEF Restart
  <2> QED
    BY <1>6, <2>1 DEF Restart, Inv, TypeOK, Sound, Occupied, Scanned, WrittenPrefix, KeyAt, ArrayType
<1>7. CASE UNCHANGED vars
  BY <1>7 DEF vars, Inv, TypeOK, Sound, Occupied, Scanned, WrittenPrefix, KeyAt, ArrayType
<1> QED
  BY <1>1, <1>2, <1>3, <1>4, <1>5, <1>6, <1>7 DEF Next

LEMMA InvInit == Init => Inv
<1> SUFFICES ASSUME Init PROVE Inv
  OBVIOUS
<1>1. Sound(Array)
  BY CreateSound DEF Init
<1>2. ret \in [op : {"START", "SET", "GET", "MOD", "DEL", "COUNT"},
               key : Key \cup {NULL},
               val : Value \cup {NULL},
               res : Int \cup Value \cup {NULL, Crash}]
  BY DEF Init, Call
<1> QED
  BY <1>1, <1>2 DEF Init, Inv, TypeOK, Sound

THEOREM InvHolds == Spec => []Inv
  BY InvInit, InvStep, PTL DEF Spec

\* Every call leaves the table, its index and the result well-typed; in
\* particular array_idx never leaves 0 .. KVS_ARRAY_SIZE.
THEOREM ArrayTypeCorrect == Spec => []TypeOK
<1>1. Inv => TypeOK
  BY DEF Inv
<1> QED
  BY <1>1, InvHolds, PTL

\* After any sequence of SET, MOD and DEL, COUNT is the number of stored
\* entries, and no loop reads an entry that malloc left uninitialised.
THEOREM ArrayIndexSound == Spec => [](IdxCountsEntries /\ ScansInitialised)
<1>1. Inv => IdxCountsEntries /\ ScansInitialised
  BY DEF Inv, Sound, IdxCountsEntries, ScansInitialised
<1> QED
  BY <1>1, InvHolds, PTL

\* As long as no hole is open below array_idx, GET finds every stored key.
THEOREM ArrayReachable == Spec => []NoHoleMeansReachable
<1>1. Inv => NoHoleMeansReachable
  <2> SUFFICES ASSUME Sound(Array), Holes(Array) = {},
                      NEW k \in StoredKeys(Array) \cap Key
               PROVE  kvs_array_get(Array, k) # NULL
    BY DEF Inv, NoHoleMeansReachable
  <2> DEFINE n == Min(Stops(Array, {NULL, k}))
  <2>1. PICK m \in Occupied(Array) : KeyAt(Array, m) = k
    BY DEF StoredKeys
  <2>2. m \in Stops(Array, {NULL, k})
    BY <2>1, FullPrefix DEF Stops
  <2>3. n \in Stops(Array, {NULL, k})
    BY <2>2, SoundBasics, MinOfNaturals DEF Stops
  <2>4. KeyAt(Array, n) # NULL
    BY <2>3 DEF Holes, Stops
  <2>5. n \in Occupied(Array)
    BY <2>2, <2>4, FirstMatch, Zenon
  <2>6. k # NULL
    BY ArrayValuesAssumption
  <2>7. kvs_array_get(Array, k) = Array.array_table[n].value
    BY <2>2, <2>4, <2>6 DEF kvs_array_get
  <2>8. Array.array_table[n].value \in Value
    BY <2>5 DEF Sound
  <2> QED
    BY <2>7, <2>8, ArrayValuesAssumption
<1> QED
  BY <1>1, InvHolds, PTL

\* A scan that meets neither the key nor a hole has seen the whole table.
LEMMA ScanIsComplete ==
  ASSUME NEW arr, Sound(arr), NEW k, Stops(arr, {NULL, k}) = {}
  PROVE  k \notin StoredKeys(arr)
<1>1. Holes(arr) = {}
  BY DEF Holes, Stops
<1>2. Occupied(arr) = Scanned(arr)
  BY <1>1, FullPrefix
<1> QED
  BY <1>2 DEF StoredKeys, Stops

LEMMA PositiveStep ==
  ASSUME Inv, PositiveMeansMissing, [Next]_vars
  PROVE  PositiveMeansMissing'
<1> SUFFICES ASSUME alive', ret'.op \in {"DEL", "MOD"}, ret'.res \notin {-1, 0}
             PROVE  ret'.key \notin StoredKeys(Array')
  BY DEF PositiveMeansMissing, StoredKeys, Occupied, KeyAt
<1>0. Sound(Array)
  BY DEF Inv
<1>1. ASSUME NEW k \in Key \cup {NULL}, Del(k)
      PROVE  ret'.key \notin StoredKeys(Array')
  <2> DEFINE r == kvs_array_del(Array, k)
  <2>1. Array' = r.arr /\ ret'.key = k /\ ret'.res = r.res /\ r.res # Crash
    BY <1>1, Zenon DEF Del, Finish, Call
  <2>2. Stops(Array, {NULL, k}) = {} /\ r.arr = Array
    BY <2>1 DEF kvs_array_del, Returns
  <2> QED
    BY <1>0, <2>1, <2>2, ScanIsComplete
<1>2. ASSUME NEW k \in Key \cup {NULL}, NEW v \in Value \cup {NULL}, NEW mem \in BOOLEAN,
             Mod(k, v, mem)
      PROVE  ret'.key \notin StoredKeys(Array')
  <2> DEFINE r == kvs_array_mod(Array, k, v, mem)
  <2>1. Array' = r.arr /\ ret'.key = k /\ ret'.res = r.res /\ r.res # Crash
    BY <1>2, Zenon DEF Mod, Finish, Call
  <2>2. Stops(Array, {NULL, k}) = {} /\ r.arr = Array
    BY <2>1 DEF kvs_array_mod, Returns
  <2> QED
    BY <1>0, <2>1, <2>2, ScanIsComplete
<1>3. CASE Restart
  <2>1. \A n \in Slot : KeyAt(Array', n) = Uninit
    BY <1>3 DEF Restart, kvstore_array_create, KeyAt, Item
  <2> QED
    BY <2>1 DEF StoredKeys, Occupied
<1>4. ASSUME NEW k \in Key \cup {NULL}, NEW v \in Value \cup {NULL}, NEW mem \in BOOLEAN
      PROVE  ~Set(k, v, mem) /\ ~Get(k) /\ ~Count
  <2>1. Set(k, v, mem) => ret'.op = "SET"
    BY DEF Set, Finish, Call
  <2>2. Get(k) => ret'.op = "GET"
    BY DEF Get, Finish, Call
  <2>3. Count => ret'.op = "COUNT"
    BY DEF Count, Finish, Call
  <2> QED
    BY <2>1, <2>2, <2>3
<1>5. CASE UNCHANGED vars
  BY <1>5 DEF vars, PositiveMeansMissing
<1> QED
  BY <1>1, <1>2, <1>3, <1>4, <1>5, Zenon DEF Next

\* A DEL or MOD that answers "no such key" is right: the key is nowhere in
\* the table, behind the index included.
THEOREM ArrayPositiveMeansMissing == Spec => []PositiveMeansMissing
<1>1. Init => PositiveMeansMissing
  BY DEF Init, Call, PositiveMeansMissing
<1> QED
  BY <1>1, InvHolds, PositiveStep, PTL DEF Spec

\* No SET, MOD, GET or COUNT, and no DEL of another key, removes or
\* overwrites the key of an entry.
THEOREM ArrayEntriesLeaveByDel == Spec => EntriesLeaveByDel
<1> DEFINE Kept(n) == KeyAt(Array', n) = KeyAt(Array, n)
           Deleted(n) == /\ ret'.op = "DEL" /\ ret'.res = 0
                         /\ ret'.key = KeyAt(Array, n) /\ KeyAt(Array', n) = NULL
<1>1. ASSUME Inv, Next
      PROVE  KeptOrDeleted
  <2> SUFFICES ASSUME NEW n \in Occupied(Array), alive
               PROVE  Kept(n) \/ Deleted(n)
    BY DEF KeptOrDeleted
  <2>0. Sound(Array)
    BY <1>1 DEF Inv
  <2>a. Array.array_table \in [Slot -> [key : Key \cup {NULL, Uninit},
                                        value : Value \cup {NULL, Uninit}]]
    BY <2>0 DEF Sound, ArrayType
  <2>1. ASSUME NEW k \in Key \cup {NULL}, NEW v \in Value \cup {NULL}, NEW mem \in BOOLEAN,
               Set(k, v, mem)
        PROVE  Kept(n)
    <3> DEFINE j == IF Holes(Array) # {} THEN Min(Holes(Array)) ELSE Array.array_idx
    <3>1. Array' = Array \/ Array' = Moved(Put(Array, j, Item(k, v)), 1)
      BY <2>1 DEF Set, Finish, kvs_array_set, Returns
    <3>2. j # n
      <4>1. CASE Holes(Array) # {}
        <5>1. j \in Holes(Array)
          BY <2>0, <4>1, SoundBasics, MinOfNaturals DEF Holes, Stops
        <5> QED
          BY <5>1 DEF Holes, Stops, Occupied
      <4>2. CASE Holes(Array) = {}
        <5>1. n \in Scanned(Array)
          BY <2>0, <4>2, FullPrefix
        <5>2. Array.array_idx \in Nat
          BY <2>0, SoundBasics, ArraySizeAssumption
        <5> QED
          BY <4>2, <5>1, <5>2 DEF Scanned
      <4> QED
        BY <4>1, <4>2
    <3> HIDE DEF j
    <3> QED
      BY <3>1, <3>2, <2>a DEF Moved, Put, KeyAt, Occupied
  <2>2. ASSUME NEW k \in Key \cup {NULL}, NEW v \in Value \cup {NULL}, NEW mem \in BOOLEAN,
               Mod(k, v, mem)
        PROVE  Kept(n)
    <3> DEFINE stops == Stops(Array, {NULL, k})
               m == Min(stops)
    <3>1. \/ Array' = Array
          \/ /\ k # NULL /\ stops # {} /\ KeyAt(Array, m) # NULL
             /\ Array' = Put(Array, m, Item(k, v))
      BY <2>2, SMTT(30) DEF Mod, Finish, kvs_array_mod, Returns
    <3>2. CASE Array' # Array
      <4>1. KeyAt(Array, m) = k /\ Array' = Put(Array, m, Item(k, v))
        BY <2>0, <3>1, <3>2, FirstMatch
      <4> HIDE DEF m
      <4> QED
        BY <4>1, SMTT(30) DEF Put, KeyAt, Item
    <3> QED
      BY <3>2, SMTT(30)
  <2>3. ASSUME NEW k \in Key \cup {NULL}, Del(k)
        PROVE  Kept(n) \/ Deleted(n)
    <3> DEFINE stops == Stops(Array, {NULL, k})
               m == Min(stops)
    <3>1. \/ Array' = Array
          \/ /\ k # NULL /\ stops # {} /\ KeyAt(Array, m) # NULL
             /\ Array' = Moved(Put(Array, m, Item(NULL, NULL)), -1)
             /\ ret' = Call("DEL", k, NULL, 0)
      BY <2>3, SMTT(30) DEF Del, Finish, kvs_array_del, Returns
    <3>2. CASE Array' # Array
      <4>1. KeyAt(Array, m) = k /\ m \in Slot
        BY <2>0, <3>1, <3>2, FirstMatch
      <4>2. Array' = Moved(Put(Array, m, Item(NULL, NULL)), -1) /\ ret' = Call("DEL", k, NULL, 0)
        BY <3>1, <3>2
      <4> HIDE DEF m
      <4> QED
        BY <4>1, <4>2, <2>a DEF Moved, Put, KeyAt, Item, Call, Occupied
    <3> QED
      BY <3>2, SMTT(30)
  <2>4. ASSUME NEW k \in Key \cup {NULL}, Get(k)
        PROVE  Kept(n)
    BY <2>4 DEF Get, Finish, Returns
  <2>5. CASE Count
    BY <2>5 DEF Count, Finish, Returns
  <2>6. ~Restart
    BY DEF Restart
  <2> QED
    BY <1>1, <2>1, <2>2, <2>3, <2>4, <2>5, <2>6 DEF Next
<1> QED
  BY <1>1, InvHolds, PTL DEF Spec, EntriesLeaveByDel

=============================================================================

---------------------------- MODULE MemoryProofs ----------------------------
(***************************************************************************)
(* Theorems about Memory for every set of keys, every size and every       *)
(* history of failed allocations.                                          *)
(***************************************************************************)
EXTENDS Memory, DBaseProofs, FoldFacts

-----------------------------------------------------------------------------
(* Whatever an operation tells the tracker, to the map and the queue it is *)
(* an operation of the storage core.                                       *)
LEMMA StepIsCoreStep == [MNext]_mvars => [Next]_vars
<1> SUFFICES ASSUME [MNext]_mvars PROVE [Next]_vars
  OBVIOUS
<1>1. ASSUME NEW k \in Key, GetTracked(k) \/ DeleteTracked(k) \/ EntryKeyFails(k)
      PROVE  [Next]_vars
  BY <1>1 DEF GetTracked, DeleteTracked, EntryKeyFails, Next
<1>2. ASSUME NEW k \in Key, NEW v \in Val, SetTracked(k, v) \/ MutateTracked(k, v) \/ SetFails(k, v)
      PROVE  [Next]_vars
  BY <1>2 DEF SetTracked, MutateTracked, SetFails, Next
<1>3. ASSUME NEW k \in Key, NEW v \in Val, NEW bytes \in Val, MutateFails(k, v, bytes)
      PROVE  [Next]_vars
  BY <1>3 DEF MutateFails, Next
<1>4. ASSUME NEW k \in Key, NEW s \in Seconds, ExpireTracked(k, s) \/ ExpireFailsTracked(k, s)
      PROVE  [Next]_vars
  <2>1. Stored(k) /\ (Expire(k, s) \/ ExpireFails(k, s))
    BY <1>4 DEF ExpireTracked, ExpireFailsTracked, Expire, ExpireFails
  <2> QED BY <2>1 DEF Next
<1>5. ASSUME NEW n \in Batch, ExpireCycleTracked(n) PROVE [Next]_vars
  BY <1>5 DEF ExpireCycleTracked, Next
<1>6. ASSUME ClearTracked PROVE [Next]_vars
  BY <1>6 DEF ClearTracked, Next
<1>7. ASSUME Tick PROVE [Next]_vars
  BY <1>7 DEF Next
<1>8. ASSUME UNCHANGED mvars PROVE [Next]_vars
  BY <1>8 DEF mvars, vars
<1> QED BY <1>1, <1>2, <1>3, <1>4, <1>5, <1>6, <1>7, <1>8 DEF MNext

(***************************************************************************)
(* Accounting changes nothing: the storage core with its tracker and with  *)
(* every failure of an allocation behaves as the storage core, so all that *)
(* is proved of Spec is true of MSpec.                                     *)
(***************************************************************************)
THEOREM TrackedCore == MSpec => Spec
<1>1. MInit => Init
  BY DEF MInit
<1> QED BY <1>1, StepIsCoreStep, PTL DEF MSpec, Spec

(* Types, with the tracker. *)
THEOREM TrackedTyping == MSpec => []TypeOK
  BY TrackedCore, Typing, PTL

(* The queue stays in step with the map where any allocation may fail. *)
THEOREM TrackedQueue == ASSUME NoOverflow PROVE MSpec => []NoStaleEntry
  BY TrackedCore, NoStaleEntries, PTL

(* And so a sweep takes expired objects only. *)
THEOREM TrackedSweep == ASSUME NoOverflow PROVE MSpec => OnlyExpiredCollected
  BY TrackedCore, SweepIsSafe, PTL

-----------------------------------------------------------------------------
(* A failed request leaves the map as it is, except for one object. *)
LEMMA OneChanged ==
  ASSUME NEW k \in Key, \A j \in Key \ {k} : storage'[j] = storage[j]
  PROVE  LET changed == {j \in Key : storage'[j] # storage[j]}
         IN  Cardinality(changed) <= 1 /\ \A j \in changed : j = k
<1> DEFINE changed == {j \in Key : storage'[j] # storage[j]}
<1>1. changed \subseteq {k}
  OBVIOUS
<1>2. IsFiniteSet({k}) /\ Cardinality({k}) = 1
  BY FS_Singleton
<1>3. Cardinality(changed) <= Cardinality({k})
  BY <1>1, <1>2, FS_Subset
<1> QED BY <1>1, <1>2, <1>3

FailureIsSmall ==
  LET changed == {k \in Key : storage'[k] # storage[k]}
  IN /\ \A k \in Key : Stored(k)' <=> Stored(k)
     /\ expire_queue' \subseteq expire_queue
     /\ Cardinality(changed) <= 1
     /\ \A k \in changed : /\ storage'[k].val = storage[k].val \/ storage'[k].ttl = storage[k].ttl
                           /\ storage'[k].val # storage[k].val => expire_queue' = expire_queue

LEMMA FailureStep == TypeOK /\ [MNext]_mvars /\ lost' # lost => FailureIsSmall
<1> SUFFICES ASSUME TypeOK, [MNext]_mvars, lost' # lost PROVE FailureIsSmall
  OBVIOUS
<1>0. ASSUME UNCHANGED vars PROVE FailureIsSmall
  <2>1. {j \in Key : storage'[j] # storage[j]} = {}
    BY <1>0 DEF vars
  <2>2. Cardinality({}) = 0
    BY FS_EmptySet
  <2>3. \A k \in Key : Stored(k)' <=> Stored(k)
    BY <1>0 DEF vars, Stored
  <2> QED BY <1>0, <2>1, <2>2, <2>3 DEF FailureIsSmall, vars
<1>1. ASSUME NEW k \in Key, EntryKeyFails(k) PROVE FailureIsSmall
  BY <1>0, <1>1 DEF EntryKeyFails
<1>2. ASSUME NEW k \in Key, NEW v \in Val, SetFails(k, v) PROVE FailureIsSmall
  BY <1>0, <1>2 DEF SetFails
<1>3. ASSUME NEW k \in Key, NEW v \in Val, Mutate(k, v) PROVE FailureIsSmall
  <2>1. /\ Stored(k) /\ storage[k] \in Object
        /\ storage' = [storage EXCEPT ![k] = [val |-> v, ttl |-> storage[k].ttl]]
        /\ expire_queue' = expire_queue
    BY <1>3 DEF Mutate, Stored, TypeOK
  <2>2. [val |-> v, ttl |-> storage[k].ttl] \in Object
    BY <2>1 DEF Object
  <2>3. \A j \in Key \ {k} : storage'[j] = storage[j]
    BY <2>1 DEF TypeOK
  <2>4. storage'[k].ttl = storage[k].ttl /\ storage'[k] # Absent
    BY <2>1, <2>2, DBaseAssumption DEF TypeOK
  <2>5. \A j \in Key : Stored(j)' <=> Stored(j)
    BY <2>1, <2>3, <2>4 DEF Stored
  <2> QED BY <2>1, <2>3, <2>4, <2>5, OneChanged DEF FailureIsSmall
<1>4. ASSUME NEW k \in Key, NEW s \in Seconds, ExpireFails(k, s) PROVE FailureIsSmall
  <2>1. PICK d \in TimePoint :
          /\ Stored(k) /\ storage[k] \in Object
          /\ storage' = [storage EXCEPT ![k] = [val |-> storage[k].val, ttl |-> d]]
          /\ expire_queue' = Unqueued(k)
    BY <1>4, DeadlinesType DEF ExpireFails, Stored, TypeOK
  <2>2. [val |-> storage[k].val, ttl |-> d] \in Object
    BY <2>1 DEF Object
  <2>3. \A j \in Key \ {k} : storage'[j] = storage[j]
    BY <2>1 DEF TypeOK
  <2>4. storage'[k].val = storage[k].val /\ storage'[k] # Absent
    BY <2>1, <2>2, DBaseAssumption DEF TypeOK
  <2>5. \A j \in Key : Stored(j)' <=> Stored(j)
    BY <2>1, <2>3, <2>4 DEF Stored
  <2>6. expire_queue' \subseteq expire_queue
    BY <2>1, UnqueuedShrinks
  <2> QED BY <2>3, <2>4, <2>5, <2>6, OneChanged DEF FailureIsSmall
<1>5. ASSUME NEW k \in Key, GetTracked(k) \/ DeleteTracked(k) PROVE FALSE
  BY <1>5 DEF GetTracked, DeleteTracked
<1>6. ASSUME NEW k \in Key, NEW v \in Val, SetTracked(k, v) \/ MutateTracked(k, v) PROVE FALSE
  BY <1>6 DEF SetTracked, MutateTracked
<1>7. ASSUME NEW k \in Key, NEW s \in Seconds, ExpireTracked(k, s) PROVE FALSE
  BY <1>7 DEF ExpireTracked
<1>8. ~(\E n \in Batch : ExpireCycleTracked(n)) /\ ~ClearTracked
  BY DEF ExpireCycleTracked, ClearTracked
<1>9. ~(UNCHANGED <<total_ram_usage_, buckets, lost>>) /\ ~(UNCHANGED mvars)
  BY DEF mvars
<1> QED
  BY <1>1, <1>2, <1>3, <1>4, <1>5, <1>6, <1>7, <1>8, <1>9
  DEF MNext, MutateFails, ExpireFailsTracked

(***************************************************************************)
(* A request that runs out of memory, wherever in it that happens, loses   *)
(* no key, makes none and queues no deadline; it has changed at most one   *)
(* object, either its content or its deadline.                             *)
(***************************************************************************)
THEOREM FailuresAreSmall == MSpec => FailuresLoseNoKey
<1>1. TypeOK /\ [MNext]_mvars => [lost' # lost => FailureIsSmall]_mvars
  BY FailureStep
<1> QED BY <1>1, TrackedTyping, PTL DEF MSpec, FailuresLoseNoKey, FailureIsSmall

-----------------------------------------------------------------------------
(* The two parts of Live. *)
Held == [k \in StoredKeys |-> NodeSize + ObjectSize + storage[k].val]
Objects == SumFunctionOnSet(Held, StoredKeys)
Entries == EntryBytes * Cardinality(expire_queue)

(* What k's node holds. *)
NodeBytes(k) == IF Stored(k) THEN NodeSize + ObjectSize + storage[k].val ELSE 0

(* All that the tracker was told of and not told to be given back. *)
Account == Live + buckets + lost

(***************************************************************************)
(* What makes the usage inductive: it is the account modulo the range of   *)
(* size_t, the map and the queue are finite, and they are in step (IInv),  *)
(* or EXPIRE would be charged for an entry that replaces a stale one.      *)
(***************************************************************************)
FiniteStore == IsFiniteSet(StoredKeys) /\ IsFiniteSet(expire_queue)
Counts == buckets \in Nat /\ lost \in Nat
Balanced == total_ram_usage_ = Account % SizeRange

MInv == IInv /\ FiniteStore /\ Counts /\ Balanced

LEMMA LiveIs == Live = Objects + Entries
  BY DEF Live, Objects, Entries, Held, SumFunction

LEMMA Sizes ==
  /\ \A v \in Val : v \in Int
  /\ NodeSize \in Int /\ ObjectSize \in Int /\ EntryBytes \in Int
  BY MemoryAssumption DEF EntryBytes

HeldOK == /\ IntegersOn(Held, StoredKeys)
          /\ \A k \in Key : NodeBytes(k) = IF k \in StoredKeys THEN Held[k] ELSE 0
          /\ \A k \in Key : NodeBytes(k) \in Int

LEMMA HeldType == TypeOK => HeldOK
<1> SUFFICES ASSUME TypeOK PROVE HeldOK
  OBVIOUS
<1>1. ASSUME NEW k \in Key PROVE Stored(k) => storage[k].val \in Nat
  BY MemoryAssumption DEF TypeOK, Stored, Object
<1>2. NodeSize \in Nat /\ ObjectSize \in Nat
  BY MemoryAssumption
<1> QED BY <1>1, <1>2 DEF HeldOK, IntegersOn, Held, StoredKeys, NodeBytes

LEMMA HeldTypeNext == TypeOK' => HeldOK'
  BY HeldType, PTL

LEMMA LiveType ==
  ASSUME TypeOK, FiniteStore
  PROVE  Objects \in Int /\ Entries \in Int /\ Live \in Int
<1>1. Objects \in Int
  BY HeldType, SumType DEF FiniteStore, Objects, HeldOK
<1>2. Cardinality(expire_queue) \in Nat
  BY FS_CardinalityType DEF FiniteStore
<1>3. Entries \in Int
  BY <1>2, MemoryAssumption DEF Entries, EntryBytes
<1> QED BY <1>1, <1>3, LiveIs

LEMMA LiveIsNatural ==
  ASSUME TypeOK, FiniteStore
  PROVE  Live \in Nat
<1>1. NaturalsOn(Held, StoredKeys)
  <2> SUFFICES ASSUME NEW k \in StoredKeys PROVE Held[k] \in Nat
    BY DEF NaturalsOn
  <2>1. storage[k].val \in Val
    BY DEF TypeOK, StoredKeys, Stored, Object
  <2>2. storage[k].val \in Nat /\ NodeSize \in Nat /\ ObjectSize \in Nat
    BY <2>1, MemoryAssumption
  <2> QED BY <2>2 DEF Held
<1>2. Objects \in Nat
  BY <1>1, SumNatural DEF FiniteStore, Objects
<1>3. Cardinality(expire_queue) \in Nat /\ EntryBytes \in Nat
  BY FS_CardinalityType, MemoryAssumption DEF FiniteStore, EntryBytes
<1>4. Entries \in Nat
  BY <1>3 DEF Entries
<1> QED BY <1>2, <1>4, LiveIs

(* A sum with one element put aside. *)
Apart(f, S, x) ==
  /\ SumFunctionOnSet(f, S \ {x}) \in Int
  /\ SumFunctionOnSet(f, S) = (IF x \in S THEN f[x] ELSE 0) + SumFunctionOnSet(f, S \ {x})

LEMMA SumApart ==
  ASSUME NEW f, NEW S, IsFiniteSet(S), IntegersOn(f, S), NEW x
  PROVE  Apart(f, S, x)
<1>1. SumFunctionOnSet(f, S \ {x}) \in Int
  <2>1. IsFiniteSet(S \ {x})
    BY FS_Subset
  <2>2. IntegersOn(f, S \ {x})
    BY DEF IntegersOn
  <2> QED BY <2>1, <2>2, SumType
<1>2. CASE x \in S
  <2>1. SumFunctionOnSet(f, S) = f[x] + SumFunctionOnSet(f, S \ {x})
    BY <1>2, SumRemove
  <2> QED BY <1>1, <1>2, <2>1 DEF Apart
<1>3. CASE x \notin S
  <2>1. S \ {x} = S
    BY <1>3
  <2> DEFINE s == SumFunctionOnSet(f, S)
  <2>2. s \in Int
    BY <1>1, <2>1
  <2>3. s = 0 + s
    <3> HIDE DEF s
    <3> QED BY <2>2
  <2> QED BY <1>3, <2>1, <2>2, <2>3 DEF Apart
<1> QED BY <1>2, <1>3

(* What the map holds changes by what the one changed node holds. *)
LEMMA OneNodeChanges ==
  ASSUME TypeOK, TypeOK', FiniteStore, NEW k \in Key,
         \A j \in Key \ {k} : storage'[j] = storage[j]
  PROVE  /\ IsFiniteSet(StoredKeys')
         /\ Objects' = Objects - NodeBytes(k) + NodeBytes(k)'
<1> DEFINE R == StoredKeys \ {k}
           rest == SumFunctionOnSet(Held, R)
<1>1. R = StoredKeys' \ {k}
  BY DEF StoredKeys, Stored
<1>2. IsFiniteSet(StoredKeys') /\ IsFiniteSet(R)
  <2>1. IsFiniteSet(R)
    BY FS_Subset DEF FiniteStore
  <2>2. IsFiniteSet(R \cup {k})
    BY <2>1, FS_AddElement
  <2>3. StoredKeys' \subseteq R \cup {k}
    BY <1>1
  <2> QED BY <2>1, <2>2, <2>3, FS_Subset
<1>3. rest = SumFunctionOnSet(Held', R)
  <2>1. AgreeOn(Held, Held', R)
    BY DEF AgreeOn, Held, StoredKeys, Stored
  <2> QED BY <1>2, <2>1, SumCongruence
<1>4. rest \in Int /\ Objects = NodeBytes(k) + rest
  <2>1. Apart(Held, StoredKeys, k)
    BY HeldType, SumApart DEF FiniteStore, HeldOK
  <2> QED BY <2>1, HeldType DEF Apart, Objects, HeldOK
<1>5. Objects' = NodeBytes(k)' + rest
  <2>1. Apart(Held', StoredKeys', k)
    BY <1>2, HeldTypeNext, SumApart DEF HeldOK
  <2>2. NodeBytes(k)' = IF k \in StoredKeys' THEN Held'[k] ELSE 0
    BY HeldTypeNext DEF HeldOK
  <2>3. Objects' = (IF k \in StoredKeys' THEN Held'[k] ELSE 0)
                     + SumFunctionOnSet(Held', StoredKeys' \ {k})
    BY <2>1 DEF Apart, Objects
  <2> QED BY <1>1, <1>3, <2>2, <2>3
<1>6. NodeBytes(k) \in Int /\ NodeBytes(k)' \in Int
  BY HeldType, HeldTypeNext DEF HeldOK
<1> HIDE DEF rest
<1> QED BY <1>2, <1>4, <1>5, <1>6

(* Nodes that a sweep or a flush erases are given back as they were held. *)
LEMMA NodesErased ==
  ASSUME TypeOK, TypeOK', FiniteStore,
         \A k \in Key : storage'[k] = storage[k] \/ storage'[k] = Absent,
         NEW gone, gone = {k \in Key : Stored(k) /\ storage'[k] = Absent}
  PROVE  /\ IsFiniteSet(StoredKeys')
         /\ SumFunction([k \in gone |-> ErasedBytes(k)]) \in Int
         /\ Objects' = Objects - SumFunction([k \in gone |-> ErasedBytes(k)])
<1> DEFINE erased == [k \in gone |-> ErasedBytes(k)]
<1>1. /\ gone \in SUBSET StoredKeys
      /\ StoredKeys' = StoredKeys \ gone
      /\ StoredKeys' \subseteq StoredKeys
  BY DEF StoredKeys, Stored
<1>2. IsFiniteSet(gone) /\ IsFiniteSet(StoredKeys')
  BY <1>1, FS_Subset DEF FiniteStore
<1>3. SumFunction(erased) = SumFunctionOnSet(Held, gone)
  <2>1. AgreeOn(erased, Held, gone)
    <3> SUFFICES ASSUME NEW k \in gone PROVE erased[k] = Held[k]
      BY DEF AgreeOn
    <3>1. NodeSize \in Int /\ ObjectSize \in Int /\ storage[k].val \in Int
      <4>1. k \in Key /\ Stored(k)
        BY <1>1 DEF StoredKeys
      <4>2. storage[k].val \in Val
        BY <4>1 DEF TypeOK, Stored, Object
      <4> QED BY <4>2, Sizes
    <3>2. erased[k] = NodeSize + (ObjectSize + storage[k].val)
      BY DEF ErasedBytes, Deleted
    <3>3. Held[k] = NodeSize + ObjectSize + storage[k].val
      BY <1>1 DEF Held
    <3> QED BY <3>1, <3>2, <3>3
  <2>2. SumFunctionOnSet(erased, gone) = SumFunctionOnSet(Held, gone)
    BY <1>2, <2>1, SumCongruence
  <2>3. DOMAIN erased = gone
    OBVIOUS
  <2> HIDE DEF erased
  <2> QED BY <2>2, <2>3 DEF SumFunction
<1>4. SumFunctionOnSet(Held, StoredKeys') = SumFunctionOnSet(Held', StoredKeys')
  <2>1. AgreeOn(Held, Held', StoredKeys')
    BY DEF AgreeOn, Held, StoredKeys, Stored
  <2> QED BY <1>2, <2>1, SumCongruence
<1>5. SumFunctionOnSet(Held, StoredKeys)
        = SumFunctionOnSet(Held, gone) + SumFunctionOnSet(Held, StoredKeys')
  BY <1>1, HeldType, SumDifference DEF FiniteStore, HeldOK
<1>6. SumFunctionOnSet(Held, gone) \in Int /\ SumFunctionOnSet(Held, StoredKeys') \in Int
  <2>1. IntegersOn(Held, gone) /\ IntegersOn(Held, StoredKeys')
    BY <1>1, HeldType DEF HeldOK, IntegersOn
  <2> QED BY <1>2, <2>1, SumType
<1> HIDE DEF erased
<1>7. Objects' = SumFunctionOnSet(Held, StoredKeys')
  BY <1>4 DEF Objects
<1>8. Objects' = Objects - SumFunction(erased)
  BY <1>3, <1>5, <1>6, <1>7 DEF Objects
<1> QED BY <1>2, <1>3, <1>6, <1>8 DEF erased

-----------------------------------------------------------------------------
(* What a queue q gives back when it shrinks to r. *)
LEMMA QueueShrinks ==
  ASSUME NEW q, IsFiniteSet(q), NEW r \in SUBSET q
  PROVE  /\ IsFiniteSet(r)
         /\ Cardinality(q \ r) \in Nat
         /\ EntryBytes * Cardinality(r) = EntryBytes * Cardinality(q) - EntryBytes * Cardinality(q \ r)
<1>1. IsFiniteSet(r) /\ IsFiniteSet(q \ r)
  BY FS_Subset
<1>2. Cardinality(r) \in Nat /\ Cardinality(q \ r) \in Nat
  BY <1>1, FS_CardinalityType
<1>3. Cardinality(q) = Cardinality(r) + Cardinality(q \ r)
  <2> DEFINE s == q \ r
  <2>1. r \cup s = q /\ r \cap s = {}
    OBVIOUS
  <2>2. IsFiniteSet(s) /\ Cardinality(s) \in Nat
    BY <1>1, <1>2
  <2> HIDE DEF s
  <2>3. Cardinality(r \cup s) = Cardinality(r) + Cardinality(s) - Cardinality(r \cap s)
    BY <1>1, <2>2, FS_Union
  <2>4. Cardinality({}) = 0
    BY FS_EmptySet
  <2>5. Cardinality(q) = Cardinality(r) + Cardinality(s)
    BY <1>2, <2>1, <2>2, <2>3, <2>4
  <2> QED BY <2>5 DEF s
<1>4. EntryBytes \in Int
  BY MemoryAssumption DEF EntryBytes
<1>5. ASSUME NEW b \in Int, NEW m \in Int, NEW n \in Int
      PROVE  b * m = b * (m + n) - b * n
  OBVIOUS
<1> QED BY <1>1, <1>2, <1>3, <1>4, <1>5

LEMMA EntryErased ==
  ASSUME FiniteStore, NEW k \in Key, Stored(k)
  PROVE  /\ IsFiniteSet(Unqueued(k))
         /\ QueuedBytes(k) \in Int
         /\ EntryBytes * Cardinality(Unqueued(k)) = Entries - QueuedBytes(k)
<1>1. EntryBytes \in Int /\ Entries \in Int
  BY MemoryAssumption, FS_CardinalityType DEF FiniteStore, EntryBytes, Entries
<1>2. CASE HasTtl(k) /\ EntryOf(k) \in expire_queue
  <2>1. Unqueued(k) = expire_queue \ {EntryOf(k)} /\ QueuedBytes(k) = EntryBytes
    BY <1>2 DEF Unqueued, QueuedBytes
  <2>2. expire_queue \ Unqueued(k) = {EntryOf(k)}
    BY <1>2, <2>1
  <2>3. Cardinality({EntryOf(k)}) = 1
    BY FS_Singleton
  <2>4. Unqueued(k) \in SUBSET expire_queue
    BY <2>1
  <2>5. /\ IsFiniteSet(Unqueued(k))
        /\ EntryBytes * Cardinality(Unqueued(k)) = Entries - EntryBytes * 1
    BY <2>2, <2>3, <2>4, QueueShrinks DEF FiniteStore, Entries
  <2> QED BY <1>1, <2>1, <2>5
<1>3. CASE ~(HasTtl(k) /\ EntryOf(k) \in expire_queue)
  <2>1. Unqueued(k) = expire_queue /\ QueuedBytes(k) = 0
    BY <1>3 DEF Unqueued, QueuedBytes
  <2> QED BY <1>1, <2>1 DEF FiniteStore, Entries
<1> QED BY <1>2, <1>3

LEMMA EntryQueued ==
  ASSUME FiniteStore, IInv, NEW k \in Key, Stored(k), NEW d
  PROVE  LET q == Unqueued(k) \cup {[at |-> d, key |-> k]}
         IN  /\ IsFiniteSet(q)
             /\ EntryBytes * Cardinality(q) = Entries - QueuedBytes(k) + EntryBytes
<1> DEFINE e == [at |-> d, key |-> k]
<1>1. e \notin Unqueued(k)
  BY UnqueuedForgets, UnqueuedShrinks
<1>2. /\ IsFiniteSet(Unqueued(k) \cup {e})
      /\ Cardinality(Unqueued(k) \cup {e}) = Cardinality(Unqueued(k)) + 1
  BY <1>1, EntryErased, FS_AddElement
<1>3. /\ Cardinality(Unqueued(k)) \in Int /\ EntryBytes \in Int
      /\ Entries \in Int /\ QueuedBytes(k) \in Int
  BY EntryErased, FS_CardinalityType, MemoryAssumption DEF FiniteStore, EntryBytes, Entries
<1>4. ASSUME NEW b \in Int, NEW n \in Int PROVE b * (n + 1) = b * n + b
  OBVIOUS
<1> HIDE DEF e
<1>5. EntryBytes * Cardinality(Unqueued(k) \cup {e}) = EntryBytes * Cardinality(Unqueued(k)) + EntryBytes
  BY <1>2, <1>3, <1>4
<1> QED BY <1>2, <1>3, <1>5, EntryErased DEF e

-----------------------------------------------------------------------------
(* The tracker follows the account, whatever the modulus cuts off. *)
LEMMA TrackedStep ==
  ASSUME Balanced, Account \in Int, NEW a \in Int, NEW f \in Int,
         Tracked(a, f), Account' = Account + a - f
  PROVE  Balanced'
<1>1. SizeRange \in Nat \ {0}
  BY MemoryAssumption
<1>2. Account % SizeRange \in Int
  BY <1>1
<1>3. total_ram_usage_' = ((Account % SizeRange) + (a - f)) % SizeRange
  <2>1. (Account % SizeRange) + a - f = (Account % SizeRange) + (a - f)
    BY <1>2
  <2> QED BY <2>1 DEF Balanced, Tracked
<1>4. ((Account % SizeRange) + (a - f)) % SizeRange = (Account + (a - f)) % SizeRange
  <2>1. a - f \in Int
    OBVIOUS
  <2> QED BY <1>1, <2>1, ModuloOfSum
<1>5. Account + (a - f) = Account'
  OBVIOUS
<1> QED BY <1>3, <1>4, <1>5 DEF Balanced

(***************************************************************************)
(* What every operation owes: a finite map and queue, natural counts, and  *)
(* an account that moves by what the tracker was told.                     *)
(***************************************************************************)
LEMMA Settled ==
  ASSUME MInv, IInv', FiniteStore', Counts', NEW a \in Int, NEW f \in Int, Tracked(a, f),
         Objects' + Entries' + buckets' + lost' = Objects + Entries + buckets + lost + a - f
  PROVE  MInv'
<1>1. Account = Objects + Entries + buckets + lost /\ Account' = Objects' + Entries' + buckets' + lost'
  BY LiveIs DEF Account, Live, Objects, Entries, Held, SumFunction
<1>2. Account \in Int
  BY LiveType DEF MInv, IInv, Counts, Account
<1>3. Balanced'
  BY <1>1, <1>2, TrackedStep DEF MInv
<1> QED BY <1>3 DEF MInv

(* While map and queue stay, only a failure moves the account. *)
LEMMA Idle ==
  ASSUME MInv, IInv', storage' = storage, expire_queue' = expire_queue,
         NEW bytes \in Nat, Tracked(bytes, 0), lost' = lost + bytes, UNCHANGED buckets
  PROVE  MInv'
<1>1. Objects' = Objects /\ Entries' = Entries
  BY DEF Objects, Held, StoredKeys, Stored, Entries
<1>2. FiniteStore' /\ Counts'
  BY DEF MInv, FiniteStore, StoredKeys, Stored, Counts
<1>3. Objects \in Int /\ Entries \in Int /\ buckets \in Int /\ lost \in Int
  BY LiveType DEF MInv, IInv, Counts
<1>4. Objects' + Entries' + buckets' + lost' = Objects + Entries + buckets + lost + bytes - 0
  BY <1>1, <1>3
<1> QED BY <1>2, <1>4, Settled

(* Get of an expired object, and Delete. *)
LEMMA NodeDropped ==
  ASSUME MInv, IInv', NEW k \in Key, Stored(k),
         storage' = [storage EXCEPT ![k] = Absent], expire_queue' = Unqueued(k),
         Tracked(0, ErasedBytes(k) + QueuedBytes(k)), UNCHANGED <<buckets, lost>>
  PROVE  MInv'
<1>0. TypeOK /\ TypeOK' /\ FiniteStore
  BY DEF MInv, IInv
<1>1. storage'[k] = Absent /\ \A j \in Key \ {k} : storage'[j] = storage[j]
  BY <1>0 DEF TypeOK
<1>2. IsFiniteSet(StoredKeys') /\ Objects' = Objects - NodeBytes(k) + NodeBytes(k)'
  BY <1>0, <1>1, OneNodeChanges
<1>3. /\ IsFiniteSet(expire_queue')
      /\ QueuedBytes(k) \in Int
      /\ Entries' = Entries - QueuedBytes(k)
  BY <1>0, EntryErased DEF Entries
<1>4. FiniteStore' /\ Counts'
  BY <1>2, <1>3 DEF MInv, FiniteStore, Counts
<1>5. NodeBytes(k)' = 0
  BY <1>1 DEF NodeBytes, Stored
<1>6. NodeBytes(k) = ErasedBytes(k) /\ ErasedBytes(k) \in Int
  <2>1. storage[k].val \in Int
    <3>1. storage[k].val \in Val
      BY <1>0 DEF TypeOK, Stored, Object
    <3> QED BY <3>1, Sizes
  <2> QED BY <2>1, Sizes DEF NodeBytes, ErasedBytes, Deleted
<1>7. Objects \in Int /\ Entries \in Int /\ buckets \in Int /\ lost \in Int
  BY <1>0, LiveType DEF MInv, Counts
<1>8. Objects' + Entries' + buckets' + lost'
        = Objects + Entries + buckets + lost + 0 - (ErasedBytes(k) + QueuedBytes(k))
  BY <1>2, <1>3, <1>5, <1>6, <1>7
<1>9. ErasedBytes(k) + QueuedBytes(k) \in Int
  BY <1>3, <1>6
<1> QED BY <1>4, <1>8, <1>9, Settled

LEMMA GetBalances ==
  ASSUME MInv, IInv', NEW k \in Key, GetTracked(k)
  PROVE  MInv'
<1>1. CASE Stored(k) /\ IsExpired(k)
  BY <1>1, NodeDropped DEF GetTracked, Get
<1>2. CASE ~(Stored(k) /\ IsExpired(k))
  <2>1. Tracked(0, 0) /\ storage' = storage /\ expire_queue' = expire_queue
    BY <1>2 DEF GetTracked, Get
  <2>2. lost' = lost + 0 /\ UNCHANGED buckets
    BY DEF GetTracked, MInv, Counts
  <2> QED BY <2>1, <2>2, Idle
<1> QED BY <1>1, <1>2

LEMMA DeleteBalances ==
  ASSUME MInv, IInv', NEW k \in Key, DeleteTracked(k)
  PROVE  MInv'
  BY NodeDropped DEF DeleteTracked, Delete

(* An object that is new or replaced. *)
LEMMA SetBalances ==
  ASSUME MInv, IInv', NEW k \in Key, NEW v \in Val, SetTracked(k, v)
  PROVE  MInv'
<1>0. TypeOK /\ TypeOK' /\ FiniteStore
  BY DEF MInv, IInv
<1>1. /\ storage' = [storage EXCEPT ![k] = [val |-> v, ttl |-> NoTtl]]
      /\ expire_queue' = Unqueued(k)
      /\ lost' = lost
  BY DEF SetTracked, Set
<1>2. \A j \in Key \ {k} : storage'[j] = storage[j]
  BY <1>0, <1>1 DEF TypeOK
<1>3. storage'[k] = [val |-> v, ttl |-> NoTtl] /\ storage'[k] # Absent
  <2>1. [val |-> v, ttl |-> NoTtl] \in Object
    BY DBaseAssumption DEF Object, TimePoint, NoTtl
  <2> QED BY <1>0, <1>1, <2>1, DBaseAssumption DEF TypeOK
<1>4. IsFiniteSet(StoredKeys') /\ Objects' = Objects - NodeBytes(k) + NodeBytes(k)'
  BY <1>0, <1>2, OneNodeChanges
<1>5. NodeBytes(k)' = NodeSize + ObjectSize + v
  BY <1>3 DEF NodeBytes, Stored
<1>6. /\ Objects \in Int /\ Entries \in Int /\ buckets \in Int /\ lost \in Int /\ v \in Int
      /\ NodeSize \in Int /\ ObjectSize \in Int
  BY <1>0, LiveType, Sizes DEF MInv, Counts
<1>7. CASE Stored(k)
  <2>1. Tracked(Created(v), Deleted(storage[k].val) + QueuedBytes(k)) /\ UNCHANGED buckets
    BY <1>7 DEF SetTracked
  <2>2. /\ IsFiniteSet(expire_queue')
        /\ QueuedBytes(k) \in Int
        /\ Entries' = Entries - QueuedBytes(k)
    BY <1>0, <1>1, <1>7, EntryErased DEF Entries
  <2>3. FiniteStore' /\ Counts'
    BY <1>1, <1>4, <2>1, <2>2 DEF MInv, FiniteStore, Counts
  <2>4. storage[k].val \in Int
    <3>1. storage[k].val \in Val
      BY <1>0, <1>7 DEF TypeOK, Stored, Object
    <3> QED BY <3>1, Sizes
  <2>5. NodeBytes(k) = NodeSize + ObjectSize + storage[k].val
    BY <1>7 DEF NodeBytes
  <2>6. /\ Created(v) = ObjectSize + v /\ Deleted(storage[k].val) = ObjectSize + storage[k].val
        /\ Created(v) \in Int /\ Deleted(storage[k].val) + QueuedBytes(k) \in Int
    BY <1>6, <2>2, <2>4 DEF Created, Deleted
  <2>7. Objects' + Entries' + buckets' + lost'
          = Objects + Entries + buckets + lost + Created(v) - (Deleted(storage[k].val) + QueuedBytes(k))
    BY <1>1, <1>4, <1>5, <1>6, <2>1, <2>2, <2>4, <2>5, <2>6
  <2> QED BY <2>1, <2>3, <2>6, <2>7, Settled
<1>8. CASE ~Stored(k)
  <2>1. Tracked(Created(v) + NodeSize + buckets', buckets) /\ buckets' \in BucketSizes
    BY <1>8 DEF SetTracked
  <2>2. buckets' \in Nat
    BY <2>1, MemoryAssumption
  <2>3. expire_queue' = expire_queue /\ Entries' = Entries
    BY <1>1, <1>8 DEF Unqueued, Entries
  <2>4. FiniteStore' /\ Counts'
    BY <1>1, <1>4, <2>2, <2>3 DEF MInv, FiniteStore, Counts
  <2>5. NodeBytes(k) = 0
    BY <1>8 DEF NodeBytes
  <2>6. Created(v) = ObjectSize + v /\ Created(v) + NodeSize + buckets' \in Int
    BY <1>6, <2>2 DEF Created
  <2>7. Objects' + Entries' + buckets' + lost'
          = Objects + Entries + buckets + lost + (Created(v) + NodeSize + buckets') - buckets
    BY <1>1, <1>4, <1>5, <1>6, <2>2, <2>3, <2>5, <2>6
  <2> QED BY <1>6, <2>1, <2>4, <2>6, <2>7, Settled
<1> QED BY <1>7, <1>8

(* A change of an object's content, finished or given up with bytes lost. *)
LEMMA MutateBalances ==
  ASSUME MInv, IInv', NEW k \in Key, NEW v \in Val, Mutate(k, v), NEW bytes \in Nat,
         Tracked(bytes + v, storage[k].val), lost' = lost + bytes, UNCHANGED buckets
  PROVE  MInv'
<1>0. TypeOK /\ TypeOK' /\ FiniteStore
  BY DEF MInv, IInv
<1>1. /\ Stored(k)
      /\ storage' = [storage EXCEPT ![k] = [val |-> v, ttl |-> storage[k].ttl]]
      /\ expire_queue' = expire_queue
  BY DEF Mutate
<1>2. storage[k] \in Object
  BY <1>0, <1>1 DEF TypeOK, Stored
<1>3. \A j \in Key \ {k} : storage'[j] = storage[j]
  BY <1>0, <1>1 DEF TypeOK
<1>4. storage'[k].val = v /\ storage'[k] # Absent
  <2>1. [val |-> v, ttl |-> storage[k].ttl] \in Object
    BY <1>2 DEF Object
  <2> QED BY <1>0, <1>1, <2>1, DBaseAssumption DEF TypeOK
<1>5. IsFiniteSet(StoredKeys') /\ Objects' = Objects - NodeBytes(k) + NodeBytes(k)'
  BY <1>0, <1>3, OneNodeChanges
<1>6. /\ NodeBytes(k) = NodeSize + ObjectSize + storage[k].val
      /\ NodeBytes(k)' = NodeSize + ObjectSize + v
  BY <1>1, <1>4 DEF NodeBytes, Stored
<1>7. v \in Int /\ storage[k].val \in Int /\ NodeSize \in Int /\ ObjectSize \in Int
  <2>1. storage[k].val \in Val
    BY <1>2 DEF Object
  <2> QED BY <2>1, Sizes
<1>8. /\ Objects \in Int /\ Entries \in Int /\ buckets \in Int /\ lost \in Int
      /\ Entries' = Entries
  BY <1>0, <1>1, LiveType DEF MInv, Counts, Entries
<1>9. FiniteStore' /\ Counts'
  BY <1>1, <1>5 DEF MInv, FiniteStore, Counts
<1>10. bytes + v \in Int
  BY <1>7
<1>11. Objects' + Entries' + buckets' + lost'
         = Objects + Entries + buckets + lost + (bytes + v) - storage[k].val
  BY <1>5, <1>6, <1>7, <1>8
<1> QED BY <1>7, <1>9, <1>10, <1>11, Settled

(* A new deadline with its entry, or without one and with bytes lost. *)
LEMMA RearmBalances ==
  ASSUME MInv, IInv', NEW k \in Key, Stored(k), NEW d \in TimePoint,
         storage' = [storage EXCEPT ![k] = [val |-> storage[k].val, ttl |-> d]],
         NEW a \in Nat, Tracked(a, QueuedBytes(k)), UNCHANGED buckets, lost' \in Nat,
         IsFiniteSet(expire_queue'),
         Entries' + lost' = Entries - QueuedBytes(k) + lost + a
  PROVE  MInv'
<1>0. TypeOK /\ TypeOK' /\ FiniteStore
  BY DEF MInv, IInv
<1>2. storage[k] \in Object
  BY <1>0 DEF TypeOK, Stored
<1>3. \A j \in Key \ {k} : storage'[j] = storage[j]
  BY <1>0 DEF TypeOK
<1>4. storage'[k].val = storage[k].val /\ storage'[k] # Absent
  <2>1. [val |-> storage[k].val, ttl |-> d] \in Object
    BY <1>2 DEF Object
  <2> QED BY <1>0, <2>1, DBaseAssumption DEF TypeOK
<1>5. IsFiniteSet(StoredKeys') /\ Objects' = Objects - NodeBytes(k) + NodeBytes(k)'
  BY <1>0, <1>3, OneNodeChanges
<1>6. NodeBytes(k)' = NodeBytes(k) /\ NodeBytes(k) \in Int
  <2>1. NodeBytes(k) \in Int
    BY <1>0, HeldType DEF HeldOK
  <2>2. NodeBytes(k)' = NodeBytes(k)
    BY <1>4 DEF NodeBytes, Stored
  <2> QED BY <2>1, <2>2
<1>7. /\ Objects \in Int /\ Entries \in Int /\ buckets \in Int /\ lost \in Int
      /\ QueuedBytes(k) \in Int
  BY <1>0, LiveType, EntryErased DEF MInv, Counts
<1>8. Entries' \in Int
  BY <1>0, FS_CardinalityType, Sizes DEF Entries, EntryBytes
<1>9. FiniteStore' /\ Counts'
  BY <1>5 DEF MInv, FiniteStore, Counts
<1>10. Objects' + Entries' + buckets' + lost'
         = Objects + Entries + buckets + lost + a - QueuedBytes(k)
  BY <1>5, <1>6, <1>7, <1>8
<1> QED BY <1>7, <1>9, <1>10, Settled

LEMMA ExpireBalances ==
  ASSUME MInv, IInv', NEW k \in Key, NEW s \in Seconds, ExpireTracked(k, s)
  PROVE  MInv'
<1>0. TypeOK /\ FiniteStore /\ IInv
  BY DEF MInv, IInv
<1>1. PICK d \in TimePoint :
        /\ Stored(k)
        /\ storage' = [storage EXCEPT ![k] = [val |-> storage[k].val, ttl |-> d]]
        /\ expire_queue' = Unqueued(k) \cup {[at |-> d, key |-> k]}
  BY <1>0, DeadlinesType DEF ExpireTracked, Expire
<1>2. Tracked(EntryBytes, QueuedBytes(k)) /\ UNCHANGED buckets /\ lost' = lost /\ lost \in Nat
  BY DEF ExpireTracked, MInv, Counts
<1>3. IsFiniteSet(expire_queue') /\ Entries' = Entries - QueuedBytes(k) + EntryBytes
  BY <1>0, <1>1, EntryQueued DEF Entries
<1>4. QueuedBytes(k) \in Int /\ Entries \in Int /\ EntryBytes \in Nat
  BY <1>0, <1>1, EntryErased, LiveType, MemoryAssumption DEF EntryBytes
<1>5. Entries' + lost' = Entries - QueuedBytes(k) + lost + EntryBytes
  BY <1>2, <1>3, <1>4
<1> QED BY <1>1, <1>2, <1>3, <1>4, <1>5, RearmBalances

LEMMA ExpireFailureBalances ==
  ASSUME MInv, IInv', NEW k \in Key, NEW s \in Seconds, ExpireFailsTracked(k, s)
  PROVE  MInv'
<1>0. TypeOK /\ FiniteStore /\ IInv
  BY DEF MInv, IInv
<1>1. PICK d \in TimePoint :
        /\ Stored(k)
        /\ storage' = [storage EXCEPT ![k] = [val |-> storage[k].val, ttl |-> d]]
        /\ expire_queue' = Unqueued(k)
  BY <1>0, DeadlinesType DEF ExpireFailsTracked, ExpireFails
<1>2. PICK bytes \in {KeySize, EntrySize} : Refused(bytes, 0, QueuedBytes(k))
  BY DEF ExpireFailsTracked
<1>3. bytes \in Nat /\ bytes + 0 = bytes
  BY MemoryAssumption
<1>4. /\ Tracked(bytes, QueuedBytes(k)) /\ UNCHANGED buckets
      /\ lost' = lost + bytes /\ lost \in Nat /\ lost' \in Nat
  BY <1>2, <1>3 DEF Refused, MInv, Counts
<1>5. IsFiniteSet(expire_queue') /\ Entries' = Entries - QueuedBytes(k)
  BY <1>0, <1>1, EntryErased DEF Entries
<1>6. QueuedBytes(k) \in Int /\ Entries \in Int
  BY <1>0, <1>1, EntryErased, LiveType
<1>7. Entries' + lost' = Entries - QueuedBytes(k) + lost + bytes
  BY <1>3, <1>4, <1>5, <1>6
<1> QED BY <1>1, <1>3, <1>4, <1>5, <1>7, RearmBalances

(* A sweep, and a flush. *)
LEMMA SweepBalances ==
  ASSUME MInv, IInv', Swept,
         \A k \in Key : storage'[k] = storage[k] \/ storage'[k] = Absent,
         expire_queue' \subseteq expire_queue, buckets' \in Nat, lost' = lost
  PROVE  MInv'
<1>0. TypeOK /\ TypeOK' /\ FiniteStore
  BY DEF MInv, IInv
<1> DEFINE gone == {k \in Key : Stored(k) /\ storage'[k] = Absent}
           nodes == SumFunction([k \in gone |-> ErasedBytes(k)])
           entries == EntryBytes * Cardinality(expire_queue \ expire_queue')
<1>1. IsFiniteSet(StoredKeys') /\ nodes \in Int /\ Objects' = Objects - nodes
  <2> DEFINE g == gone
  <2>1. g = {k \in Key : Stored(k) /\ storage'[k] = Absent}
    OBVIOUS
  <2> HIDE DEF g
  <2>2. /\ IsFiniteSet(StoredKeys')
        /\ SumFunction([k \in g |-> ErasedBytes(k)]) \in Int
        /\ Objects' = Objects - SumFunction([k \in g |-> ErasedBytes(k)])
    BY <1>0, <2>1, NodesErased
  <2> QED BY <2>2 DEF g
<1>2. /\ IsFiniteSet(expire_queue')
      /\ entries \in Int
      /\ Entries' = Entries - entries
  <2>1. /\ IsFiniteSet(expire_queue')
        /\ Cardinality(expire_queue \ expire_queue') \in Nat
        /\ EntryBytes * Cardinality(expire_queue') = EntryBytes * Cardinality(expire_queue) - entries
    BY <1>0, QueueShrinks DEF FiniteStore
  <2>2. entries \in Int
    BY <2>1, Sizes
  <2> QED BY <2>1, <2>2 DEF Entries
<1>3. Tracked(0, nodes + entries + buckets - buckets')
  BY DEF Swept
<1> HIDE DEF nodes, entries
<1>4. Objects \in Int /\ Entries \in Int /\ buckets \in Int /\ lost \in Int
  BY <1>0, LiveType DEF MInv, Counts
<1>5. nodes + entries + buckets - buckets' \in Int
  BY <1>1, <1>2, <1>4
<1>6. FiniteStore' /\ Counts'
  BY <1>1, <1>2 DEF MInv, FiniteStore, Counts
<1>7. Objects' + Entries' + buckets' + lost'
        = Objects + Entries + buckets + lost + 0 - (nodes + entries + buckets - buckets')
  BY <1>1, <1>2, <1>4
<1> QED BY <1>3, <1>5, <1>6, <1>7, Settled

LEMMA BalanceStep == NoOverflow /\ MInv /\ [MNext]_mvars => MInv'
<1> SUFFICES ASSUME NoOverflow, MInv, [MNext]_mvars PROVE MInv'
  OBVIOUS
<1>0. IInv'
  BY StepIsCoreStep, QueueStep DEF MInv
<1>a. lost \in Nat /\ buckets \in Nat
  BY DEF MInv, Counts
<1>1. ASSUME NEW k \in Key, GetTracked(k) \/ DeleteTracked(k) PROVE MInv'
  BY <1>0, <1>1, GetBalances, DeleteBalances
<1>2. ASSUME NEW k \in Key, EntryKeyFails(k) PROVE MInv'
  <2>1. /\ Tracked(KeySize + 0, 0) /\ lost' = lost + KeySize /\ UNCHANGED buckets
        /\ storage' = storage /\ expire_queue' = expire_queue
    BY <1>2 DEF EntryKeyFails, Refused, vars
  <2>2. KeySize \in Nat /\ KeySize + 0 = KeySize
    BY MemoryAssumption
  <2> QED BY <1>0, <2>1, <2>2, Idle
<1>3. ASSUME NEW k \in Key, NEW v \in Val, SetTracked(k, v) PROVE MInv'
  BY <1>0, <1>3, SetBalances
<1>4. ASSUME NEW k \in Key, NEW v \in Val, MutateTracked(k, v) PROVE MInv'
  <2>1. Mutate(k, v) /\ Tracked(v, storage[k].val) /\ lost' = lost /\ UNCHANGED buckets
    BY <1>4 DEF MutateTracked
  <2>2. 0 + v = v /\ lost + 0 = lost
    BY <1>a, Sizes
  <2> QED BY <1>0, <2>1, <2>2, MutateBalances
<1>5. ASSUME NEW k \in Key, NEW v \in Val, SetFails(k, v) PROVE MInv'
  <2>1. PICK bytes \in {ObjectSize, v} \cup (IF Stored(k) THEN {}
                ELSE {NodeSize} \cup {b \in BucketSizes : b > buckets}) : Refused(bytes, 0, 0)
    BY <1>5 DEF SetFails
  <2>2. bytes \in Nat /\ bytes + 0 = bytes
    <3>1. bytes \in {ObjectSize, NodeSize} \cup Val \cup BucketSizes
      BY <2>1
    <3>2. bytes \in Nat
      BY <3>1, MemoryAssumption
    <3> QED BY <3>2
  <2>3. /\ Tracked(bytes, 0) /\ lost' = lost + bytes /\ UNCHANGED buckets
        /\ storage' = storage /\ expire_queue' = expire_queue
    BY <1>5, <2>1, <2>2 DEF SetFails, Refused, vars
  <2> QED BY <1>0, <2>2, <2>3, Idle
<1>6. ASSUME NEW k \in Key, NEW v \in Val, NEW bytes \in Val, MutateFails(k, v, bytes) PROVE MInv'
  <2>1. /\ Mutate(k, v) /\ Tracked(bytes + v, storage[k].val)
        /\ lost' = lost + bytes /\ UNCHANGED buckets
    BY <1>6 DEF MutateFails, Refused
  <2>2. bytes \in Nat
    BY MemoryAssumption
  <2> QED BY <1>0, <2>1, <2>2, MutateBalances
<1>7. ASSUME NEW k \in Key, NEW s \in Seconds, ExpireTracked(k, s) \/ ExpireFailsTracked(k, s)
      PROVE  MInv'
  BY <1>0, <1>7, ExpireBalances, ExpireFailureBalances
<1>8. ASSUME NEW n \in Batch, ExpireCycleTracked(n) PROVE MInv'
  <2>1. PICK gone \in SUBSET Due :
          /\ storage' = [k \in Key |-> IF k \in Removed(gone) THEN Absent ELSE storage[k]]
          /\ expire_queue' = expire_queue \ gone
    BY <1>8 DEF ExpireCycleTracked, ExpireCycle
  <2>2. \A k \in Key : storage'[k] = storage[k] \/ storage'[k] = Absent
    BY <2>1
  <2>3. Swept /\ lost' = lost /\ buckets' \in Nat
    BY <1>8, <1>a DEF ExpireCycleTracked
  <2> QED BY <1>0, <2>1, <2>2, <2>3, SweepBalances
<1>9. ASSUME ClearTracked PROVE MInv'
  <2>1. /\ Swept /\ lost' = lost /\ buckets' \in Nat
        /\ expire_queue' \subseteq expire_queue
        /\ \A k \in Key : storage'[k] = storage[k] \/ storage'[k] = Absent
    BY <1>9 DEF ClearTracked, Clear
  <2> QED BY <1>0, <2>1, SweepBalances
<1>10. ASSUME storage' = storage, expire_queue' = expire_queue,
              UNCHANGED <<total_ram_usage_, buckets, lost>>
       PROVE  MInv'
  <2>1. Account' = Account
    BY <1>10 DEF Account, Live, StoredKeys, Stored
  <2>2. Balanced' /\ FiniteStore' /\ Counts'
    BY <1>10, <2>1 DEF MInv, Balanced, FiniteStore, StoredKeys, Stored, Counts
  <2> QED BY <1>0, <2>2 DEF MInv
<1>11. ASSUME Tick /\ UNCHANGED <<total_ram_usage_, buckets, lost>> PROVE MInv'
  BY <1>10, <1>11 DEF Tick
<1>12. ASSUME UNCHANGED mvars PROVE MInv'
  BY <1>10, <1>12 DEF mvars
<1> QED
  BY <1>1, <1>2, <1>3, <1>4, <1>5, <1>6, <1>7, <1>8, <1>9, <1>11, <1>12 DEF MNext

LEMMA MInvHolds == ASSUME NoOverflow PROVE MSpec => []MInv
<1>1. MInit => MInv
  <2> SUFFICES ASSUME MInit PROVE MInv
    OBVIOUS
  <2>1. IInv
    BY DEF MInit, Init, IInv, TypeOK, NoStaleEntry, EveryDeadlineQueued, Stored, NoSentinelQueued
  <2>2. StoredKeys = {} /\ expire_queue = {}
    BY DEF MInit, Init, StoredKeys, Stored
  <2>3. FiniteStore
    BY <2>2, FS_EmptySet DEF FiniteStore
  <2>4. Objects = 0
    BY <2>2, SumEmpty DEF Objects
  <2>5. Entries = 0
    <3>1. Cardinality({}) = 0
      BY FS_EmptySet
    <3> QED BY <2>2, <3>1, Sizes DEF Entries
  <2>6. Account = 0
    BY <2>4, <2>5, LiveIs DEF Account, MInit
  <2>7. 0 % SizeRange = 0
    BY MemoryAssumption
  <2> QED BY <2>1, <2>3, <2>6, <2>7 DEF MInit, MInv, Counts, Balanced
<1>2. MInv /\ [MNext]_mvars => MInv'
  BY BalanceStep
<1> QED BY <1>1, <1>2, PTL DEF MSpec

(***************************************************************************)
(* As long as what is stored, and what failures have left on the account,  *)
(* fits size_t, the usage the tracker reports is exactly that: there is no *)
(* operation, finished or broken off at any of its allocations, that       *)
(* forgets to give something back or gives it back twice.                  *)
(***************************************************************************)
THEOREM UsageExact ==
  ASSUME NoOverflow PROVE MSpec => [](Live + buckets + lost < SizeRange => UsageIsExact)
<1>1. ASSUME MInv, Live + buckets + lost < SizeRange PROVE UsageIsExact
  <2>1. Account \in 0 .. SizeRange - 1
    <3>1. Live \in Nat /\ buckets \in Nat /\ lost \in Nat
      BY <1>1, LiveIsNatural DEF MInv, IInv, Counts
    <3>2. SizeRange \in Int
      BY MemoryAssumption
    <3> QED BY <1>1, <3>1, <3>2 DEF Account
  <2>2. Account % SizeRange = Account
    BY <2>1, ModuloOfSmall, MemoryAssumption
  <2> QED BY <1>1, <2>2 DEF MInv, Balanced, UsageIsExact, Account
<1>2. MInv => (Live + buckets + lost < SizeRange => UsageIsExact)
  BY <1>1
<1> QED BY <1>2, MInvHolds, PTL
=============================================================================

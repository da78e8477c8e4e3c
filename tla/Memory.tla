------------------------------- MODULE Memory -------------------------------
(***************************************************************************)
(* How the storage core accounts for its memory (core/memory, and          *)
(* CreateObject, DataObjectDeleter and the allocators of                   *)
(* core/storage/database.h).  Every operation of DBase is joined with what *)
(* the tracker is told of its allocations, and may fail at each of them:   *)
(* std::bad_alloc reaches the client, which reports it and goes on         *)
(* (StreamClient.h:70-72).                                                 *)
(*                                                                         *)
(* A content (Val) is the number of bytes it has allocated.  Keys in the   *)
(* map have the default allocator, which tracks nothing; keys in the queue *)
(* are tracked.  Memory that is allocated and given back within one        *)
(* operation shows only when it fails.                                     *)
(***************************************************************************)
EXTENDS DBase, Functions

CONSTANTS
  ObjectSize,   \* sizeof the object, without its content
  NodeSize,     \* a node of the map
  EntrySize,    \* a node of the queue
  KeySize,      \* what a key allocates; 0 for a short one
  BucketSizes,  \* arrays of buckets, as the map grows; 0 for the one inside it
  SizeRange,    \* size_t counts modulo this
  MaxLost       \* bound of what failures cost (runs only)

VARIABLES
  total_ram_usage_,  \* the tracker's
  buckets,           \* the map's array of buckets
  lost               \* history: requests that failed

mvars == <<storage, expire_queue, now, total_ram_usage_, buckets, lost>>

ASSUME MemoryAssumption ==
  /\ Val \subseteq Nat /\ BucketSizes \subseteq Nat /\ 0 \in BucketSizes
  /\ ObjectSize \in Nat \ {0} /\ NodeSize \in Nat \ {0} /\ EntrySize \in Nat \ {0}
  /\ KeySize \in Nat /\ SizeRange \in Nat \ {0} /\ MaxLost \in Nat

-----------------------------------------------------------------------------
(* What the tracker is told. *)
Tracked(allocated, freed) ==
  total_ram_usage_' = (total_ram_usage_ + allocated - freed) % SizeRange

(* Slip: the deleter is given the size of the base class. *)
DeletedAsBase(v) == ObjectSize - 1 + v

(* An object as CreateObject makes it, and as its destructor and its deleter
   give it back. *)
Created(v) == ObjectSize + v
Deleted(v) == ObjectSize + v

EntryBytes == EntrySize + KeySize

(* Erasing a deadline from the queue gives something back only if it is
   there. *)
QueuedBytes(k) == IF HasTtl(k) /\ EntryOf(k) \in expire_queue THEN EntryBytes ELSE 0

(* A node that is erased, with its object. *)
ErasedBytes(k) == NodeSize + Deleted(storage[k].val)

MInit == Init /\ total_ram_usage_ = 0 /\ buckets = 0 /\ lost = 0

(* The object is created before the node it is put in; a new node may make
   the map grow. *)
SetTracked(k, v) ==
  /\ Set(k, v)
  /\ \/ /\ Stored(k)
        /\ Tracked(Created(v), Deleted(storage[k].val) + QueuedBytes(k))
        /\ UNCHANGED buckets
     \/ /\ ~Stored(k)
        /\ buckets' \in BucketSizes /\ buckets' >= buckets
        /\ Tracked(Created(v) + NodeSize + buckets', buckets)
  /\ UNCHANGED lost

GetTracked(k) ==
  /\ Get(k)
  /\ Tracked(0, IF Stored(k) /\ IsExpired(k) THEN ErasedBytes(k) + QueuedBytes(k) ELSE 0)
  /\ UNCHANGED <<buckets, lost>>

DeleteTracked(k) ==
  /\ Delete(k)
  /\ Tracked(0, ErasedBytes(k) + QueuedBytes(k))
  /\ UNCHANGED <<buckets, lost>>

ExpireTracked(k, s) ==
  /\ Expire(k, s)
  /\ Tracked(EntryBytes, QueuedBytes(k))
  /\ UNCHANGED <<buckets, lost>>

(* Nodes and entries that a sweep or a flush takes out. *)
Swept ==
  LET gone == {k \in Key : Stored(k) /\ storage'[k] = Absent}
  IN  Tracked(0, SumFunction([k \in gone |-> ErasedBytes(k)])
                   + EntryBytes * Cardinality(expire_queue \ expire_queue')
                   + buckets - buckets')

ExpireCycleTracked(max_keys) ==
  /\ ExpireCycle(max_keys)
  /\ UNCHANGED <<buckets, lost>>
  /\ Swept

(* The map is swapped for an empty one, which is destroyed with all it has. *)
ClearTracked == Clear /\ buckets' = 0 /\ UNCHANGED lost /\ Swept

MutateTracked(k, v) ==
  /\ Mutate(k, v)
  /\ Tracked(v, storage[k].val)
  /\ UNCHANGED <<buckets, lost>>

-----------------------------------------------------------------------------
(***************************************************************************)
(* allocate() tells the tracker first and then asks std::allocator: what   *)
(* is refused has been counted, and nobody gives it back.  Whatever was    *)
(* allocated before in the same operation is given back by its owner.      *)
(***************************************************************************)
Refused(bytes, allocated, freed) ==
  /\ AllocFails
  /\ bytes > 0 /\ lost + bytes <= MaxLost
  /\ lost' = lost + bytes
  /\ Tracked(bytes + allocated, freed)
  /\ UNCHANGED buckets

(* Slip: the old object is deleted before the new one is created. *)
SetFailsErased(k, v) ==
  /\ Refused(ObjectSize, 0, IF Stored(k) THEN ErasedBytes(k) + QueuedBytes(k) ELSE 0)
  /\ storage' = [storage EXCEPT ![k] = Absent]
  /\ expire_queue' = Unqueued(k)
  /\ UNCHANGED now

(* The object, its content, and for a key that is new a node and buckets. *)
SetFails(k, v) ==
  /\ \E bytes \in {ObjectSize, v} \cup (IF Stored(k) THEN {}
                     ELSE {NodeSize} \cup {b \in BucketSizes : b > buckets}) :
       Refused(bytes, 0, 0)
  /\ UNCHANGED vars

(* Set, Get, Delete and Expire make a copy of the key to find the entry. *)
EntryKeyFails(k) ==
  /\ Stored(k) /\ HasTtl(k)
  /\ Refused(KeySize, 0, 0)
  /\ UNCHANGED vars

(* The entry's key or its node. *)
ExpireFailsTracked(k, s) ==
  /\ ExpireFails(k, s)
  /\ \E bytes \in {KeySize, EntrySize} : Refused(bytes, 0, QueuedBytes(k))

(* Part of a change may have been made by then. *)
MutateFails(k, v, bytes) ==
  /\ Mutate(k, v)
  /\ Refused(bytes, v, storage[k].val)

MNext ==
  \/ \E k \in Key : GetTracked(k) \/ DeleteTracked(k) \/ EntryKeyFails(k)
  \/ \E k \in Key, v \in Val : SetTracked(k, v) \/ MutateTracked(k, v) \/ SetFails(k, v)
  \/ \E k \in Key, v, bytes \in Val : MutateFails(k, v, bytes)
  \/ \E k \in Key, s \in Seconds : ExpireTracked(k, s) \/ ExpireFailsTracked(k, s)
  \/ \E n \in Batch : ExpireCycleTracked(n)
  \/ ClearTracked
  \/ Tick /\ UNCHANGED <<total_ram_usage_, buckets, lost>>

MSpec == MInit /\ [][MNext]_mvars

-----------------------------------------------------------------------------
(* What the map and the queue hold. *)
StoredKeys == {k \in Key : Stored(k)}
Live == SumFunction([k \in StoredKeys |-> NodeSize + ObjectSize + storage[k].val])
        + EntryBytes * Cardinality(expire_queue)

(***************************************************************************)
(* Usage is what is stored, plus what failed requests have left on the     *)
(* account for ever: no operation, finished or failed, forgets to give     *)
(* back or gives back twice, and FLUSHDB brings the usage back to the sum  *)
(* of those failures (test_memory.cpp expects 0, where nothing has         *)
(* failed).                                                                *)
(***************************************************************************)
UsageIsExact == total_ram_usage_ = Live + buckets + lost

(***************************************************************************)
(* An operation that runs out of memory costs no key and makes none, and   *)
(* queues no deadline; at most it has changed one object, and its content  *)
(* or its deadline, not both.                                              *)
(***************************************************************************)
FailuresLoseNoKey ==
  [][lost' # lost =>
       LET changed == {k \in Key : storage'[k] # storage[k]}
       IN /\ \A k \in Key : Stored(k)' <=> Stored(k)
          /\ expire_queue' \subseteq expire_queue
          /\ Cardinality(changed) <= 1
          /\ \A k \in changed : /\ storage'[k].val = storage[k].val \/ storage'[k].ttl = storage[k].ttl
                                /\ storage'[k].val # storage[k].val => expire_queue' = expire_queue]_mvars
=============================================================================

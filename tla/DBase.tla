------------------------------- MODULE DBase -------------------------------
(***************************************************************************)
(* The storage core of DaikonDB (core/storage/database.h, class DBase):    *)
(* the map from keys to objects and the ordered queue of deadlines beside  *)
(* it.  The two are kept in step by hand in every operation: an object     *)
(* knows its deadline (expires_at_) but not its queue entry, and a sweep   *)
(* takes the queue's word for it, removing the key an entry names without  *)
(* looking at the object's own deadline.                                   *)
(*                                                                         *)
(* An object's content is opaque here (Val).  The hash that orders entries *)
(* of equal deadline is abstracted: a sweep takes equals in any order.     *)
(***************************************************************************)
EXTENDS Integers, FiniteSets

CONSTANTS
  Key,        \* keys
  Val,        \* contents of objects
  Absent,     \* storage[k] when the map has no node for k
  MaxTime,    \* bound of the clock (runs only)
  Seconds,    \* arguments of EXPIRE, already checked to be >= 0
  Horizon,    \* time points are the integers from -Horizon to Horizon - 1
  Batch,      \* the limits ExpireCycle is called with (3, 20 and 50)
  StepsBack,  \* TRUE: the system clock may be set back
  AllocFails  \* TRUE: an allocation may throw std::bad_alloc

VARIABLES
  storage,      \* storage_: key -> [val, ttl], or Absent
  expire_queue, \* expire_queue_: a set of [at, key]
  now           \* what Clock::now() returns

vars == <<storage, expire_queue, now>>

TimePoint == -Horizon .. Horizon - 1
NoTtl     == 0                          \* TimePoint{}: "no deadline"
Entry     == [at : TimePoint, key : Key]
Object    == [val : Val, ttl : TimePoint]

ASSUME DBaseAssumption ==
  /\ Absent \notin Object
  /\ Seconds \subseteq Nat
  /\ Batch \subseteq Nat \ {0}
  /\ MaxTime \in Nat \ {0}
  /\ Horizon \in Nat
  /\ MaxTime < Horizon
  /\ StepsBack \in BOOLEAN
  /\ AllocFails \in BOOLEAN

-----------------------------------------------------------------------------
Stored(k)    == storage[k] # Absent
HasTtl(k)    == storage[k].ttl # NoTtl
IsExpired(k) == HasTtl(k) /\ now >= storage[k].ttl
EntryOf(k)   == [at |-> storage[k].ttl, key |-> k]

(* Slip: seconds taken for a finer unit. *)
DeadlinesInMillis(s) == {now + 1000 * s}

(***************************************************************************)
(* Clock::now() + seconds in 64-bit nanoseconds.  Signed overflow is       *)
(* undefined, so a sum that does not fit may give any time point.          *)
(***************************************************************************)
Deadlines(s) == IF now + s < Horizon THEN {now + s} ELSE TimePoint

(* The queue without k's entry, if k is an object that has one. *)
Unqueued(k) ==
  IF Stored(k) /\ HasTtl(k) THEN expire_queue \ {EntryOf(k)} ELSE expire_queue

Init == /\ storage = [k \in Key |-> Absent]
        /\ expire_queue = {}
        /\ now \in 1 .. MaxTime

-----------------------------------------------------------------------------
(* Slip: the replaced object's entry stays queued. *)
SetKeepsEntry(k, v) ==
  /\ storage' = [storage EXCEPT ![k] = [val |-> v, ttl |-> NoTtl]]
  /\ UNCHANGED <<expire_queue, now>>

Set(k, v) ==
  /\ expire_queue' = Unqueued(k)
  /\ storage' = [storage EXCEPT ![k] = [val |-> v, ttl |-> NoTtl]]
  /\ UNCHANGED now

(***************************************************************************)
(* The lazy side of expiry: a reader that meets an expired object drops    *)
(* it; any other Get leaves the database as it is.                         *)
(***************************************************************************)
Get(k) ==
  /\ IF Stored(k) /\ IsExpired(k)
       THEN /\ expire_queue' = Unqueued(k)
            /\ storage' = [storage EXCEPT ![k] = Absent]
       ELSE UNCHANGED <<storage, expire_queue>>
  /\ UNCHANGED now

Delete(k) ==
  /\ Stored(k)
  /\ expire_queue' = Unqueued(k)
  /\ storage' = [storage EXCEPT ![k] = Absent]
  /\ UNCHANGED now

(* Slips: a renewed deadline leaves the old entry, or gets no new one. *)
ExpireKeepsEntry(k, s) ==
  /\ Stored(k)
  /\ \E d \in Deadlines(s) :
       /\ storage' = [storage EXCEPT ![k] = [val |-> storage[k].val, ttl |-> d]]
       /\ expire_queue' = expire_queue \cup {[at |-> d, key |-> k]}
  /\ UNCHANGED now

ExpireDoesNotRequeue(k, s) ==
  /\ Stored(k)
  /\ \E d \in Deadlines(s) :
       /\ storage' = [storage EXCEPT ![k] = [val |-> storage[k].val, ttl |-> d]]
       /\ expire_queue' = IF HasTtl(k) THEN Unqueued(k)
                                       ELSE expire_queue \cup {[at |-> d, key |-> k]}
  /\ UNCHANGED now

Expire(k, s) ==
  /\ Stored(k)
  /\ \E d \in Deadlines(s) :
       /\ storage' = [storage EXCEPT ![k] = [val |-> storage[k].val, ttl |-> d]]
       /\ expire_queue' = Unqueued(k) \cup {[at |-> d, key |-> k]}
  /\ UNCHANGED now

(***************************************************************************)
(* The queue's emplace allocates after the deadline was set.  StreamClient *)
(* reports std::bad_alloc and goes on (StreamClient.h:70-72), so the       *)
(* object keeps a deadline no entry stands for.  Wherever else DBase       *)
(* allocates, a failure leaves everything as it was.                       *)
(***************************************************************************)
ExpireFails(k, s) ==
  /\ AllocFails
  /\ Stored(k)
  /\ \E d \in Deadlines(s) :
       storage' = [storage EXCEPT ![k] = [val |-> storage[k].val, ttl |-> d]]
  /\ expire_queue' = Unqueued(k)
  /\ UNCHANGED now

(***************************************************************************)
(* The active side: ExpireCycle(max_keys) consumes the queue from its      *)
(* front.  Only an entry whose key is still in the map counts against the  *)
(* limit, and the loop ends with the entry that reaches it.                *)
(***************************************************************************)
Due == {e \in expire_queue : e.at <= now}

Removed(gone) == {k \in Key : Stored(k) /\ \E e \in gone : e.key = k}

(* Slip: the queue is not taken from its front. *)
FrontUnordered(gone, max_keys) ==
  \/ gone = Due /\ Cardinality(Removed(gone)) < max_keys
  \/ Cardinality(Removed(gone)) = max_keys /\ Cardinality(gone) = max_keys

Front(gone, max_keys) ==
  /\ \A e \in gone, f \in Due \ gone : e.at <= f.at
  /\ \/ /\ gone = Due
        /\ Cardinality(Removed(gone)) < max_keys
     \/ /\ Cardinality(Removed(gone)) = max_keys
        /\ \E last \in gone :
             /\ \A e \in gone : e.at <= last.at
             /\ Cardinality(Removed(gone \ {last})) < max_keys

ExpireCycle(max_keys) ==
  \E gone \in SUBSET Due :
    /\ Front(gone, max_keys)
    /\ storage' = [k \in Key |-> IF k \in Removed(gone) THEN Absent ELSE storage[k]]
    /\ expire_queue' = expire_queue \ gone
    /\ UNCHANGED now

Clear ==
  /\ storage' = [k \in Key |-> Absent]
  /\ expire_queue' = {}
  /\ UNCHANGED now

(* A command changes an object through the pointer Get gave it. *)
Mutate(k, v) ==
  /\ Stored(k)
  /\ storage' = [storage EXCEPT ![k] = [val |-> v, ttl |-> storage[k].ttl]]
  /\ UNCHANGED <<expire_queue, now>>

(* system_clock is not steady: it may be set back. *)
Tick ==
  /\ now' \in 1 .. MaxTime
  /\ now' > now \/ StepsBack
  /\ UNCHANGED <<storage, expire_queue>>

Next ==
  \/ \E k \in Key : Get(k) \/ Delete(k)
  \/ \E k \in Key, v \in Val : Set(k, v) \/ Mutate(k, v)
  \/ \E k \in Key, s \in Seconds : Stored(k) /\ (Expire(k, s) \/ ExpireFails(k, s))
  \/ \E n \in Batch : ExpireCycle(n)
  \/ Clear
  \/ Tick

Spec == Init /\ [][Next]_vars

(***************************************************************************)
(* Fairness for the active sweep.  With has_active_del_ set (the           *)
(* constructor's default) every write command begins with a sweep, so a    *)
(* client that goes on writing provides it; the clock goes on by itself.   *)
(***************************************************************************)
SweptSpec == Spec /\ WF_vars(\E n \in Batch : ExpireCycle(n))

-----------------------------------------------------------------------------
(* Types: a queue of entries and a map of objects. *)
TypeOK == /\ storage \in [Key -> Object \cup {Absent}]
          /\ expire_queue \subseteq Entry
          /\ now \in 1 .. MaxTime

(***************************************************************************)
(* Every queue entry is the current deadline of an object that is stored.  *)
(* A stale entry would make a later sweep delete an object whose deadline  *)
(* was moved, or one that replaced it: Set, Get, Delete and Expire must    *)
(* each take the old entry out (database.h:92-95, :106-109, :119-122,      *)
(* :133-135).                                                              *)
(***************************************************************************)
NoStaleEntry == \A e \in expire_queue : Stored(e.key) /\ storage[e.key].ttl = e.at

(***************************************************************************)
(* Every object with a deadline is in the queue, or no sweep would ever    *)
(* collect it.  It holds as long as no allocation fails.                   *)
(***************************************************************************)
EveryDeadlineQueued == \A k \in Key : Stored(k) /\ HasTtl(k) => EntryOf(k) \in expire_queue

(* No time a client can ask for reaches the end of the time line. *)
NoOverflow == \A s \in Seconds : MaxTime + s < Horizon

(***************************************************************************)
(* What makes NoStaleEntry inductive: "no deadline" is never queued.  Set  *)
(* and Delete look for an entry only if the object has a deadline.         *)
(***************************************************************************)
NoSentinelQueued == \A e \in expire_queue : e.at # NoTtl

IInv == /\ TypeOK
        /\ NoStaleEntry
        /\ NoSentinelQueued
        /\ AllocFails \/ EveryDeadlineQueued

(***************************************************************************)
(* Whatever a sweep takes had expired: it carried a deadline and the       *)
(* deadline had passed.  ExpireCycle itself never checks.                  *)
(***************************************************************************)
OnlyExpiredCollected ==
  [][(\E n \in Batch : ExpireCycle(n)) =>
       \A k \in Key : Stored(k) /\ ~Stored(k)' => IsExpired(k)]_vars

(* The core implements the abstract store. *)
Store == INSTANCE TtlStore WITH map <- storage
ImplementsTtlStore == Store!Spec

(***************************************************************************)
(* An object whose deadline has passed is not starved: although a sweep    *)
(* may end after one key, and clients may go on for ever making other keys *)
(* expire (EXPIRE k 0 does so at once), its turn comes, because the queue  *)
(* is taken from its oldest deadline (database.h:147-160).  Passed means   *)
(* before now: where the clock has reached its bound, deadlines equal to   *)
(* now can be made without end, and equals have no order here.             *)
(***************************************************************************)
Overdue(k) == Stored(k) /\ HasTtl(k) /\ storage[k].ttl < now

NoKeyStarves == \A k \in Key : Overdue(k) ~> ~Overdue(k)

(***************************************************************************)
(* README.md:97 has expired records removed on access.  So an object that  *)
(* has expired is not given a deadline in the future again: it is removed, *)
(* replaced by a fresh one, or stays expired.                              *)
(***************************************************************************)
ExpiredStaysExpired ==
  [][\A k \in Key :
       Stored(k) /\ IsExpired(k) /\ Stored(k)' /\ HasTtl(k)' => IsExpired(k)']_vars
=============================================================================

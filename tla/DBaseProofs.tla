---------------------------- MODULE DBaseProofs ----------------------------
(***************************************************************************)
(* Theorems about DBase for every set of keys, contents, TTLs and limits.  *)
(***************************************************************************)
EXTENDS DBase, TLAPS

-----------------------------------------------------------------------------
(* A deadline is a time point, whether or not the sum overflowed. *)
LEMMA DeadlinesType ==
  ASSUME TypeOK, NEW s \in Seconds
  PROVE  Deadlines(s) \subseteq TimePoint
  BY DBaseAssumption DEF TypeOK, Deadlines, TimePoint

(* Without overflow there is one deadline, in the future of the epoch. *)
LEMMA DeadlineExact ==
  ASSUME TypeOK, NoOverflow, NEW s \in Seconds
  PROVE  Deadlines(s) = {now + s} /\ now + s # NoTtl
<1>1. s \in Nat /\ now \in Nat \ {0} /\ now <= MaxTime /\ MaxTime \in Nat /\ Horizon \in Nat
  BY DBaseAssumption DEF TypeOK
<1>2. MaxTime + s < Horizon
  BY DEF NoOverflow
<1> QED BY <1>1, <1>2 DEF Deadlines, NoTtl

LEMMA EntryOfType ==
  ASSUME TypeOK, NEW k \in Key, Stored(k)
  PROVE  /\ storage[k] \in Object
         /\ EntryOf(k) \in Entry
  BY DEF TypeOK, Stored, Object, EntryOf, Entry

LEMMA UnqueuedShrinks ==
  ASSUME NEW k \in Key
  PROVE  Unqueued(k) \subseteq expire_queue
  BY DEF Unqueued

-----------------------------------------------------------------------------
(* Every step keeps the types. *)
LEMMA TypeStep == TypeOK /\ [Next]_vars => TypeOK'
<1> SUFFICES ASSUME TypeOK, [Next]_vars PROVE TypeOK'
  OBVIOUS
<1>1. ASSUME NEW k \in Key, Get(k) PROVE TypeOK'
  <2>1. CASE Stored(k) /\ IsExpired(k)
    BY <1>1, <2>1, UnqueuedShrinks DEF Get, TypeOK
  <2>2. CASE ~(Stored(k) /\ IsExpired(k))
    BY <1>1, <2>2 DEF Get, TypeOK
  <2> QED BY <2>1, <2>2
<1>2. ASSUME NEW k \in Key, Delete(k) PROVE TypeOK'
  BY <1>2, UnqueuedShrinks DEF Delete, TypeOK
<1>3. ASSUME NEW k \in Key, NEW v \in Val, Set(k, v) PROVE TypeOK'
  <2>1. [val |-> v, ttl |-> NoTtl] \in Object
    BY DBaseAssumption DEF Object, TimePoint, NoTtl
  <2> QED BY <1>3, <2>1, UnqueuedShrinks DEF Set, TypeOK
<1>4. ASSUME NEW k \in Key, NEW v \in Val, Mutate(k, v) PROVE TypeOK'
  <2>1. [val |-> v, ttl |-> storage[k].ttl] \in Object
    BY <1>4, EntryOfType DEF Mutate, Object
  <2> QED BY <1>4, <2>1 DEF Mutate, TypeOK
<1>5. ASSUME NEW k \in Key, NEW s \in Seconds, Expire(k, s) PROVE TypeOK'
  <2>1. PICK d \in Deadlines(s) :
          /\ storage' = [storage EXCEPT ![k] = [val |-> storage[k].val, ttl |-> d]]
          /\ expire_queue' = Unqueued(k) \cup {[at |-> d, key |-> k]}
    BY <1>5 DEF Expire
  <2>2. d \in TimePoint
    BY DeadlinesType
  <2>3. [val |-> storage[k].val, ttl |-> d] \in Object
    BY <1>5, <2>2, EntryOfType DEF Expire, Object
  <2>4. [at |-> d, key |-> k] \in Entry
    BY <2>2 DEF Entry
  <2>5. UNCHANGED now
    BY <1>5 DEF Expire
  <2> QED BY <2>1, <2>3, <2>4, <2>5, UnqueuedShrinks DEF TypeOK
<1>5f. ASSUME NEW k \in Key, NEW s \in Seconds, ExpireFails(k, s) PROVE TypeOK'
  <2>1. PICK d \in Deadlines(s) :
          storage' = [storage EXCEPT ![k] = [val |-> storage[k].val, ttl |-> d]]
    BY <1>5f DEF ExpireFails
  <2>2. [val |-> storage[k].val, ttl |-> d] \in Object
    BY <1>5f, DeadlinesType, EntryOfType DEF ExpireFails, Object
  <2> QED BY <1>5f, <2>1, <2>2, UnqueuedShrinks DEF ExpireFails, TypeOK
<1>6. ASSUME NEW n \in Batch, ExpireCycle(n) PROVE TypeOK'
  BY <1>6 DEF ExpireCycle, TypeOK
<1>7. ASSUME Clear PROVE TypeOK'
  BY <1>7 DEF Clear, TypeOK
<1>8. ASSUME Tick PROVE TypeOK'
  BY <1>8 DEF Tick, TypeOK
<1>9. ASSUME UNCHANGED vars PROVE TypeOK'
  BY <1>9 DEF vars, TypeOK
<1> QED BY <1>1, <1>2, <1>3, <1>4, <1>5, <1>5f, <1>6, <1>7, <1>8, <1>9 DEF Next

(* The variables of DBase keep their types, overflow or not. *)
THEOREM Typing == Spec => []TypeOK
<1>1. Init => TypeOK
  BY DEF Init, TypeOK
<1> QED BY <1>1, TypeStep, PTL DEF Spec

-----------------------------------------------------------------------------
(* Taking k's entry out leaves no entry of k, and every entry of the others. *)
LEMMA UnqueuedForgets ==
  ASSUME IInv, NEW k \in Key
  PROVE  \A e \in expire_queue : e \in Unqueued(k) <=> e.key # k
<1> SUFFICES ASSUME NEW e \in expire_queue
             PROVE  e \in Unqueued(k) <=> e.key # k
  OBVIOUS
<1>1. e \in Entry /\ Stored(e.key) /\ storage[e.key].ttl = e.at /\ e.at # NoTtl
  BY DEF IInv, TypeOK, NoStaleEntry, NoSentinelQueued
<1>2. e = [at |-> e.at, key |-> e.key]
  BY <1>1 DEF Entry
<1>3. CASE e.key = k
  BY <1>1, <1>2, <1>3 DEF Unqueued, HasTtl, EntryOf
<1>4. CASE e.key # k
  BY <1>2, <1>4 DEF Unqueued, EntryOf
<1> QED BY <1>3, <1>4

(* Every step of the loop of a sweep drops an entry and the key it names. *)
LEMMA SweepTakesPairs ==
  ASSUME IInv, NEW gone \in SUBSET Due
  PROVE  /\ \A k \in Removed(gone) : Stored(k) /\ IsExpired(k) /\ EntryOf(k) \in gone
         /\ \A e \in gone : e.key \in Removed(gone)
<1> USE DEF IInv, TypeOK, NoStaleEntry, NoSentinelQueued, Due
<1>1. ASSUME NEW k \in Removed(gone)
      PROVE  Stored(k) /\ IsExpired(k) /\ EntryOf(k) \in gone
  <2>1. PICK e \in gone : Stored(k) /\ e.key = k
    BY DEF Removed
  <2>2. storage[k].ttl = e.at /\ e.at # NoTtl /\ e.at <= now
    BY <2>1
  <2>3. e = [at |-> e.at, key |-> e.key]
    BY DEF Entry
  <2>4. now \in Int /\ e.at \in Int
    BY DEF Entry, TimePoint
  <2> QED BY <2>1, <2>2, <2>3, <2>4 DEF IsExpired, HasTtl, EntryOf
<1>2. ASSUME NEW e \in gone PROVE e.key \in Removed(gone)
  BY DEF Removed, Entry
<1> QED BY <1>1, <1>2

(* Removing a key together with its entry keeps the rest in step. *)
LEMMA DropStep ==
  ASSUME IInv, TypeOK', NEW k \in Key,
         storage' = [storage EXCEPT ![k] = Absent],
         expire_queue' = Unqueued(k)
  PROVE  IInv'
<1> USE DEF IInv
<1>1. storage'[k] = Absent /\ \A j \in Key \ {k} : storage'[j] = storage[j]
  BY DEF TypeOK
<1>2. \A e \in expire_queue' : e \in expire_queue /\ e.key # k /\ e.key \in Key
  BY UnqueuedForgets, UnqueuedShrinks DEF TypeOK, Entry
<1>3. NoStaleEntry'
  BY <1>1, <1>2 DEF NoStaleEntry, Stored
<1>4. ASSUME ~AllocFails PROVE EveryDeadlineQueued'
  <2> SUFFICES ASSUME NEW j \in Key, Stored(j)', HasTtl(j)'
               PROVE  EntryOf(j)' \in expire_queue'
    BY DEF EveryDeadlineQueued
  <2>1. j # k /\ storage'[j] = storage[j] /\ Stored(j) /\ HasTtl(j)
    BY <1>1 DEF Stored, HasTtl
  <2>2. EntryOf(j) \in expire_queue /\ EntryOf(j)' = EntryOf(j) /\ EntryOf(j).key # k
    BY <1>4, <2>1 DEF EveryDeadlineQueued, EntryOf
  <2> QED BY <2>2, UnqueuedForgets
<1>5. NoSentinelQueued'
  BY <1>2 DEF NoSentinelQueued
<1> QED BY <1>3, <1>4, <1>5

(***************************************************************************)
(* A step that gives k an object with deadline d and queues it if d is a   *)
(* deadline keeps queue and map in step: Set with none, Expire with one.   *)
(* Where an allocation fails the new entry may be missing.                 *)
(***************************************************************************)
LEMMA RenewStep ==
  ASSUME IInv, TypeOK', NEW k \in Key, NEW v, NEW d,
         storage' = [storage EXCEPT ![k] = [val |-> v, ttl |-> d]],
         expire_queue' \subseteq Unqueued(k) \cup
                           (IF d = NoTtl THEN {} ELSE {[at |-> d, key |-> k]}),
         AllocFails \/ expire_queue' = Unqueued(k) \cup
                           (IF d = NoTtl THEN {} ELSE {[at |-> d, key |-> k]}),
         storage'[k] # Absent
  PROVE  IInv'
<1> USE DEF IInv
<1>1. storage'[k].ttl = d /\ \A j \in Key \ {k} : storage'[j] = storage[j]
  BY DEF TypeOK
<1>2. \A e \in Unqueued(k) : e \in expire_queue /\ e.key # k /\ e.key \in Key
  BY UnqueuedForgets, UnqueuedShrinks DEF TypeOK, Entry
<1>3. NoStaleEntry'
  <2> SUFFICES ASSUME NEW e \in expire_queue'
               PROVE  Stored(e.key)' /\ storage'[e.key].ttl = e.at
    BY DEF NoStaleEntry
  <2>1. CASE e \in Unqueued(k)
    BY <1>1, <1>2, <2>1 DEF NoStaleEntry, Stored
  <2>2. CASE e \notin Unqueued(k)
    <3>1. e = [at |-> d, key |-> k]
      BY <2>2
    <3> QED BY <1>1, <3>1 DEF Stored
  <2> QED BY <2>1, <2>2
<1>4. ASSUME ~AllocFails PROVE EveryDeadlineQueued'
  <2> SUFFICES ASSUME NEW j \in Key, Stored(j)', HasTtl(j)'
               PROVE  EntryOf(j)' \in expire_queue'
    BY DEF EveryDeadlineQueued
  <2>1. CASE j = k
    BY <1>1, <1>4, <2>1 DEF HasTtl, EntryOf
  <2>2. CASE j # k
    <3>1. storage'[j] = storage[j] /\ Stored(j) /\ HasTtl(j)
      BY <1>1, <2>2 DEF Stored, HasTtl
    <3>2. EntryOf(j) \in expire_queue /\ EntryOf(j)' = EntryOf(j) /\ EntryOf(j).key # k
      BY <1>4, <2>2, <3>1 DEF EveryDeadlineQueued, EntryOf
    <3> QED BY <1>4, <3>2, UnqueuedForgets
  <2> QED BY <2>1, <2>2
<1>5. NoSentinelQueued'
  <2> SUFFICES ASSUME NEW e \in expire_queue' PROVE e.at # NoTtl
    BY DEF NoSentinelQueued
  <2> QED BY <1>2 DEF NoSentinelQueued
<1> QED BY <1>3, <1>4, <1>5

-----------------------------------------------------------------------------
LEMMA QueueStep == NoOverflow /\ IInv /\ [Next]_vars => IInv'
<1> SUFFICES ASSUME NoOverflow, IInv, [Next]_vars PROVE IInv'
  OBVIOUS
<1> USE DEF TypeOK
<1>0. TypeOK /\ TypeOK'
  BY TypeStep DEF IInv
<1>1. ASSUME NEW k \in Key, Get(k) PROVE IInv'
  <2>1. CASE Stored(k) /\ IsExpired(k)
    BY <1>0, <1>1, <2>1, DropStep DEF Get
  <2>2. CASE ~(Stored(k) /\ IsExpired(k))
    BY <1>0, <1>1, <2>2 DEF Get, IInv, NoStaleEntry, Stored,
       EveryDeadlineQueued, HasTtl, EntryOf, NoSentinelQueued
  <2> QED BY <2>1, <2>2
<1>2. ASSUME NEW k \in Key, Delete(k) PROVE IInv'
  BY <1>0, <1>2, DropStep DEF Delete
<1>3. ASSUME NEW k \in Key, NEW v \in Val, Set(k, v) PROVE IInv'
  <2>1. storage'[k] # Absent
    BY <1>3, DBaseAssumption DEF Set, IInv, Object, TimePoint, NoTtl
  <2>2. expire_queue' = Unqueued(k) \cup {}
    BY <1>3 DEF Set
  <2> QED BY <1>0, <1>3, <2>1, <2>2, RenewStep DEF Set
<1>4. ASSUME NEW k \in Key, NEW v \in Val, Mutate(k, v) PROVE IInv'
  <2>1. \A j \in Key : /\ Stored(j)' <=> Stored(j)
                       /\ Stored(j) => storage'[j].ttl = storage[j].ttl
    <3>1. [val |-> v, ttl |-> storage[k].ttl] \in Object
      BY <1>0, <1>4, EntryOfType DEF Mutate, Object
    <3> QED BY <1>4, <3>1, DBaseAssumption DEF Mutate, Stored, IInv
  <2>2. expire_queue' = expire_queue /\ \A e \in expire_queue : e.key \in Key
    BY <1>4 DEF Mutate, IInv, Entry
  <2>3. NoStaleEntry'
    BY <2>1, <2>2 DEF IInv, NoStaleEntry
  <2>4. AllocFails \/ EveryDeadlineQueued'
    BY <2>1, <2>2 DEF IInv, EveryDeadlineQueued, HasTtl, EntryOf
  <2>5. NoSentinelQueued'
    BY <2>2 DEF IInv, NoSentinelQueued
  <2> QED BY <1>0, <2>3, <2>4, <2>5 DEF IInv
<1>5. ASSUME NEW k \in Key, NEW s \in Seconds, Expire(k, s) PROVE IInv'
  <2>1. /\ now + s # NoTtl
        /\ storage' = [storage EXCEPT ![k] = [val |-> storage[k].val, ttl |-> now + s]]
        /\ expire_queue' = Unqueued(k) \cup {[at |-> now + s, key |-> k]}
    <3>1. Deadlines(s) = {now + s} /\ now + s # NoTtl
      BY <1>0, DeadlineExact
    <3>2. PICK d \in Deadlines(s) :
            /\ storage' = [storage EXCEPT ![k] = [val |-> storage[k].val, ttl |-> d]]
            /\ expire_queue' = Unqueued(k) \cup {[at |-> d, key |-> k]}
      BY <1>5 DEF Expire
    <3>3. d = now + s
      BY <3>1, <3>2
    <3> QED BY <3>1, <3>2, <3>3
  <2>2. storage'[k] # Absent
    BY <1>0, <2>1, DBaseAssumption, EntryOfType, <1>5, DeadlineExact, DeadlinesType
    DEF Expire, Object
  <2> QED BY <1>0, <2>1, <2>2, RenewStep
<1>5f. ASSUME NEW k \in Key, NEW s \in Seconds, ExpireFails(k, s) PROVE IInv'
  <2>1. /\ AllocFails
        /\ storage' = [storage EXCEPT ![k] = [val |-> storage[k].val, ttl |-> now + s]]
        /\ expire_queue' \subseteq Unqueued(k)
    BY <1>0, <1>5f, DeadlineExact DEF ExpireFails
  <2>2. storage'[k] # Absent
    BY <1>0, <2>1, DBaseAssumption, EntryOfType, <1>5f, DeadlineExact, DeadlinesType
    DEF ExpireFails, Object
  <2> QED BY <1>0, <2>1, <2>2, RenewStep
<1>6. ASSUME NEW n \in Batch, ExpireCycle(n) PROVE IInv'
  <2>1. PICK gone \in SUBSET Due :
          /\ storage' = [k \in Key |-> IF k \in Removed(gone) THEN Absent ELSE storage[k]]
          /\ expire_queue' = expire_queue \ gone
    BY <1>6 DEF ExpireCycle
  <2>2. \A e \in expire_queue \ gone : e.key \in Key /\ e.key \notin Removed(gone)
    <3> SUFFICES ASSUME NEW e \in expire_queue \ gone, e.key \in Removed(gone)
                 PROVE  FALSE
      BY DEF IInv, Entry
    <3>1. EntryOf(e.key) \in gone
      BY SweepTakesPairs
    <3>2. e = EntryOf(e.key)
      BY DEF IInv, NoStaleEntry, EntryOf, Entry
    <3> QED BY <3>1, <3>2
  <2>3. NoStaleEntry'
    BY <2>1, <2>2 DEF IInv, NoStaleEntry, Stored
  <2>4. ASSUME ~AllocFails PROVE EveryDeadlineQueued'
    <3> SUFFICES ASSUME NEW k \in Key, Stored(k)', HasTtl(k)'
                 PROVE  EntryOf(k)' \in expire_queue'
      BY DEF EveryDeadlineQueued
    <3>1. storage'[k] = storage[k] /\ k \notin Removed(gone) /\ Stored(k) /\ HasTtl(k)
      BY <2>1 DEF Stored, HasTtl
    <3>2. EntryOf(k) \in expire_queue /\ EntryOf(k).key = k
      BY <2>4, <3>1 DEF IInv, EveryDeadlineQueued, EntryOf
    <3>3. EntryOf(k) \notin gone
      BY <3>1, <3>2, SweepTakesPairs
    <3> QED BY <2>1, <3>1, <3>2, <3>3 DEF EntryOf
  <2>5. NoSentinelQueued'
    BY <2>1 DEF IInv, NoSentinelQueued
  <2> QED BY <1>0, <2>3, <2>4, <2>5 DEF IInv
<1>7. ASSUME Clear PROVE IInv'
  BY <1>0, <1>7 DEF Clear, IInv, NoStaleEntry, Stored,
     EveryDeadlineQueued, NoSentinelQueued
<1>8. ASSUME Tick PROVE IInv'
  BY <1>0, <1>8 DEF Tick, IInv, NoStaleEntry, Stored,
     EveryDeadlineQueued, HasTtl, EntryOf, NoSentinelQueued
<1>9. ASSUME UNCHANGED vars PROVE IInv'
  BY <1>0, <1>9 DEF vars, IInv, NoStaleEntry, Stored,
     EveryDeadlineQueued, HasTtl, EntryOf, NoSentinelQueued
<1> QED BY <1>1, <1>2, <1>3, <1>4, <1>5, <1>5f, <1>6, <1>7, <1>8, <1>9 DEF Next

LEMMA Invariance == ASSUME NoOverflow PROVE Spec => []IInv
<1>1. Init => IInv
  BY DEF Init, IInv, TypeOK, NoStaleEntry,
     EveryDeadlineQueued, Stored, NoSentinelQueued
<1>2. IInv /\ [Next]_vars => IInv'
  BY QueueStep
<1> QED BY <1>1, <1>2, PTL DEF Spec

(***************************************************************************)
(* As long as no deadline overflows, every entry is the deadline of a      *)
(* stored object, even where allocations fail; where none fails, every     *)
(* deadline is queued as well.                                             *)
(***************************************************************************)
THEOREM NoStaleEntries == ASSUME NoOverflow PROVE Spec => []NoStaleEntry
<1>1. IInv => NoStaleEntry
  BY DEF IInv
<1> QED BY <1>1, Invariance, PTL

THEOREM DeadlinesQueued ==
  ASSUME NoOverflow, ~AllocFails PROVE Spec => []EveryDeadlineQueued
<1>1. IInv => EveryDeadlineQueued
  BY DEF IInv
<1> QED BY <1>1, Invariance, PTL

(***************************************************************************)
(* A sweep takes expired objects only, though it never looks at an         *)
(* object's deadline: the queue it trusts is in step with the map.         *)
(***************************************************************************)
THEOREM SweepIsSafe == ASSUME NoOverflow PROVE Spec => OnlyExpiredCollected
<1>1. ASSUME IInv, NEW n \in Batch, ExpireCycle(n), NEW k \in Key, Stored(k), ~Stored(k)'
      PROVE  IsExpired(k)
  <2>1. PICK gone \in SUBSET Due :
          storage' = [j \in Key |-> IF j \in Removed(gone) THEN Absent ELSE storage[j]]
    BY <1>1 DEF ExpireCycle
  <2>2. k \in Removed(gone)
    BY <1>1, <2>1 DEF Stored
  <2> QED BY <1>1, <2>2, SweepTakesPairs
<1>2. IInv => [(\E n \in Batch : ExpireCycle(n)) =>
                 \A k \in Key : Stored(k) /\ ~Stored(k)' => IsExpired(k)]_vars
  BY <1>1
<1> QED BY <1>2, Invariance, PTL DEF Spec, OnlyExpiredCollected

-----------------------------------------------------------------------------
(* The set of keys a sweep removes is one the abstract sweep may remove. *)
LEMMA SweepRefines ==
  ASSUME IInv, ~AllocFails, NEW n \in Batch, ExpireCycle(n)
  PROVE  Store!Sweep
<1>1. PICK gone \in SUBSET Due :
        /\ Front(gone, n)
        /\ storage' = [k \in Key |-> IF k \in Removed(gone) THEN Absent ELSE storage[k]]
        /\ UNCHANGED now
  BY DEF ExpireCycle
<1> DEFINE keys == Removed(gone)
<1>2. keys \subseteq Key
  BY DEF Removed
<1>3. \A k \in keys : Store!Expired(k)
  BY <1>2, SweepTakesPairs
  DEF Store!Expired, Store!Stored, Store!NoTtl, Stored, IsExpired, HasTtl, NoTtl,
      IInv, TypeOK, Object, TimePoint
<1>4. ASSUME NEW k \in keys, NEW j \in Key \ keys, Store!Expired(j)
      PROVE  storage[k].ttl <= storage[j].ttl
  <2>1. EntryOf(k) \in gone
    BY SweepTakesPairs
  <2>2. Stored(j) /\ HasTtl(j) /\ storage[j].ttl <= now
    BY <1>4 DEF Store!Expired, Store!Stored, Store!NoTtl, Stored, HasTtl, NoTtl
  <2>3. EntryOf(j) \in Due
    BY <2>2 DEF IInv, EveryDeadlineQueued, Due, EntryOf
  <2>4. EntryOf(j).key = j
    BY DEF EntryOf
  <2>5. EntryOf(j) \notin gone
    BY <2>4, SweepTakesPairs
  <2>6. EntryOf(k).at <= EntryOf(j).at
    BY <1>1, <2>1, <2>3, <2>5 DEF Front
  <2> QED BY <2>6 DEF EntryOf
<1>5. storage' = [k \in Key |-> IF k \in keys THEN Absent ELSE storage[k]]
  BY <1>1
<1> QED BY <1>1, <1>2, <1>3, <1>4, <1>5 DEF Store!Sweep

(* Every step of the core is a step of the abstract store or a stutter. *)
LEMMA StepRefines ==
  NoOverflow /\ ~AllocFails /\ IInv /\ [Next]_vars => [Store!Next]_Store!vars
<1> SUFFICES ASSUME NoOverflow, ~AllocFails, IInv, [Next]_vars PROVE [Store!Next]_Store!vars
  OBVIOUS
<1>0. TypeOK
  BY DEF IInv
<1>1. ASSUME NEW k \in Key, Get(k) PROVE [Store!Next]_Store!vars
  <2>1. CASE Stored(k) /\ IsExpired(k)
    BY <1>1, <2>1 DEF Get, Store!Remove, Store!Next
  <2>2. CASE ~(Stored(k) /\ IsExpired(k))
    BY <1>1, <2>2 DEF Get, Store!vars
  <2> QED BY <2>1, <2>2
<1>2. ASSUME NEW k \in Key, Delete(k) PROVE Store!Next
  BY <1>2 DEF Delete, Store!Remove, Store!Next
<1>3. ASSUME NEW k \in Key, NEW v \in Val, Set(k, v) PROVE Store!Next
  BY <1>3 DEF Set, NoTtl, Store!NoTtl, Store!Put, Store!Next
<1>4. ASSUME NEW k \in Key, NEW v \in Val, Mutate(k, v) PROVE Store!Next
  BY <1>4 DEF Mutate, Stored, Store!Stored, Store!Update, Store!Next
<1>5. ASSUME NEW k \in Key, NEW s \in Seconds, Expire(k, s) PROVE Store!Next
  <2>1. Store!Arm(k, s)
    BY <1>0, <1>5, DeadlineExact DEF Expire, Stored, Store!Stored, Store!Arm
  <2> QED BY <2>1 DEF Store!Next
<1>5f. ASSUME NEW k \in Key, NEW s \in Seconds, ExpireFails(k, s) PROVE Store!Next
  BY <1>5f DEF ExpireFails
<1>6. ASSUME NEW n \in Batch, ExpireCycle(n) PROVE Store!Next
  BY <1>6, SweepRefines DEF Store!Next
<1>7. ASSUME Clear PROVE Store!Next
  BY <1>7 DEF Clear, Store!Flush, Store!Next
<1>8. ASSUME Tick PROVE Store!Next
  BY <1>8, DBaseAssumption DEF Tick, Store!Clock, Store!Next
<1>9. ASSUME UNCHANGED vars PROVE UNCHANGED Store!vars
  BY <1>9 DEF vars, Store!vars
<1> QED BY <1>1, <1>2, <1>3, <1>4, <1>5, <1>5f, <1>6, <1>7, <1>8, <1>9 DEF Next

(***************************************************************************)
(* The core implements the abstract store: to a client that never asks for *)
(* a deadline beyond the end of time, and where no allocation fails, the   *)
(* queue cannot be told from a search of the whole map.                    *)
(***************************************************************************)
THEOREM Refinement == ASSUME NoOverflow, ~AllocFails PROVE Spec => ImplementsTtlStore
<1>1. Init => Store!Init
  BY DBaseAssumption DEF Init, Store!Init
<1>2. IInv /\ [Next]_vars => [Store!Next]_Store!vars
  BY StepRefines
<1> QED BY <1>1, <1>2, Invariance, PTL DEF Spec, ImplementsTtlStore, Store!Spec

=============================================================================

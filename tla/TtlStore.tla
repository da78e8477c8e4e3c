------------------------------ MODULE TtlStore ------------------------------
(***************************************************************************)
(* What the storage core of DaikonDB promises to the layer above it: a map *)
(* from keys to entries, some of which carry a deadline.  Nothing here     *)
(* knows of the expiry queue or of how a sweep finds its victims: a sweep  *)
(* removes expired entries only, those whose deadline came first before    *)
(* the others, and a deadline is the time of the EXPIRE plus its seconds.  *)
(* DBase implements this specification.                                    *)
(***************************************************************************)
EXTENDS Integers

CONSTANTS
  Key,          \* the keys clients use
  Val,          \* the contents an entry can have
  Absent,       \* what the map holds for a key that is not stored
  Seconds       \* the TTLs clients ask for

VARIABLES
  map,          \* map[k] is an entry [val, ttl], or Absent
  now           \* the wall clock

vars == <<map, now>>

NoTtl == 0

Stored(k)  == map[k] # Absent
Expired(k) == Stored(k) /\ map[k].ttl # NoTtl /\ map[k].ttl <= now

-----------------------------------------------------------------------------
Init == /\ map = [k \in Key |-> Absent]
        /\ now \in Nat \ {0}

(* A new entry replaces what was there, deadline included. *)
Put(k, v) ==
  /\ map' = [map EXCEPT ![k] = [val |-> v, ttl |-> NoTtl]]
  /\ UNCHANGED now

(* The content of an entry changes; its deadline does not. *)
Update(k, v) ==
  /\ Stored(k)
  /\ map' = [map EXCEPT ![k] = [val |-> v, ttl |-> map[k].ttl]]
  /\ UNCHANGED now

Arm(k, s) ==
  /\ Stored(k)
  /\ map' = [map EXCEPT ![k] = [val |-> map[k].val, ttl |-> now + s]]
  /\ UNCHANGED now

Remove(k) ==
  /\ map' = [map EXCEPT ![k] = Absent]
  /\ UNCHANGED now

(* A sweep removes some of the expired entries, the oldest deadlines first. *)
Sweep ==
  \E gone \in SUBSET Key :
    /\ \A k \in gone : Expired(k)
    /\ \A k \in gone, j \in Key \ gone : Expired(j) => map[k].ttl <= map[j].ttl
    /\ map' = [k \in Key |-> IF k \in gone THEN Absent ELSE map[k]]
    /\ UNCHANGED now

Flush ==
  /\ map' = [k \in Key |-> Absent]
  /\ UNCHANGED now

Clock ==
  /\ now' \in Nat \ {0}
  /\ UNCHANGED map

Next ==
  \/ \E k \in Key : Remove(k)
  \/ \E k \in Key, v \in Val : Put(k, v) \/ Update(k, v)
  \/ \E k \in Key, s \in Seconds : Arm(k, s)
  \/ Sweep
  \/ Flush
  \/ Clock

Spec == Init /\ [][Next]_vars
=============================================================================

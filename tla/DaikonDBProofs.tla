--------------------------- MODULE DaikonDBProofs ---------------------------
(***************************************************************************)
(* Theorems about DaikonDB for every set of keys, commands, limits and     *)
(* estimates.  What they need of the storage core comes from the lemmas of *)
(* DBaseProofs, instantiated as DaikonDB instantiates DBase.               *)
(***************************************************************************)
EXTENDS DaikonDB, FiniteSetTheorems, TLAPS

Core == INSTANCE DBaseProofs
          WITH Val <- DataObj, Batch <- {ActiveBatch, FullBatch, LimitBatch}

-----------------------------------------------------------------------------
(***************************************************************************)
(* DB and Core are two instances of one module: their definitions agree.   *)
(***************************************************************************)
LEMMA SameTypes ==
  (Core!TypeOK <=> DB!TypeOK) /\ (Core!TypeOK' <=> DB!TypeOK')
  BY DEF DB!TypeOK, DB!Object, DB!Entry, DB!TimePoint,
         Core!TypeOK, Core!Object, Core!Entry, Core!TimePoint

LEMMA SameInvariant ==
  (Core!IInv <=> DB!IInv) /\ (Core!IInv' <=> DB!IInv')
  BY DEF DB!IInv, DB!TypeOK, DB!Object, DB!Entry, DB!TimePoint, DB!NoStaleEntry,
         DB!NoSentinelQueued, DB!EveryDeadlineQueued, DB!Stored, DB!HasTtl, DB!EntryOf, DB!NoTtl,
         Core!IInv, Core!TypeOK, Core!Object, Core!Entry, Core!TimePoint, Core!NoStaleEntry,
         Core!NoSentinelQueued, Core!EveryDeadlineQueued, Core!Stored, Core!HasTtl,
         Core!EntryOf, Core!NoTtl

LEMMA SameCardinality ==
  ASSUME NEW S
  PROVE  DB!Cardinality(S) = Cardinality(S) /\ Core!Cardinality(S) = Cardinality(S)
  BY DEF DB!Cardinality, Core!Cardinality, Cardinality

LEMMA SameSteps == DB!Next => Core!Next
<1> USE DEF DB!Stored, DB!HasTtl, DB!NoTtl, DB!EntryOf, DB!Unqueued, DB!IsExpired,
            DB!Deadlines, DB!TimePoint, DB!Removed, DB!Due,
            Core!Stored, Core!HasTtl, Core!NoTtl, Core!EntryOf, Core!Unqueued,
            Core!IsExpired, Core!Deadlines, Core!TimePoint, Core!Removed, Core!Due
<1>1. \A k \in Key : (DB!Get(k) => Core!Get(k)) /\ (DB!Delete(k) => Core!Delete(k))
  BY DEF DB!Get, Core!Get, DB!Delete, Core!Delete
<1>2. \A k \in Key, v \in DataObj :
        (DB!Set(k, v) => Core!Set(k, v)) /\ (DB!Mutate(k, v) => Core!Mutate(k, v))
  BY DEF DB!Set, Core!Set, DB!Mutate, Core!Mutate
<1>3. \A k \in Key, s \in Seconds :
        DB!Stored(k) /\ (DB!Expire(k, s) \/ DB!ExpireFails(k, s))
          => Core!Stored(k) /\ (Core!Expire(k, s) \/ Core!ExpireFails(k, s))
  BY DEF DB!Expire, Core!Expire, DB!ExpireFails, Core!ExpireFails
<1>4. \A n : DB!ExpireCycle(n) => Core!ExpireCycle(n)
  <2>1. \A gone : DB!Removed(gone) = Core!Removed(gone)
    OBVIOUS
  <2>2. \A gone : DB!Cardinality(DB!Removed(gone)) = Core!Cardinality(Core!Removed(gone))
    BY <2>1, SameCardinality
  <2>3. DB!Due = Core!Due
    OBVIOUS
  <2> HIDE DEF DB!Removed, Core!Removed, DB!Due, Core!Due
  <2>4. \A gone, n : DB!Front(gone, n) => Core!Front(gone, n)
    BY <2>2, <2>3 DEF DB!Front, Core!Front
  <2> QED BY <2>1, <2>3, <2>4 DEF DB!ExpireCycle, Core!ExpireCycle
<1>5. (DB!Clear => Core!Clear) /\ (DB!Tick => Core!Tick)
  BY DEF DB!Clear, Core!Clear, DB!Tick, Core!Tick
<1> QED BY <1>1, <1>2, <1>3, <1>4, <1>5 DEF DB!Next, Core!Next

(* The assumption DBase makes of its constants. *)
LEMMA CoreAssumption ==
  /\ Absent \notin Core!Object
  /\ Seconds \subseteq Nat
  /\ {ActiveBatch, FullBatch, LimitBatch} \subseteq Nat \ {0}
  /\ MaxTime \in Nat \ {0}
  /\ Horizon \in Nat
  /\ MaxTime < Horizon
  /\ StepsBack \in BOOLEAN
  /\ AllocFails \in BOOLEAN
  BY DaikonDBAssumption
  DEF ActiveBatch, FullBatch, LimitBatch, DB!Object, Core!Object, DB!TimePoint, Core!TimePoint

LEMMA CoreTypeStep == DB!TypeOK /\ [DB!Next]_dbvars => DB!TypeOK'
  BY SameTypes, SameSteps, CoreAssumption, Core!TypeStep, Core!DBaseAssumption
  DEF dbvars, Core!vars

LEMMA CoreQueueStep ==
  DB!NoOverflow /\ DB!IInv /\ [DB!Next]_dbvars => DB!IInv'
<1>1. DB!NoOverflow => Core!NoOverflow
  BY DEF DB!NoOverflow, Core!NoOverflow
<1> QED BY <1>1, SameInvariant, SameSteps, CoreAssumption, Core!QueueStep, Core!DBaseAssumption
        DEF dbvars, Core!vars

-----------------------------------------------------------------------------
(***************************************************************************)
(* The inductive invariant.  How far a command has come:                   *)
(***************************************************************************)
Progress ==
  /\ pc = "idle" => held = {}
  /\ pc # "idle" => cmd \in Command /\ reply = "none"
  /\ pc = "get" =>
       /\ cmd.op # "DEL"
       /\ \/ todo = Lookups(cmd) /\ held = {}
          \/ /\ Len(cmd.keys) = 2 /\ cmd.op # "GEOSEARCHSTORE"
             /\ todo = <<cmd.keys[2]>>
             /\ \A h \in held : h.key = cmd.keys[1]
  /\ pc = "check" => cmd.op = "SMOVE"
  /\ pc = "delete" => todo # <<>> /\ held = {}

(* SMOVE erases a member the source still has. *)
MoveHasMember ==
  pc = "use2" => /\ cmd.op = "SMOVE"
                 /\ DB!Stored(cmd.keys[1]) => SizeOf(cmd.keys[1]) > 0

(***************************************************************************)
(* A command that will create its key finds the place empty; SET may find  *)
(* the string it replaces.  No sweep and no step of the clock changes it.  *)
(***************************************************************************)
CreatesInPlace ==
  pc \in {"limit", "use"} /\ cmd.op \in Creates =>
    \/ ~DB!Stored(cmd.keys[1])
    \/ cmd.op = "SET" /\ TypeOf(cmd.keys[1]) = "string"
    \/ cmd.op # "SET" /\ held # {}

(* Until a command writes it has touched nothing alive. *)
TouchedLate == touched => pc \in {"idle", "use2", "delete"} \/ cmd.op = "GEOADD"

(* What the types depend on, overflow or not; then the whole. *)
WellFormed == TypeOK /\ Progress /\ MoveHasMember

IInv == /\ WellFormed
        /\ DB!IInv
        /\ CreatesInPlace
        /\ TouchedLate

-----------------------------------------------------------------------------
(* Keys come in sequences of one or two. *)
LEMMA Sequences1 ==
  ASSUME NEW k
  PROVE  <<k>> # <<>> /\ Len(<<k>>) = 1 /\ Head(<<k>>) = k /\ Tail(<<k>>) = <<>>
  OBVIOUS

LEMMA Sequences2 ==
  ASSUME NEW p \in Key \X Key
  PROVE  /\ p[1] \in Key /\ p[2] \in Key
         /\ p = <<p[1], p[2]>> /\ p # <<>> /\ Len(p) = 2
         /\ Head(p) = p[1] /\ Tail(p) = <<p[2]>>
<1>1. PICK x \in Key, y \in Key : p = <<x, y>>
  OBVIOUS
<1>2. p[1] = x /\ p[2] = y /\ p # <<>>
  BY <1>1
<1>3. Len(p) = 2 /\ Head(p) = x
  BY <1>1
<1>4. Tail(p) = <<y>>
  BY <1>1
<1> QED BY <1>1, <1>2, <1>3, <1>4

LEMMA CommandKeys ==
  ASSUME NEW c \in Command
  PROVE  /\ c.keys[1] \in Key
         /\ \/ /\ c.op \in Creates \cup Removes \cup {"LSET", "LINSERT"}
               /\ c.keys = <<c.keys[1]>>
            \/ /\ c.op \in Combine \cup {"SMOVE", "GEOSEARCHSTORE", "DEL"}
               /\ c.keys \in Key \X Key
<1>1. CASE c \in [op : Ops \cap (Creates \cup Removes \cup {"LSET", "LINSERT"}),
                  keys : {<<k>> : k \in Key}]
  <2>1. PICK k \in Key : c.keys = <<k>>
    BY <1>1
  <2> QED BY <1>1, <2>1
<1>2. CASE c \in [op : Ops \cap (Combine \cup {"SMOVE", "GEOSEARCHSTORE", "DEL"}),
                  keys : Key \X Key]
  BY <1>2, Sequences2
<1> QED BY <1>1, <1>2 DEF Command

(* What a stored object is made of. *)
LEMMA ObjectParts ==
  ASSUME TypeOK, NEW k \in Key, DB!Stored(k)
  PROVE  /\ storage[k] \in DB!Object
         /\ storage[k].val = [type |-> TypeOf(k), size |-> SizeOf(k)]
         /\ TypeOf(k) \in Type /\ SizeOf(k) \in 0 .. MaxSize
         /\ storage[k].ttl \in DB!TimePoint
  BY DEF TypeOK, DB!TypeOK, DB!Stored, DB!Object, DataObj, TypeOf, SizeOf

-----------------------------------------------------------------------------
(* What the commands do to the database are steps of the core. *)
LEMMA SetIsStep ==
  ASSUME NEW k \in Key, NEW t \in Type, NEW n \in 0 .. MaxSize,
         DB!Set(k, [type |-> t, size |-> n])
  PROVE  DB!Next
<1>1. [type |-> t, size |-> n] \in DataObj
  BY DEF DataObj
<1> QED BY <1>1 DEF DB!Next

LEMMA WriteIsStep ==
  ASSUME TypeOK, NEW k \in Key, NEW n, DB!Stored(k) => n \in 0 .. MaxSize, Write(k, n)
  PROVE  [DB!Next]_dbvars
<1>1. CASE DB!Stored(k)
  <2>1. [type |-> TypeOf(k), size |-> n] \in DataObj
    BY <1>1, ObjectParts DEF DataObj
  <2> QED BY <1>1, <2>1 DEF Write, DB!Next
<1>2. CASE ~DB!Stored(k)
  BY <1>2 DEF Write
<1> QED BY <1>1, <1>2

(* The sizes a command may give an object are sizes an object may have. *)
LEMMA SizesInRange ==
  ASSUME TypeOK, NEW k \in Key, DB!Stored(k)
  PROVE  Grown(k) \subseteq 0 .. MaxSize /\ Shrunk(k) \subseteq 0 .. MaxSize
<1>1. MaxSize \in Nat
  BY DaikonDBAssumption
<1>2. SizeOf(k) \in 0 .. MaxSize
  BY ObjectParts
<1>3. Grown(k) = SizeOf(k) .. MaxSize /\ Shrunk(k) = 0 .. SizeOf(k)
  BY DEF Grown, Shrunk
<1> QED BY <1>1, <1>2, <1>3

LEMMA DriveStep == WellFormed /\ [Next]_vars => [DB!Next]_dbvars
<1> SUFFICES ASSUME WellFormed, [Next]_vars PROVE [DB!Next]_dbvars
  OBVIOUS
<1>0. TypeOK /\ Progress /\ MoveHasMember
  BY DEF WellFormed
<1>a. pc # "idle" => /\ cmd.keys[1] \in Key
                     /\ cmd.op \in {"SMOVE", "GEOSEARCHSTORE"} => cmd.keys[2] \in Key
  BY <1>0, CommandKeys, Sequences2 DEF Progress, Creates, Removes
<1>b. \A n \in {ActiveBatch, FullBatch, LimitBatch} : DB!ExpireCycle(n) => DB!Next
  BY DEF DB!Next
<1>1. ASSUME NEW c \in Command, Begin(c) PROVE [DB!Next]_dbvars
  BY <1>1, <1>b DEF Begin
<1>2. ASSUME Lookup PROVE [DB!Next]_dbvars
  <2>1. Head(todo) \in Key
    <3>1. /\ cmd \in Command
          /\ todo = Lookups(cmd) \/ (todo = <<cmd.keys[2]>> /\ Len(cmd.keys) = 2)
      BY <1>0, <1>2 DEF Lookup, Progress
    <3> QED BY <3>1, CommandKeys, Sequences1, Sequences2 DEF Lookups
  <2>2. DB!Get(Head(todo))
    BY <1>2 DEF Lookup
  <2> QED BY <2>1, <2>2 DEF DB!Next
<1>3. ASSUME CheckMove PROVE [DB!Next]_dbvars
  BY <1>3 DEF CheckMove
<1>4. ASSUME CheckLimit PROVE [DB!Next]_dbvars
  BY <1>4, <1>b DEF CheckLimit
<1>5. ASSUME UseCreate PROVE [DB!Next]_dbvars
  BY <1>5, <1>a, SetIsStep DEF UseCreate
<1>6. ASSUME UseUpdate PROVE [DB!Next]_dbvars
  BY <1>6, <1>0, <1>a, SizesInRange, WriteIsStep DEF UseUpdate
<1>7. ASSUME UseMiss PROVE [DB!Next]_dbvars
  BY <1>7 DEF UseMiss
<1>8. ASSUME UseSet PROVE [DB!Next]_dbvars
  BY <1>8, <1>0, <1>a, WriteIsStep DEF UseSet
<1>9. ASSUME UseRemove PROVE [DB!Next]_dbvars
  <2>1. PICK n \in Shrunk(cmd.keys[1]) :
          DB!Delete(cmd.keys[1]) \/ Write(cmd.keys[1], n)
    BY <1>9 DEF UseRemove
  <2>2. CASE DB!Delete(cmd.keys[1])
    BY <1>9, <1>a, <2>2 DEF UseRemove, DB!Next
  <2>3. CASE Write(cmd.keys[1], n)
    BY <1>9, <1>0, <1>a, <2>3, SizesInRange, WriteIsStep DEF UseRemove
  <2> QED BY <2>1, <2>2, <2>3
<1>10. ASSUME UseMove PROVE [DB!Next]_dbvars
  BY <1>10, <1>0, <1>a, SizesInRange, WriteIsStep DEF UseMove
<1>11. ASSUME UseMoveErase PROVE [DB!Next]_dbvars
  <2> DEFINE n == IF DB!Stored(cmd.keys[1]) THEN SizeOf(cmd.keys[1]) - 1 ELSE 0
  <2>1. Write(cmd.keys[1], n) /\ pc = "use2"
    BY <1>11 DEF UseMoveErase
  <2>2. DB!Stored(cmd.keys[1]) => n \in 0 .. MaxSize
    <3> SUFFICES ASSUME DB!Stored(cmd.keys[1]) PROVE n \in 0 .. MaxSize
      OBVIOUS
    <3>1. n = SizeOf(cmd.keys[1]) - 1 /\ SizeOf(cmd.keys[1]) > 0
      BY <1>0, <2>1 DEF MoveHasMember
    <3>2. SizeOf(cmd.keys[1]) \in 0 .. MaxSize /\ MaxSize \in Nat
      BY <1>0, <1>a, <2>1, ObjectParts, DaikonDBAssumption
    <3> QED BY <3>1, <3>2
  <2> HIDE DEF n
  <2> QED BY <1>0, <1>a, <2>1, <2>2, WriteIsStep
<1>12. ASSUME UseStore PROVE [DB!Next]_dbvars
  BY <1>12, <1>a, SetIsStep DEF UseStore, Type
<1>13. ASSUME UseRead PROVE [DB!Next]_dbvars
  BY <1>13 DEF UseRead
<1>14. ASSUME UseDelete PROVE [DB!Next]_dbvars
  <2>1. Head(todo) \in Key
    BY <1>0, <1>14, Sequences1, Sequences2 DEF UseDelete, TypeOK, Progress
  <2> QED BY <1>14, <2>1 DEF UseDelete, DB!Next
<1>15. ASSUME NEW k \in Key, Read(k) PROVE [DB!Next]_dbvars
  BY <1>15 DEF Read, DB!Next
<1>16. ASSUME NEW k \in Key, NEW s \in Seconds, Expire(k, s) PROVE [DB!Next]_dbvars
  <2>1. DB!Stored(k)
    BY <1>16 DEF Expire, DB!Expire, DB!ExpireFails
  <2> QED BY <1>16, <2>1 DEF Expire, DB!Next
<1>17. ASSUME Flushdb PROVE [DB!Next]_dbvars
  BY <1>17 DEF Flushdb, DB!Next
<1>18. ASSUME NEW bytes \in Limits, ConfigSetMaxmemory(bytes) PROVE [DB!Next]_dbvars
  BY <1>18 DEF ConfigSetMaxmemory
<1>19. ASSUME IsMemoryFull PROVE [DB!Next]_dbvars
  BY <1>19, <1>b DEF IsMemoryFull
<1>20. ASSUME Tick PROVE [DB!Next]_dbvars
  BY <1>20 DEF Tick, DB!Next
<1>21. ASSUME UNCHANGED vars PROVE [DB!Next]_dbvars
  BY <1>21 DEF vars, dbvars
<1> QED BY <1>1, <1>2, <1>3, <1>4, <1>5, <1>6, <1>7, <1>8, <1>9, <1>10, <1>11, <1>12,
           <1>13, <1>14, <1>15, <1>16, <1>17, <1>18, <1>19, <1>20, <1>21
        DEF Next, Continue

-----------------------------------------------------------------------------
(* A command that ends leaves nothing behind. *)
LEMMA FinishForm ==
  ASSUME WellFormed, DB!TypeOK', UNCHANGED maxmemory_,
         NEW r \in {"ok", "nil", "wrongtype", "oom"}, Finish(r)
  PROVE  WellFormed'
<1>1. TypeOK'
  BY DEF WellFormed, TypeOK, Finish, Record, Touches
<1>2. Progress' /\ MoveHasMember'
  BY DEF Finish, Progress, MoveHasMember
<1> QED BY <1>1, <1>2 DEF WellFormed

(* A command that goes on with what it holds. *)
LEMMA GoOnForm ==
  ASSUME WellFormed, DB!TypeOK', UNCHANGED maxmemory_, pc # "idle",
         NEW p \in {"limit", "use"}, GoTo(p), UNCHANGED <<todo, held>>, left' \in 0 .. 2
  PROVE  WellFormed'
<1>1. TypeOK'
  BY DEF WellFormed, TypeOK, GoTo, Record, Touches
<1>2. Progress' /\ MoveHasMember'
  BY DEF WellFormed, GoTo, Progress, MoveHasMember
<1> QED BY <1>1, <1>2 DEF WellFormed

LEMMA BeginForm ==
  ASSUME WellFormed, DB!TypeOK', NEW c \in Command, Begin(c)
  PROVE  WellFormed'
<1>1. /\ pc' = IF c.op = "DEL" THEN "delete" ELSE "get"
      /\ cmd' = c /\ todo' = Lookups(c) /\ held' = {} /\ reply' = "none" /\ touched' = FALSE
      /\ left' \in 0 .. 2 /\ maxmemory_' = maxmemory_
  BY DEF Begin
<1>2. /\ Lookups(c) \in {<<k>> : k \in Key} \cup (Key \X Key)
      /\ Lookups(c) # <<>>
  BY CommandKeys, Sequences1, Sequences2 DEF Lookups
<1>3. TypeOK'
  BY <1>1, <1>2 DEF WellFormed, TypeOK
<1>4. Progress'
  BY <1>1, <1>2 DEF Progress
<1> QED BY <1>1, <1>3, <1>4 DEF WellFormed, MoveHasMember

(* The key a lookup is about: the only one, the first or the second. *)
NextLookup ==
  LET k == Head(todo)
  IN \/ /\ k = cmd.keys[1] /\ Tail(todo) = <<>> /\ held = {}
     \/ /\ cmd.keys \in Key \X Key /\ cmd.op # "GEOSEARCHSTORE"
        /\ \/ k = cmd.keys[1] /\ Tail(todo) = <<cmd.keys[2]>> /\ held = {}
           \/ k = cmd.keys[2] /\ Tail(todo) = <<>> /\ \A h \in held : h.key = cmd.keys[1]

LEMMA LookupOrder ==
  ASSUME Progress, pc = "get"
  PROVE  NextLookup
<1>0. cmd \in Command
  BY DEF Progress
<1>1. CASE todo = Lookups(cmd) /\ held = {}
  <2>1. CASE cmd.op = "GEOSEARCHSTORE"
    BY <1>1, <2>1, Sequences1 DEF Lookups, NextLookup
  <2>2. CASE cmd.op # "GEOSEARCHSTORE" /\ cmd.keys = <<cmd.keys[1]>>
    BY <1>1, <2>2, Sequences1 DEF Lookups, NextLookup
  <2>3. CASE cmd.op # "GEOSEARCHSTORE" /\ cmd.keys \in Key \X Key
    <3>1. Head(todo) = cmd.keys[1] /\ Tail(todo) = <<cmd.keys[2]>>
      BY <1>1, <2>3, Sequences2 DEF Lookups
    <3> QED BY <1>1, <2>3, <3>1 DEF NextLookup
  <2> QED BY <1>0, <2>1, <2>2, <2>3, CommandKeys
<1>2. CASE /\ Len(cmd.keys) = 2 /\ cmd.op # "GEOSEARCHSTORE"
           /\ todo = <<cmd.keys[2]>>
           /\ \A h \in held : h.key = cmd.keys[1]
  <2>1. cmd.keys # <<cmd.keys[1]>>
    BY <1>2, Sequences1
  <2>2. cmd.keys \in Key \X Key
    BY <1>0, <2>1, CommandKeys
  <2>3. Head(todo) = cmd.keys[2] /\ Tail(todo) = <<>>
    BY <1>2, Sequences1
  <2> QED BY <1>2, <2>2, <2>3 DEF NextLookup
<1> QED BY <1>1, <1>2 DEF Progress

LEMMA LookupForm ==
  ASSUME WellFormed, DB!TypeOK', Lookup
  PROVE  WellFormed'
<1> DEFINE k == Head(todo)
<1>0. TypeOK /\ Progress /\ pc = "get" /\ UNCHANGED maxmemory_ /\ cmd \in Command
  BY DEF WellFormed, Lookup, Progress
<1>1. CASE Finish("wrongtype") \/ Finish("nil")
  BY <1>0, <1>1, FinishForm
<1>2. CASE GoTo(AfterLookups) /\ todo' = Tail(todo) /\ Keep(k) /\ UNCHANGED left
  <2>1. NextLookup
    BY <1>0, <1>2, LookupOrder
  <2>2. k \in Key /\ cmd.keys[1] \in Key
    BY <1>0, <2>1, CommandKeys, Sequences2 DEF NextLookup
  <2>3. todo' \in {<<>>} \cup {<<j>> : j \in Key} \cup (Key \X Key)
    BY <1>2, <2>1, Sequences2 DEF NextLookup
  <2>4. held' \subseteq Handle /\ \A h \in held' : h \in held \/ h.key = k
    <3>1. CASE Found(k) /\ cmd.op \notin Forgets
      <4>1. [key |-> k, ttl |-> storage[k].ttl] \in Handle
        BY <1>0, <2>2, <3>1, ObjectParts DEF Found, Handle
      <4> QED BY <1>0, <1>2, <3>1, <4>1 DEF Keep, TypeOK
    <3>2. CASE ~(Found(k) /\ cmd.op \notin Forgets)
      BY <1>0, <1>2, <3>2 DEF Keep, TypeOK
    <3> QED BY <3>1, <3>2
  <2>5. /\ AfterLookups \in {"get", "check", "use", "limit"}
        /\ AfterLookups = "get" => todo' # <<>>
        /\ AfterLookups = "check" => cmd.op = "SMOVE"
    BY <1>2 DEF AfterLookups
  <2>6. pc' = AfterLookups /\ cmd' = cmd /\ reply' = reply /\ touched' \in BOOLEAN
    BY <1>0, <1>2 DEF GoTo, Record, Touches, TypeOK
  <2>7. TypeOK'
    BY <1>0, <1>2, <2>3, <2>4, <2>5, <2>6 DEF TypeOK
  <2>8. Progress'
    BY <1>0, <1>2, <2>1, <2>4, <2>5, <2>6 DEF Progress, NextLookup
  <2>9. MoveHasMember'
    BY <2>5, <2>6 DEF MoveHasMember
  <2> QED BY <2>7, <2>8, <2>9 DEF WellFormed
<1> QED BY <1>1, <1>2 DEF Lookup

LEMMA MoveForm ==
  ASSUME WellFormed, DB!TypeOK', UseMove
  PROVE  WellFormed'
<1>0. TypeOK /\ Progress /\ pc = "use" /\ cmd.op = "SMOVE" /\ cmd \in Command
      /\ UNCHANGED maxmemory_
  BY DEF WellFormed, UseMove, Progress
<1>1. CASE Finish("nil")
  BY <1>0, <1>1, FinishForm
<1>2. CASE GoTo("use2")
  <2>1. PICK n \in Grown(cmd.keys[2]) :
          /\ UNCHANGED <<todo, held, left>>
          /\ DB!Stored(cmd.keys[1]) => SizeOf(cmd.keys[1]) > 0
          /\ Write(cmd.keys[2], n)
    BY <1>0, <1>2 DEF UseMove, Finish, GoTo
  <2>2. TypeOK' /\ Progress'
    BY <1>0, <1>2, <2>1 DEF TypeOK, Progress, GoTo, Record, Touches
  <2>3. cmd.keys[1] \in Key /\ cmd.keys[2] \in Key
    BY <1>0, CommandKeys, Sequences2 DEF Creates, Removes
  <2>4. DB!Stored(cmd.keys[1])' => SizeOf(cmd.keys[1])' > 0
    <3> SUFFICES ASSUME DB!Stored(cmd.keys[1])' PROVE storage'[cmd.keys[1]].val.size > 0
      BY <1>2 DEF GoTo, SizeOf
    <3>1. CASE ~DB!Stored(cmd.keys[2])
      BY <1>2, <2>1, <3>1 DEF Write, dbvars, DB!Stored, SizeOf, GoTo
    <3>2. CASE DB!Stored(cmd.keys[2])
      <4>1. storage' = [storage EXCEPT ![cmd.keys[2]] =
                          [val |-> [type |-> TypeOf(cmd.keys[2]), size |-> n],
                           ttl |-> storage[cmd.keys[2]].ttl]]
        BY <2>1, <3>2 DEF Write, DB!Mutate
      <4>2. CASE cmd.keys[1] = cmd.keys[2]
        <5>1. storage'[cmd.keys[1]].val.size = n
          BY <1>0, <2>3, <4>1, <4>2 DEF TypeOK, DB!TypeOK
        <5>2. SizeOf(cmd.keys[2]) \in 0 .. MaxSize
          BY <1>0, <2>3, <3>2, ObjectParts
        <5>2a. SizeOf(cmd.keys[2]) > 0
          BY <2>1, <3>2, <4>2
        <5>3. n \in SizeOf(cmd.keys[2]) .. MaxSize /\ MaxSize \in Nat
          BY <3>2, DaikonDBAssumption DEF Grown
        <5> QED BY <5>1, <5>2, <5>2a, <5>3
      <4>3. CASE cmd.keys[1] # cmd.keys[2]
        <5>1. storage'[cmd.keys[1]] = storage[cmd.keys[1]]
          BY <1>0, <2>3, <4>1, <4>3 DEF TypeOK, DB!TypeOK
        <5> QED BY <1>2, <2>1, <5>1 DEF DB!Stored, SizeOf, GoTo
      <4> QED BY <4>2, <4>3
    <3> QED BY <3>1, <3>2
  <2> QED BY <1>0, <1>2, <2>2, <2>4 DEF WellFormed, MoveHasMember, GoTo
<1> QED BY <1>1, <1>2 DEF UseMove

LEMMA DeleteForm ==
  ASSUME WellFormed, DB!TypeOK', UseDelete
  PROVE  WellFormed'
<1>0. TypeOK /\ Progress /\ pc = "delete" /\ UNCHANGED maxmemory_
  BY DEF WellFormed, UseDelete
<1>1. CASE Finish("ok")
  BY <1>0, <1>1, FinishForm
<1>2. CASE GoTo("delete") /\ Tail(todo) # <<>> /\ todo' = Tail(todo) /\ UNCHANGED <<held, left>>
  <2>1. todo' \in {<<>>} \cup {<<j>> : j \in Key} \cup (Key \X Key)
    BY <1>0, <1>2, Sequences1, Sequences2 DEF TypeOK, Progress
  <2>2. TypeOK' /\ Progress' /\ MoveHasMember'
    BY <1>0, <1>2, <2>1 DEF TypeOK, Progress, MoveHasMember, GoTo, Record, Touches
  <2> QED BY <2>2 DEF WellFormed
<1> QED BY <1>1, <1>2 DEF UseDelete

(* What happens between commands, and the clock at any time. *)
LEMMA OutsideForm ==
  ASSUME WellFormed, DB!TypeOK', maxmemory_' \in Limits,
         UNCHANGED <<pc, cmd, todo, held, left, reply, touched>>,
         pc = "idle" \/ UNCHANGED storage
  PROVE  WellFormed'
  BY DEF WellFormed, TypeOK, Progress, MoveHasMember, DB!Stored, SizeOf, Lookups

LEMMA FormStep == WellFormed /\ [Next]_vars => WellFormed'
<1> SUFFICES ASSUME WellFormed, [Next]_vars PROVE WellFormed'
  OBVIOUS
<1>0. DB!TypeOK' /\ maxmemory_ \in Limits /\ left \in 0 .. 2
  BY DriveStep, CoreTypeStep DEF WellFormed, TypeOK
<1>1. ASSUME NEW c \in Command, Begin(c) PROVE WellFormed'
  BY <1>0, <1>1, BeginForm
<1>2. ASSUME Lookup PROVE WellFormed'
  BY <1>0, <1>2, LookupForm
<1>3. ASSUME CheckMove PROVE WellFormed'
  BY <1>0, <1>3, FinishForm, GoOnForm DEF CheckMove
<1>4. ASSUME CheckLimit PROVE WellFormed'
  BY <1>0, <1>4, FinishForm, GoOnForm DEF CheckLimit
<1>5. ASSUME UseCreate \/ UseMiss \/ UseSet \/ UseRemove \/ UseMoveErase \/ UseStore \/ UseRead
      PROVE  WellFormed'
  BY <1>0, <1>5, FinishForm
  DEF UseCreate, UseMiss, UseSet, UseRemove, UseMoveErase, UseStore, UseRead
<1>6. ASSUME UseUpdate PROVE WellFormed'
  BY <1>0, <1>6, FinishForm, GoOnForm DEF UseUpdate
<1>7. ASSUME UseMove PROVE WellFormed'
  BY <1>0, <1>7, MoveForm
<1>8. ASSUME UseDelete PROVE WellFormed'
  BY <1>0, <1>8, DeleteForm
<1>9. ASSUME NEW k \in Key, Read(k) PROVE WellFormed'
  BY <1>0, <1>9, OutsideForm DEF Read, Quiet
<1>10. ASSUME NEW k \in Key, NEW s \in Seconds, Expire(k, s) PROVE WellFormed'
  BY <1>0, <1>10, OutsideForm DEF Expire, Quiet
<1>11. ASSUME Flushdb \/ IsMemoryFull PROVE WellFormed'
  BY <1>0, <1>11, OutsideForm DEF Flushdb, IsMemoryFull, Quiet
<1>12. ASSUME NEW bytes \in Limits, ConfigSetMaxmemory(bytes) PROVE WellFormed'
  BY <1>0, <1>12, OutsideForm DEF ConfigSetMaxmemory, Quiet
<1>13. ASSUME Tick PROVE WellFormed'
  BY <1>0, <1>13, OutsideForm DEF Tick, DB!Tick
<1>14. ASSUME UNCHANGED vars PROVE WellFormed'
  BY <1>0, <1>14, OutsideForm DEF vars
<1> QED BY <1>1, <1>2, <1>3, <1>4, <1>5, <1>6, <1>7, <1>8, <1>9, <1>10, <1>11, <1>12,
           <1>13, <1>14 DEF Next, Continue

LEMMA InitForm == Init => WellFormed
<1>1. DB!Init => DB!TypeOK
  BY DEF DB!Init, DB!TypeOK
<1>2. ASSUME Init PROVE TypeOK
  <2>1. touched \in BOOLEAN /\ held \subseteq Handle /\ todo \in {<<>>}
    BY <1>2 DEF Init
  <2>2. /\ maxmemory_ \in Limits
        /\ pc \in {"idle", "get", "check", "limit", "use", "use2", "delete"}
        /\ left \in 0 .. 2
        /\ reply \in {"none", "ok", "nil", "wrongtype", "oom"}
    BY <1>2 DEF Init
  <2>3. cmd \in Command \cup {NoCommand}
    BY <1>2 DEF Init
  <2> QED BY <1>1, <1>2, <2>1, <2>2, <2>3 DEF Init, TypeOK
<1>3. Init => Progress /\ MoveHasMember
  BY DEF Init, Progress, MoveHasMember
<1> QED BY <1>2, <1>3 DEF WellFormed

(***************************************************************************)
(* Commands keep their types, and so do the database and its queue, where  *)
(* deadlines overflow and allocations fail as well.                        *)
(***************************************************************************)
THEOREM Typing == Spec => []TypeOK
<1>1. WellFormed => TypeOK
  BY DEF WellFormed
<1> QED BY <1>1, InitForm, FormStep, PTL DEF Spec

-----------------------------------------------------------------------------
(* What a step may do to the objects: a lookup or a sweep takes expired ones
   only, a write in place leaves deadlines and types. *)
OnlyExpiredGo ==
  \A k \in Key : \/ storage'[k] = storage[k]
                 \/ DB!Stored(k) /\ DB!IsExpired(k) /\ storage'[k] = Absent

InPlace ==
  \A k \in Key : \/ ~DB!Stored(k) /\ ~DB!Stored(k)'
                 \/ /\ DB!Stored(k) /\ DB!Stored(k)'
                    /\ storage'[k].ttl = storage[k].ttl
                    /\ TypeOf(k)' = TypeOf(k)

LEMMA SweepTakesExpired ==
  ASSUME DB!IInv, NEW n, DB!ExpireCycle(n)
  PROVE  OnlyExpiredGo /\ now' = now
<1>1. PICK gone \in SUBSET DB!Due :
        /\ storage' = [k \in Key |-> IF k \in DB!Removed(gone) THEN Absent ELSE storage[k]]
        /\ now' = now
  BY DEF DB!ExpireCycle
<1>2. ASSUME NEW k \in Key, k \in DB!Removed(gone)
      PROVE  DB!Stored(k) /\ DB!IsExpired(k)
  <2>1. PICK e \in gone : e.key = k
    BY <1>2 DEF DB!Removed
  <2>2. /\ e \in expire_queue /\ e.at <= now /\ e.at # DB!NoTtl
        /\ DB!Stored(k) /\ storage[k].ttl = e.at
    BY <2>1 DEF DB!Due, DB!IInv, DB!NoStaleEntry, DB!NoSentinelQueued
  <2>3. e.at \in Int /\ now \in Int
    BY <2>2 DEF DB!IInv, DB!TypeOK, DB!Entry, DB!TimePoint
  <2> QED BY <2>2, <2>3 DEF DB!IsExpired, DB!HasTtl
<1> QED BY <1>1, <1>2 DEF OnlyExpiredGo

LEMMA LookupTakesExpired ==
  ASSUME DB!TypeOK, NEW k \in Key, DB!Get(k)
  PROVE  /\ OnlyExpiredGo /\ now' = now
         /\ \A j \in Key : storage'[j] # storage[j] => j = k
         /\ DB!Stored(k)' => storage'[k] = storage[k] /\ Found(k)
  BY DEF OnlyExpiredGo, DB!Get, DB!TypeOK, DB!Stored, Found

LEMMA WriteIsInPlace ==
  ASSUME TypeOK, NEW k \in Key, NEW n, DB!Stored(k) => n \in 0 .. MaxSize, Write(k, n)
  PROVE  InPlace /\ now' = now
<1>1. CASE ~DB!Stored(k)
  BY <1>1 DEF Write, dbvars, InPlace, DB!Stored, TypeOf
<1>2. CASE DB!Stored(k)
  <2> DEFINE o == [val |-> [type |-> TypeOf(k), size |-> n], ttl |-> storage[k].ttl]
  <2>1. storage' = [storage EXCEPT ![k] = o] /\ now' = now
    BY <1>2 DEF Write, DB!Mutate
  <2>2. o \in DB!Object
    BY <1>2, ObjectParts DEF DB!Object, DataObj
  <2>3. o # Absent
    BY <2>2, DaikonDBAssumption
  <2>4. storage'[k] = o /\ \A j \in Key \ {k} : storage'[j] = storage[j]
    BY <2>1 DEF TypeOK, DB!TypeOK
  <2>5. o.ttl = storage[k].ttl /\ o.val.type = TypeOf(k)
    OBVIOUS
  <2> HIDE DEF o
  <2> QED BY <1>2, <2>1, <2>3, <2>4, <2>5 DEF InPlace, DB!Stored, TypeOf
<1> QED BY <1>1, <1>2

LEMMA NothingAliveTouched ==
  ASSUME OnlyExpiredGo PROVE ~Touches
  BY DEF OnlyExpiredGo, Touches, Found

(* The steps before a command uses what it looked up: none writes. *)
LEMMA EarlySteps ==
  ASSUME WellFormed, DB!IInv, Lookup \/ CheckMove \/ CheckLimit \/ UseMiss \/ UseRead
  PROVE  OnlyExpiredGo /\ now' = now
<1>1. CASE Lookup
  <2>1. pc = "get" /\ DB!Get(Head(todo))
    BY <1>1 DEF Lookup
  <2>2. Head(todo) \in Key
    BY <2>1, LookupOrder, CommandKeys, Sequences2 DEF WellFormed, Progress, NextLookup
  <2> QED BY <2>1, <2>2, LookupTakesExpired DEF DB!IInv
<1>2. CASE CheckMove \/ UseMiss \/ UseRead
  BY <1>2 DEF CheckMove, UseMiss, UseRead, dbvars, OnlyExpiredGo
<1>3. CASE CheckLimit
  <2>1. DB!ExpireCycle(LimitBatch) \/ UNCHANGED dbvars
    BY <1>3 DEF CheckLimit
  <2> QED BY <2>1, SweepTakesExpired DEF dbvars, OnlyExpiredGo
<1> QED BY <1>1, <1>2, <1>3

(***************************************************************************)
(* Until it writes, a command touches nothing alive.  The steps that end   *)
(* in a refusal are among those that do not write.                         *)
(***************************************************************************)
LEMMA RefusalTouchesNothing ==
  ASSUME IInv, [Next]_vars, reply' # reply, reply' \in {"nil", "wrongtype", "oom"}
  PROVE  ~touched' \/ cmd.op = "GEOADD"
<1>1. /\ Lookup \/ CheckMove \/ CheckLimit \/ UseMiss \/ (UseMove /\ Finish("nil"))
      /\ pc \in {"get", "check", "limit", "use"}
  <2> USE DEF Finish, GoTo
  <2>1. ~UNCHANGED vars
    BY DEF vars
  <2>2. ~\E c \in Command : Begin(c)
    BY DEF Begin
  <2>3. ~(UseCreate \/ UseUpdate \/ UseSet \/ UseRemove \/ UseMoveErase \/ UseStore \/ UseRead)
    BY DEF UseCreate, UseUpdate, UseSet, UseRemove, UseMoveErase, UseStore, UseRead
  <2>4. ~UseDelete
    BY DEF UseDelete
  <2>5. ~(\E k \in Key : Read(k)) /\ ~(\E k \in Key, s \in Seconds : Expire(k, s)) /\ ~Flushdb
    BY DEF Read, Expire, Flushdb, Quiet
  <2>6. ~(\E bytes \in Limits : ConfigSetMaxmemory(bytes)) /\ ~IsMemoryFull /\ ~Tick
    BY DEF ConfigSetMaxmemory, IsMemoryFull, Tick, Quiet
  <2>7. UseMove => Finish("nil")
    BY DEF UseMove
  <2>8. Lookup \/ CheckMove \/ CheckLimit \/ UseMiss \/ UseMove
    BY <2>1, <2>2, <2>3, <2>4, <2>5, <2>6 DEF Next, Continue
  <2> QED BY <2>7, <2>8 DEF Lookup, CheckMove, CheckLimit, UseMiss, UseMove
<1>2. touched' = (touched \/ Touches)
  BY <1>1 DEF Lookup, CheckMove, CheckLimit, UseMiss, Finish, GoTo, Record
<1>3. ~Touches
  <2>1. CASE UseMove /\ Finish("nil")
    BY <2>1 DEF UseMove, dbvars, Touches, Finish, GoTo
  <2>2. CASE Lookup \/ CheckMove \/ CheckLimit \/ UseMiss
    BY <2>2, EarlySteps, NothingAliveTouched DEF IInv
  <2> QED BY <1>1, <2>1, <2>2
<1>4. touched => cmd.op = "GEOADD"
  BY <1>1 DEF IInv, TouchedLate
<1> QED BY <1>2, <1>3, <1>4

LEMMA TouchedStep == IInv /\ [Next]_vars => TouchedLate'
<1> SUFFICES ASSUME IInv, [Next]_vars PROVE TouchedLate'
  OBVIOUS
<1>1. CASE pc' = "idle"
  BY <1>1 DEF TouchedLate
<1>2. CASE \E c \in Command : Begin(c)
  BY <1>2 DEF Begin, TouchedLate
<1>3. CASE Lookup \/ CheckMove \/ CheckLimit
  <2>1. CASE pc' # "idle"
    <3>1. /\ cmd' = cmd /\ touched' = (touched \/ Touches)
          /\ pc \in {"get", "check", "limit"}
      BY <1>3, <2>1 DEF Lookup, CheckMove, CheckLimit, Finish, GoTo, Record
    <3>2. ~Touches
      BY <1>3, EarlySteps, NothingAliveTouched DEF IInv
    <3> QED BY <3>1, <3>2 DEF IInv, TouchedLate
  <2> QED BY <1>1, <2>1
<1>4. CASE UseUpdate /\ pc' # "idle"
  BY <1>4 DEF UseUpdate, Finish, GoTo, TouchedLate
<1>5. CASE (UseMove \/ UseDelete) /\ pc' # "idle"
  BY <1>5 DEF UseMove, UseDelete, Finish, GoTo, TouchedLate
<1>6. CASE UseCreate \/ UseMiss \/ UseSet \/ UseRemove \/ UseMoveErase \/ UseStore \/ UseRead
  BY <1>1, <1>6
  DEF UseCreate, UseMiss, UseSet, UseRemove, UseMoveErase, UseStore, UseRead, Finish
<1>7. CASE UNCHANGED <<pc, cmd, touched>>
  BY <1>7 DEF IInv, TouchedLate
<1>8. ASSUME NEW k \in Key, Read(k) \/ (\E s \in Seconds : Expire(k, s))
      PROVE  UNCHANGED <<pc, cmd, touched>>
  BY <1>8 DEF Read, Expire, Quiet
<1>9. Flushdb \/ (\E bytes \in Limits : ConfigSetMaxmemory(bytes)) \/ IsMemoryFull \/ Tick
        => UNCHANGED <<pc, cmd, touched>>
  BY DEF Flushdb, ConfigSetMaxmemory, IsMemoryFull, Tick, Quiet
<1>10. UNCHANGED vars => UNCHANGED <<pc, cmd, touched>>
  BY DEF vars
<1> QED BY <1>1, <1>2, <1>3, <1>4, <1>5, <1>6, <1>7, <1>8, <1>9, <1>10 DEF Next, Continue

(***************************************************************************)
(* Where a command will create its key the place stays empty: a sweep can  *)
(* only empty places, and the other steps in between change no object.     *)
(***************************************************************************)
LEMMA CreatesStep == IInv /\ [Next]_vars => CreatesInPlace'
<1> SUFFICES ASSUME IInv, [Next]_vars, pc' \in {"limit", "use"}, cmd'.op \in Creates
             PROVE  \/ storage'[cmd'.keys[1]] = Absent
                    \/ cmd'.op = "SET" /\ storage'[cmd'.keys[1]].val.type = "string"
                    \/ cmd'.op # "SET" /\ held' # {}
  BY DEF CreatesInPlace, DB!Stored, TypeOf
<1> DEFINE k == cmd.keys[1]
<1>0. WellFormed /\ TypeOK /\ Progress /\ DB!IInv /\ DB!TypeOK /\ CreatesInPlace
  BY DEF IInv, WellFormed, TypeOK
<1>1. ASSUME UNCHANGED <<pc, cmd, held>>, OnlyExpiredGo \/ pc = "idle"
      PROVE  \/ storage'[cmd'.keys[1]] = Absent
             \/ cmd'.op = "SET" /\ storage'[cmd'.keys[1]].val.type = "string"
             \/ cmd'.op # "SET" /\ held' # {}
  <2>1. k \in Key /\ pc \in {"limit", "use"} /\ OnlyExpiredGo
    BY <1>0, <1>1, CommandKeys DEF Progress
  <2>2. storage'[k] = storage[k] \/ storage'[k] = Absent
    BY <2>1 DEF OnlyExpiredGo
  <2> QED BY <1>0, <1>1, <2>1, <2>2 DEF CreatesInPlace, DB!Stored, TypeOf
<1>2. CASE Lookup
  <2>1. /\ pc = "get" /\ DB!Get(Head(todo)) /\ cmd' = cmd /\ cmd \in Command
        /\ Found(Head(todo)) /\ cmd.op # "SMOVE" => Typed(Head(todo))
        /\ Keep(Head(todo))
    BY <1>0, <1>2 DEF Lookup, Finish, GoTo, Progress
  <2>2. cmd.keys = <<k>> /\ Head(todo) = k /\ held = {} /\ k \in Key
    <3>1. cmd.keys = <<k>> /\ k \in Key
      BY <2>1, CommandKeys DEF Creates, Combine
    <3>2. cmd.keys \notin Key \X Key
      BY <3>1, Sequences1, Sequences2
    <3> QED BY <1>0, <2>1, <3>1, <3>2, LookupOrder DEF NextLookup
  <2>3. CASE storage'[k] = Absent
    BY <2>1, <2>3
  <2>4. CASE storage'[k] # Absent
    <3>1. storage'[k] = storage[k] /\ Found(k)
      BY <1>0, <2>1, <2>2, <2>4, LookupTakesExpired DEF DB!Stored
    <3>2. CASE cmd.op = "SET"
      <4>1. "SET" \in OpsOn[TypeOf(k)] /\ TypeOf(k) \in Type
        BY <1>0, <2>1, <2>2, <3>1, <3>2, ObjectParts DEF Typed, Found
      <4>2. TypeOf(k) = "string"
        BY <4>1 DEF OpsOn, Type
      <4> QED BY <2>1, <3>1, <3>2, <4>2 DEF TypeOf
    <3>3. CASE cmd.op # "SET"
      BY <2>1, <2>2, <3>1, <3>3 DEF Keep, Creates, Forgets
    <3> QED BY <3>2, <3>3
  <2> QED BY <2>3, <2>4
<1>3. CASE CheckMove
  BY <1>0, <1>3 DEF CheckMove, Finish, GoTo, Progress, Creates
<1>4. CASE CheckLimit
  <2>1. cmd' = cmd /\ held' = held /\ pc = "limit" /\ OnlyExpiredGo /\ k \in Key
    BY <1>0, <1>4, EarlySteps, CommandKeys DEF CheckLimit, Finish, GoTo, Progress
  <2>2. storage'[k] = storage[k] \/ storage'[k] = Absent
    BY <2>1 DEF OnlyExpiredGo
  <2> QED BY <1>0, <2>1, <2>2 DEF CreatesInPlace, DB!Stored, TypeOf
<1>5. CASE UseUpdate
  BY <1>5 DEF UseUpdate, Finish, GoTo, Forgets
<1>6. CASE \/ UseCreate \/ UseMiss \/ UseSet \/ UseRemove \/ UseMove \/ UseMoveErase
           \/ UseStore \/ UseRead \/ UseDelete \/ \E c \in Command : Begin(c)
  BY <1>6 DEF UseCreate, UseMiss, UseSet, UseRemove, UseMove, UseMoveErase, UseStore,
              UseRead, UseDelete, Begin, Finish, GoTo
<1>7. CASE \/ \E j \in Key : Read(j) \/ \E s \in Seconds : Expire(j, s)
           \/ Flushdb \/ IsMemoryFull \/ \E bytes \in Limits : ConfigSetMaxmemory(bytes)
  BY <1>1, <1>7 DEF Read, Expire, Flushdb, IsMemoryFull, ConfigSetMaxmemory, Quiet
<1>8. CASE Tick \/ UNCHANGED vars
  BY <1>1, <1>8 DEF Tick, DB!Tick, vars, OnlyExpiredGo
<1> QED BY <1>2, <1>3, <1>4, <1>5, <1>6, <1>7, <1>8 DEF Next, Continue

LEMMA InvariantStep == DB!NoOverflow /\ IInv /\ [Next]_vars => IInv'
  BY DriveStep, FormStep, CoreQueueStep, TouchedStep, CreatesStep DEF IInv

LEMMA Invariance == ASSUME DB!NoOverflow PROVE Spec => []IInv
<1>1. Init => IInv
  <2>1. DB!Init => DB!IInv
    BY InitForm DEF DB!Init, DB!IInv, DB!TypeOK, DB!NoStaleEntry, DB!NoSentinelQueued,
                    DB!EveryDeadlineQueued, DB!Stored
  <2> QED BY <2>1, InitForm DEF Init, IInv, CreatesInPlace, TouchedLate
<1>2. IInv /\ [Next]_vars => IInv'
  BY InvariantStep
<1> QED BY <1>1, <1>2, PTL DEF Spec

(***************************************************************************)
(* A refused command has changed nothing that was alive: all its writes    *)
(* come after the last step that can refuse it, and what lookups and       *)
(* sweeps do before that touches expired objects only.  GEOADD, which asks *)
(* for memory point by point, is the exception.                            *)
(***************************************************************************)
THEOREM RefusalsAreClean == ASSUME DB!NoOverflow PROVE Spec => RefusedIsUntouched
<1>1. IInv /\ [Next]_vars =>
        [reply' \in {"nil", "wrongtype", "oom"} /\ reply = "none"
           => ~touched' \/ cmd.op = "GEOADD"]_vars
  <2> SUFFICES ASSUME IInv, [Next]_vars, reply' \in {"nil", "wrongtype", "oom"}, reply = "none"
               PROVE  ~touched' \/ cmd.op = "GEOADD"
    OBVIOUS
  <2> QED BY RefusalTouchesNothing
<1> QED BY <1>1, Invariance, PTL DEF Spec, RefusedIsUntouched

-----------------------------------------------------------------------------
(* A handle is good, or lost to its deadline where a command may lose one. *)
Good(h) == DB!Stored(h.key) /\ storage[h.key].ttl = h.ttl
Lost(h) == h.ttl # DB!NoTtl /\ h.ttl <= now /\ (maxmemory_ > 0 \/ Twice)

LEMMA HandleType ==
  ASSUME TypeOK, NEW h \in held
  PROVE  h.key \in Key /\ h.ttl \in Int
  BY DEF TypeOK, Handle, DB!TimePoint

(* An expired object that goes takes its handles with it. *)
LEMMA HandleGoes ==
  ASSUME TypeOK, NEW h \in held, Good(h), OnlyExpiredGo, now' = now
  PROVE  \/ storage'[h.key] = storage[h.key]
         \/ h.ttl # DB!NoTtl /\ h.ttl <= now
<1>1. now \in Int /\ h.key \in Key /\ h.ttl \in Int
  BY HandleType DEF TypeOK, DB!TypeOK
<1> QED BY <1>1 DEF Good, OnlyExpiredGo, DB!IsExpired, DB!HasTtl

LEMMA HandlesAcrossWrite ==
  ASSUME TypeOK, HandlesLostOnlyByDeadline, InPlace, UNCHANGED <<now, maxmemory_, cmd, held>>
  PROVE  HandlesLostOnlyByDeadline'
<1> SUFFICES ASSUME NEW h \in held' PROVE Good(h)' \/ Lost(h)'
  BY DEF HandlesLostOnlyByDeadline, Good, Lost
<1>1. h \in held /\ h.key \in Key /\ (Good(h) \/ Lost(h))
  BY HandleType DEF HandlesLostOnlyByDeadline, Good, Lost
<1>2. Good(h) => Good(h)'
  BY <1>1 DEF Good, InPlace, DB!Stored
<1>3. Lost(h) => Lost(h)'
  BY DEF Lost, Twice
<1> QED BY <1>1, <1>2, <1>3

LEMMA LookupHandles ==
  ASSUME WellFormed, DB!IInv, HandlesLostOnlyByDeadline, Lookup
  PROVE  HandlesLostOnlyByDeadline'
<1> DEFINE k == Head(todo)
<1>0. /\ TypeOK /\ Progress /\ pc = "get" /\ cmd \in Command /\ DB!Get(k)
      /\ maxmemory_' = maxmemory_
  BY DEF WellFormed, Lookup, Progress
<1>1. CASE held' = {}
  BY <1>1 DEF HandlesLostOnlyByDeadline
<1>2. CASE cmd' = cmd /\ Keep(k)
  <2> SUFFICES ASSUME NEW h \in held' PROVE Good(h)' \/ Lost(h)'
    BY DEF HandlesLostOnlyByDeadline, Good, Lost
  <2>1. k \in Key
    BY <1>0, LookupOrder, CommandKeys, Sequences2 DEF NextLookup
  <2>2. /\ OnlyExpiredGo /\ now' = now
        /\ \A j \in Key : storage'[j] # storage[j] => j = k
    BY <1>0, <2>1, LookupTakesExpired DEF DB!IInv
  <2>3. CASE h \in held
    <3>1. h.key \in Key /\ (Good(h) \/ Lost(h))
      BY <1>0, <2>3, HandleType DEF HandlesLostOnlyByDeadline, Good, Lost
    <3>2. CASE Lost(h)
      BY <1>0, <1>2, <2>2, <3>2 DEF Lost, Twice
    <3>3. CASE Good(h) /\ storage'[h.key] = storage[h.key]
      BY <3>3 DEF Good, DB!Stored
    <3>4. CASE Good(h) /\ storage'[h.key] # storage[h.key]
      <4>1. h.ttl # DB!NoTtl /\ h.ttl <= now
        BY <1>0, <2>2, <2>3, <3>4, HandleGoes
      <4>2. h.key = k
        BY <2>2, <3>1, <3>4
      <4>3. cmd.keys \in Key \X Key /\ k = cmd.keys[2] /\ h.key = cmd.keys[1]
        BY <1>0, <2>3, LookupOrder DEF NextLookup
      <4>4. Twice
        BY <4>2, <4>3, Sequences2 DEF Twice
      <4> QED BY <1>2, <2>2, <4>1, <4>4 DEF Lost, Twice
    <3> QED BY <3>1, <3>2, <3>3, <3>4
  <2>4. CASE h \notin held
    <3>1. h = [key |-> k, ttl |-> storage[k].ttl] /\ Found(k)
      BY <1>2, <2>4 DEF Keep
    <3>2. storage'[k] = storage[k]
      BY <2>1, <2>2, <3>1 DEF OnlyExpiredGo, Found
    <3> QED BY <3>1, <3>2 DEF Good, Found, DB!Stored
  <2> QED BY <2>3, <2>4
<1> QED BY <1>1, <1>2 DEF Lookup, Finish, GoTo

LEMMA HandlesStep ==
  ~StepsBack /\ IInv /\ HandlesLostOnlyByDeadline /\ [Next]_vars => HandlesLostOnlyByDeadline'
<1> SUFFICES ASSUME ~StepsBack, IInv, HandlesLostOnlyByDeadline, [Next]_vars
             PROVE  HandlesLostOnlyByDeadline'
  OBVIOUS
<1>0. WellFormed /\ TypeOK /\ Progress /\ DB!IInv
  BY DEF IInv, WellFormed
<1>a. pc # "idle" => /\ cmd.keys[1] \in Key
                     /\ cmd.op = "SMOVE" => cmd.keys[2] \in Key
  BY <1>0, CommandKeys, Sequences2 DEF Progress, Creates, Removes
<1>1. CASE held' = {}
  BY <1>1 DEF HandlesLostOnlyByDeadline
<1>2. CASE Lookup
  BY <1>0, <1>2, LookupHandles
<1>3. CASE CheckLimit /\ held' # {}
  <2>1. /\ cmd' = cmd /\ held' = held /\ maxmemory_' = maxmemory_ /\ OnlyExpiredGo /\ now' = now
        /\ storage' = storage \/ maxmemory_ > 0
    BY <1>0, <1>3, EarlySteps DEF CheckLimit, Finish, GoTo, WillExceed, dbvars
  <2> SUFFICES ASSUME NEW h \in held PROVE Good(h)' \/ Lost(h)'
    BY <2>1 DEF HandlesLostOnlyByDeadline, Good, Lost
  <2>2. Good(h) \/ Lost(h)
    BY DEF HandlesLostOnlyByDeadline, Good, Lost
  <2>3. CASE Lost(h)
    BY <2>1, <2>3 DEF Lost, Twice
  <2>4. CASE Good(h) /\ storage'[h.key] = storage[h.key]
    BY <2>4 DEF Good, DB!Stored
  <2>5. CASE Good(h) /\ storage'[h.key] # storage[h.key]
    BY <1>0, <2>1, <2>5, HandleGoes DEF Lost
  <2> QED BY <2>2, <2>3, <2>4, <2>5
<1>4. CASE UseUpdate /\ held' # {}
  <2>1. PICK n \in Grown(cmd.keys[1]) : Write(cmd.keys[1], n)
    BY <1>4 DEF UseUpdate
  <2>2. pc # "idle" /\ UNCHANGED <<maxmemory_, cmd, held>>
    BY <1>4 DEF UseUpdate, Finish, GoTo
  <2>3. InPlace /\ now' = now
    BY <1>0, <1>a, <2>1, <2>2, SizesInRange, WriteIsInPlace
  <2> QED BY <1>0, <2>2, <2>3, HandlesAcrossWrite
<1>5. CASE UseMove /\ held' # {}
  <2>1. /\ pc # "idle" /\ cmd.op = "SMOVE" /\ UNCHANGED <<maxmemory_, cmd, held>>
        /\ \E n \in Grown(cmd.keys[2]) : Write(cmd.keys[2], n)
    BY <1>5 DEF UseMove, Finish, GoTo
  <2>2. InPlace /\ now' = now
    BY <1>0, <1>a, <2>1, SizesInRange, WriteIsInPlace
  <2> QED BY <1>0, <2>1, <2>2, HandlesAcrossWrite
<1>6. CASE UNCHANGED <<storage, maxmemory_, cmd, held>> /\ now' >= now
  <2> SUFFICES ASSUME NEW h \in held PROVE Good(h)' \/ Lost(h)'
    BY <1>6 DEF HandlesLostOnlyByDeadline, Good, Lost
  <2>1. h.ttl \in Int /\ now \in Int /\ now' \in Int
    BY <1>0, HandleType, DriveStep, CoreTypeStep DEF TypeOK, DB!TypeOK
  <2>2. h.ttl <= now => h.ttl <= now'
    BY <1>6, <2>1
  <2> QED BY <1>6, <2>2 DEF HandlesLostOnlyByDeadline, Good, Lost, DB!Stored, Twice
<1>7. CheckMove /\ held' # {} => UNCHANGED <<storage, maxmemory_, cmd, held>> /\ now' >= now
  BY <1>0 DEF CheckMove, Finish, GoTo, dbvars, TypeOK, DB!TypeOK
<1>8. Tick \/ UNCHANGED vars => UNCHANGED <<storage, maxmemory_, cmd, held>> /\ now' >= now
  BY <1>0 DEF Tick, DB!Tick, vars, TypeOK, DB!TypeOK
<1>9. CASE \/ UseCreate \/ UseMiss \/ UseSet \/ UseRemove \/ UseMoveErase
           \/ UseStore \/ UseRead \/ UseDelete \/ \E c \in Command : Begin(c)
  BY <1>0, <1>1, <1>9 DEF UseCreate, UseMiss, UseSet, UseRemove, UseMoveErase, UseStore,
              UseRead, UseDelete, Begin, Finish, GoTo, Progress
<1>10. CASE \/ \E j \in Key : Read(j) \/ \E s \in Seconds : Expire(j, s)
            \/ Flushdb \/ IsMemoryFull \/ \E bytes \in Limits : ConfigSetMaxmemory(bytes)
  BY <1>0, <1>1, <1>10
  DEF Read, Expire, Flushdb, IsMemoryFull, ConfigSetMaxmemory, Quiet, Progress
<1> QED BY <1>1, <1>2, <1>3, <1>4, <1>5, <1>6, <1>7, <1>8, <1>9, <1>10 DEF Next, Continue

(***************************************************************************)
(* Raw pointers are safe but for one hazard: with a clock that is not set  *)
(* back, a pointer a command means to use is to a stored object, or that   *)
(* object's own deadline passed while the command ran and a memory limit   *)
(* (or a second lookup of the same key) let a sweep free it.               *)
(***************************************************************************)
THEOREM HandlesAreSafe ==
  ASSUME DB!NoOverflow, ~StepsBack PROVE Spec => []HandlesLostOnlyByDeadline
<1>1. Init => HandlesLostOnlyByDeadline
  BY DEF Init, HandlesLostOnlyByDeadline
<1>2. IInv /\ HandlesLostOnlyByDeadline /\ [Next]_vars => HandlesLostOnlyByDeadline'
  BY HandlesStep
<1> QED BY <1>1, <1>2, Invariance, PTL DEF Spec

-----------------------------------------------------------------------------
(* Objects that stay keep type and deadline: said of one step. *)
Keeps ==
  \A k \in Key :
    DB!Stored(k) /\ DB!Stored(k)' =>
      /\ TypeOf(k)' # TypeOf(k) => cmd.op = "GEOSEARCHSTORE"
      /\ storage'[k].ttl # storage[k].ttl => pc = "idle" \/ cmd.op \in Forgets

(* A step that takes objects away, or writes in place, keeps the others. *)
LEMMA DropsKeep ==
  ASSUME \A k \in Key : storage'[k] = storage[k] \/ storage'[k] = Absent
  PROVE  Keeps
  BY DEF Keeps, DB!Stored, TypeOf

LEMMA InPlaceKeeps == ASSUME InPlace PROVE Keeps
  BY DEF Keeps, InPlace

LEMMA DeleteDrops ==
  ASSUME DB!TypeOK, NEW k \in Key, DB!Delete(k)
  PROVE  \A j \in Key : storage'[j] = storage[j] \/ storage'[j] = Absent
  BY DEF DB!Delete, DB!TypeOK

LEMMA KeepStep == IInv /\ [Next]_vars => Keeps
<1> SUFFICES ASSUME IInv, [Next]_vars PROVE Keeps
  OBVIOUS
<1>0. WellFormed /\ TypeOK /\ Progress /\ MoveHasMember /\ CreatesInPlace /\ DB!IInv /\ DB!TypeOK
  BY DEF IInv, WellFormed, TypeOK
<1>a. pc # "idle" => /\ cmd \in Command /\ cmd.keys[1] \in Key
                     /\ cmd.op \in {"SMOVE", "GEOSEARCHSTORE"} => cmd.keys[2] \in Key
  BY <1>0, CommandKeys, Sequences2 DEF Progress, Creates, Removes
<1>b. ASSUME OnlyExpiredGo PROVE Keeps
  BY <1>b, DropsKeep DEF OnlyExpiredGo
<1>c. ASSUME UNCHANGED dbvars PROVE Keeps
  BY <1>c, DropsKeep DEF dbvars
<1>d. ASSUME NEW k \in Key, NEW n, DB!Stored(k) => n \in 0 .. MaxSize, Write(k, n) PROVE Keeps
  BY <1>0, <1>d, WriteIsInPlace, InPlaceKeeps
<1>e. ASSUME NEW k \in Key, DB!Delete(k) PROVE Keeps
  BY <1>0, <1>e, DeleteDrops, DropsKeep
<1>1. CASE Lookup \/ CheckMove \/ CheckLimit \/ UseMiss \/ UseRead
  BY <1>0, <1>1, <1>b, EarlySteps
<1>2. CASE (\E c \in Command : Begin(c)) \/ IsMemoryFull
  BY <1>0, <1>2, <1>b, <1>c, SweepTakesExpired DEF Begin, IsMemoryFull
<1>3. CASE UseCreate
  <2> DEFINE k == cmd.keys[1]
  <2>1. PICK t \in Type, n \in 0 .. MaxSize :
          cmd.op \in OpsOn[t] /\ DB!Set(k, [type |-> t, size |-> n])
    BY <1>3 DEF UseCreate
  <2>2. k \in Key /\ (~DB!Stored(k) \/ (cmd.op = "SET" /\ TypeOf(k) = "string"))
    BY <1>0, <1>3, <1>a DEF UseCreate, CreatesInPlace
  <2>3. cmd.op = "SET" => t = "string"
    BY <2>1 DEF OpsOn, Type
  <2>4. /\ storage'[k].val.type = t
        /\ \A j \in Key \ {k} : storage'[j] = storage[j]
    BY <1>0, <2>1, <2>2 DEF DB!Set, DB!TypeOK
  <2> QED BY <2>2, <2>3, <2>4 DEF Keeps, DB!Stored, TypeOf, Forgets
<1>4. CASE UseUpdate
  BY <1>0, <1>4, <1>a, <1>d, SizesInRange DEF UseUpdate
<1>5. CASE UseSet
  BY <1>5, <1>a, <1>d DEF UseSet
<1>6. CASE UseRemove
  <2>1. PICK n \in Shrunk(cmd.keys[1]) : DB!Delete(cmd.keys[1]) \/ Write(cmd.keys[1], n)
    BY <1>6 DEF UseRemove
  <2> QED BY <1>0, <1>6, <1>a, <1>d, <1>e, <2>1, SizesInRange DEF UseRemove
<1>7. CASE UseMove
  BY <1>0, <1>7, <1>a, <1>c, <1>d, SizesInRange DEF UseMove
<1>8. CASE UseMoveErase
  <2> DEFINE k == cmd.keys[1]
             n == IF DB!Stored(k) THEN SizeOf(k) - 1 ELSE 0
  <2>1. Write(k, n) /\ pc = "use2" /\ k \in Key
    BY <1>8, <1>a DEF UseMoveErase
  <2>2. ASSUME DB!Stored(k) PROVE n \in 0 .. MaxSize
    <3>1. n = SizeOf(k) - 1 /\ SizeOf(k) > 0
      BY <1>0, <2>1, <2>2 DEF MoveHasMember
    <3>2. SizeOf(k) \in 0 .. MaxSize /\ MaxSize \in Nat
      BY <1>0, <2>1, <2>2, ObjectParts, DaikonDBAssumption
    <3> QED BY <3>1, <3>2
  <2> HIDE DEF n
  <2> QED BY <2>1, <2>2, <1>d
<1>9. CASE UseStore
  <2>1. PICK n \in 0 .. MaxSize : DB!Set(cmd.keys[2], [type |-> "geo", size |-> n])
    BY <1>9 DEF UseStore
  <2>2. cmd.op = "GEOSEARCHSTORE"
    BY <1>9 DEF UseStore
  <2> QED BY <2>2 DEF Keeps, Forgets
<1>10. CASE UseDelete
  <2>1. Head(todo) \in Key
    BY <1>0, <1>10, Sequences1, Sequences2 DEF UseDelete, TypeOK, Progress
  <2> QED BY <1>10, <1>c, <1>e, <2>1 DEF UseDelete
<1>11. ASSUME NEW k \in Key, Read(k) PROVE Keeps
  BY <1>0, <1>11, <1>b, LookupTakesExpired DEF Read
<1>12. ASSUME NEW k \in Key, NEW s \in Seconds, Expire(k, s) PROVE Keeps
  <2>1. PICK d : storage' = [storage EXCEPT ![k] = [val |-> storage[k].val, ttl |-> d]]
    BY <1>12 DEF Expire, DB!Expire, DB!ExpireFails
  <2>2. pc = "idle"
    BY <1>12 DEF Expire, Quiet
  <2>3. /\ storage'[k].val = storage[k].val
        /\ \A j \in Key \ {k} : storage'[j] = storage[j]
    BY <1>0, <2>1 DEF DB!TypeOK
  <2> QED BY <2>2, <2>3 DEF Keeps, TypeOf
<1>13. CASE Flushdb
  BY <1>13, DropsKeep DEF Flushdb, DB!Clear
<1>14. CASE Tick \/ (\E bytes \in Limits : ConfigSetMaxmemory(bytes)) \/ UNCHANGED vars
  BY <1>14, DropsKeep DEF Tick, DB!Tick, ConfigSetMaxmemory, vars, dbvars
<1> QED BY <1>1, <1>2, <1>3, <1>4, <1>5, <1>6, <1>7, <1>8, <1>9, <1>10, <1>11, <1>12,
           <1>13, <1>14 DEF Next, Continue

(***************************************************************************)
(* No command turns an object into one of another type, or moves its       *)
(* deadline, by accident: a key a command found empty is still empty when  *)
(* it creates its object there, and everything else is written in place.   *)
(***************************************************************************)
THEOREM TypesAndDeadlinesStay ==
  ASSUME DB!NoOverflow PROVE Spec => ObjectsKeepTypeAndDeadline
<1>1. IInv /\ [Next]_vars =>
        [\A k \in Key :
           DB!Stored(k) /\ DB!Stored(k)' =>
             /\ TypeOf(k)' # TypeOf(k) => cmd.op = "GEOSEARCHSTORE"
             /\ storage'[k].ttl # storage[k].ttl => pc = "idle" \/ cmd.op \in Forgets]_vars
  BY KeepStep DEF Keeps
<1> QED BY <1>1, Invariance, PTL DEF Spec, ObjectsKeepTypeAndDeadline

-----------------------------------------------------------------------------
(* What a step may take from the map: said of one step. *)
Loses(k) == \/ Flushdb
            \/ pc = "delete" /\ k = Head(todo)
            \/ pc = "use" /\ cmd.op = "POP" /\ k = cmd.keys[1]

KeepsAlive == \A k \in Key : Found(k) /\ ~DB!Stored(k)' => Loses(k)

LEMMA ExpiredGoKeepsAlive == ASSUME OnlyExpiredGo PROVE KeepsAlive
  BY DEF KeepsAlive, OnlyExpiredGo, Found, DB!Stored

LEMMA InPlaceKeepsAlive == ASSUME InPlace PROVE KeepsAlive
  BY DEF KeepsAlive, InPlace, Found

(* A fresh object: nothing leaves the map for it. *)
LEMMA SetKeepsAlive ==
  ASSUME DB!TypeOK, NEW k \in Key, NEW o \in DataObj, DB!Set(k, o)
  PROVE  KeepsAlive
<1> DEFINE new == [val |-> o, ttl |-> DB!NoTtl]
<1>1. /\ storage'[k] = new
      /\ \A j \in Key \ {k} : storage'[j] = storage[j]
  BY DEF DB!Set, DB!TypeOK
<1>2. new \in DB!Object
  BY DaikonDBAssumption DEF DB!Object, DB!TimePoint, DB!NoTtl
<1>3. new # Absent
  BY <1>2, DaikonDBAssumption
<1> HIDE DEF new
<1> QED BY <1>1, <1>3 DEF KeepsAlive, Found, DB!Stored

LEMMA DeleteTakesOne ==
  ASSUME DB!TypeOK, NEW k \in Key, DB!Delete(k)
  PROVE  \A j \in Key \ {k} : storage'[j] = storage[j]
  BY DEF DB!Delete, DB!TypeOK

LEMMA AliveStep == IInv /\ [Next]_vars => KeepsAlive
<1> SUFFICES ASSUME IInv, [Next]_vars PROVE KeepsAlive
  OBVIOUS
<1>0. WellFormed /\ TypeOK /\ Progress /\ MoveHasMember /\ DB!IInv /\ DB!TypeOK
  BY DEF IInv, WellFormed, TypeOK
<1>a. pc # "idle" => /\ cmd \in Command /\ cmd.keys[1] \in Key
                     /\ cmd.op \in {"SMOVE", "GEOSEARCHSTORE"} => cmd.keys[2] \in Key
  BY <1>0, CommandKeys, Sequences2 DEF Progress, Creates, Removes
<1>c. ASSUME UNCHANGED storage PROVE KeepsAlive
  BY <1>c DEF KeepsAlive, Found, DB!Stored
<1>d. ASSUME NEW k \in Key, NEW n, DB!Stored(k) => n \in 0 .. MaxSize, Write(k, n)
      PROVE  KeepsAlive
  BY <1>0, <1>d, WriteIsInPlace, InPlaceKeepsAlive
<1>1. CASE Lookup \/ CheckMove \/ CheckLimit \/ UseMiss \/ UseRead
  BY <1>0, <1>1, EarlySteps, ExpiredGoKeepsAlive
<1>2. CASE (\E c \in Command : Begin(c)) \/ IsMemoryFull
  <2>1. UNCHANGED dbvars \/ \E n : DB!ExpireCycle(n)
    BY <1>2 DEF Begin, IsMemoryFull
  <2> QED BY <1>0, <2>1, <1>c, SweepTakesExpired, ExpiredGoKeepsAlive DEF dbvars
<1>3. CASE UseCreate
  <2>1. PICK t \in Type, n \in 0 .. MaxSize : DB!Set(cmd.keys[1], [type |-> t, size |-> n])
    BY <1>3 DEF UseCreate
  <2>2. [type |-> t, size |-> n] \in DataObj
    BY DEF DataObj
  <2> QED BY <1>0, <1>3, <1>a, <2>1, <2>2, SetKeepsAlive DEF UseCreate
<1>4. CASE UseUpdate
  BY <1>0, <1>4, <1>a, <1>d, SizesInRange DEF UseUpdate
<1>5. CASE UseSet
  BY <1>5, <1>a, <1>d DEF UseSet
<1>6. CASE UseRemove
  <2>1. PICK n \in Shrunk(cmd.keys[1]) :
          \/ cmd.op = "POP" /\ DB!Delete(cmd.keys[1])
          \/ Write(cmd.keys[1], n)
    BY <1>6 DEF UseRemove
  <2>2. pc = "use" /\ cmd.keys[1] \in Key
    BY <1>6, <1>a DEF UseRemove
  <2>3. CASE cmd.op = "POP" /\ DB!Delete(cmd.keys[1])
    BY <1>0, <2>2, <2>3, DeleteTakesOne DEF KeepsAlive, Loses, Found, DB!Stored
  <2>4. CASE Write(cmd.keys[1], n)
    BY <1>0, <1>d, <2>2, <2>4, SizesInRange
  <2> QED BY <2>1, <2>3, <2>4
<1>7. CASE UseMove
  BY <1>0, <1>7, <1>a, <1>c, <1>d, SizesInRange DEF UseMove, dbvars
<1>8. CASE UseMoveErase
  <2> DEFINE k == cmd.keys[1]
             n == IF DB!Stored(k) THEN SizeOf(k) - 1 ELSE 0
  <2>1. Write(k, n) /\ pc = "use2" /\ k \in Key
    BY <1>8, <1>a DEF UseMoveErase
  <2>2. ASSUME DB!Stored(k) PROVE n \in 0 .. MaxSize
    <3>1. n = SizeOf(k) - 1 /\ SizeOf(k) > 0
      BY <1>0, <2>1, <2>2 DEF MoveHasMember
    <3>2. SizeOf(k) \in 0 .. MaxSize /\ MaxSize \in Nat
      BY <1>0, <2>1, <2>2, ObjectParts, DaikonDBAssumption
    <3> QED BY <3>1, <3>2
  <2> HIDE DEF n
  <2> QED BY <2>1, <2>2, <1>d
<1>9. CASE UseStore
  <2>1. PICK n \in 0 .. MaxSize : DB!Set(cmd.keys[2], [type |-> "geo", size |-> n])
    BY <1>9 DEF UseStore
  <2>2. [type |-> "geo", size |-> n] \in DataObj /\ cmd.keys[2] \in Key
    BY <1>9, <1>a DEF DataObj, Type, UseStore
  <2> QED BY <1>0, <2>1, <2>2, SetKeepsAlive
<1>10. CASE UseDelete
  <2>1. Head(todo) \in Key /\ pc = "delete"
    BY <1>0, <1>10, Sequences1, Sequences2 DEF UseDelete, TypeOK, Progress
  <2>2. CASE DB!Delete(Head(todo))
    BY <1>0, <2>1, <2>2, DeleteTakesOne DEF KeepsAlive, Loses, Found, DB!Stored
  <2> QED BY <1>10, <1>c, <2>2 DEF UseDelete, dbvars
<1>11. ASSUME NEW k \in Key, Read(k) PROVE KeepsAlive
  BY <1>0, <1>11, LookupTakesExpired, ExpiredGoKeepsAlive DEF Read
<1>12. ASSUME NEW k \in Key, NEW s \in Seconds, Expire(k, s) PROVE KeepsAlive
  <2>1. PICK d \in DB!Deadlines(s) :
          storage' = [storage EXCEPT ![k] = [val |-> storage[k].val, ttl |-> d]]
    BY <1>12 DEF Expire, DB!Expire, DB!ExpireFails
  <2>2. DB!Stored(k) /\ now \in 1 .. MaxTime
    BY <1>0, <1>12 DEF Expire, DB!Expire, DB!ExpireFails, DB!TypeOK
  <2>3. d \in DB!TimePoint
    BY <2>1, <2>2, DaikonDBAssumption DEF DB!Deadlines, DB!TimePoint
  <2>4. [val |-> storage[k].val, ttl |-> d] # Absent
    BY <1>0, <2>2, <2>3, DaikonDBAssumption DEF DB!TypeOK, DB!Stored, DB!Object
  <2>5. /\ storage'[k] = [val |-> storage[k].val, ttl |-> d]
        /\ \A j \in Key \ {k} : storage'[j] = storage[j]
    BY <1>0, <2>1 DEF DB!TypeOK
  <2> QED BY <2>4, <2>5 DEF KeepsAlive, Found, DB!Stored
<1>13. CASE Flushdb
  BY <1>13 DEF KeepsAlive, Loses
<1>14. CASE Tick \/ (\E bytes \in Limits : ConfigSetMaxmemory(bytes)) \/ UNCHANGED vars
  BY <1>14, <1>c DEF Tick, DB!Tick, ConfigSetMaxmemory, vars, dbvars
<1> QED BY <1>1, <1>2, <1>3, <1>4, <1>5, <1>6, <1>7, <1>8, <1>9, <1>10, <1>11, <1>12,
           <1>13, <1>14 DEF Next, Continue

(***************************************************************************)
(* No command, and no sweep however long after it, costs an object that is *)
(* alive its place: the queue is current between any two steps of any      *)
(* commands (DB!IInv), so the entries a sweep consumes are all of objects  *)
(* whose deadline has passed.                                              *)
(***************************************************************************)
THEOREM TheLivingStay == ASSUME DB!NoOverflow PROVE Spec => LiveObjectsStay
<1>1. IInv /\ [Next]_vars =>
        [\A k \in Key :
           Found(k) /\ ~DB!Stored(k)' =>
             \/ Flushdb
             \/ pc = "delete" /\ k = Head(todo)
             \/ pc = "use" /\ cmd.op = "POP" /\ k = cmd.keys[1]]_vars
  BY AliveStep DEF KeepsAlive, Loses
<1> QED BY <1>1, Invariance, PTL DEF Spec, LiveObjectsStay

-----------------------------------------------------------------------------
LEMMA UsageStays == UNCHANGED dbvars => Usage' = Usage
  BY DEF dbvars, Usage, SizeOf, DB!Stored, FoldSet, MapThenFoldSet

(* A command is refused for memory only when the sweep has just been run. *)
LEMMA OomSweeps ==
  ASSUME IInv, [Next]_vars, reply' # reply, reply' = "oom"
  PROVE  DB!ExpireCycle(LimitBatch)
<1>1. CheckLimit
  <2> USE DEF Finish, GoTo
  <2>1. ~UNCHANGED vars /\ ~\E c \in Command : Begin(c)
    BY DEF vars, Begin
  <2>2. ~(UseCreate \/ UseUpdate \/ UseMiss \/ UseSet \/ UseRemove \/ UseMoveErase)
    BY DEF UseCreate, UseUpdate, UseMiss, UseSet, UseRemove, UseMoveErase
  <2>3. ~(UseMove \/ UseStore \/ UseRead \/ UseDelete \/ Lookup \/ CheckMove)
    BY DEF UseMove, UseStore, UseRead, UseDelete, Lookup, CheckMove
  <2>4. ~(\E k \in Key : Read(k)) /\ ~(\E k \in Key, s \in Seconds : Expire(k, s)) /\ ~Flushdb
    BY DEF Read, Expire, Flushdb, Quiet
  <2>5. ~(\E bytes \in Limits : ConfigSetMaxmemory(bytes)) /\ ~IsMemoryFull /\ ~Tick
    BY DEF ConfigSetMaxmemory, IsMemoryFull, Tick, Quiet
  <2> QED BY <2>1, <2>2, <2>3, <2>4, <2>5 DEF Next, Continue
<1>2. PICK delta \in Estimates :
        /\ IF WillExceed(delta) THEN DB!ExpireCycle(LimitBatch) ELSE UNCHANGED dbvars
        /\ IF maxmemory_ > 0 /\ Usage' + delta > maxmemory_
             THEN Finish("oom") ELSE GoTo("use")
  BY <1>1 DEF CheckLimit
<1>3. maxmemory_ > 0 /\ Usage' + delta > maxmemory_
  BY <1>2 DEF GoTo
<1>4. ~WillExceed(delta) => FALSE
  BY <1>2, <1>3, UsageStays DEF WillExceed
<1> QED BY <1>2, <1>4

(* A sweep leaves no garbage, or has taken as many keys as it may. *)
LEMMA SweepLeavesNothing ==
  ASSUME DB!IInv, ~AllocFails, NEW n, DB!ExpireCycle(n)
  PROVE  \/ \A k \in Key : DB!Stored(k)' => ~DB!IsExpired(k)'
         \/ Cardinality({k \in Key : DB!Stored(k) /\ ~DB!Stored(k)'}) = n
<1>1. PICK gone \in SUBSET DB!Due :
        /\ DB!Front(gone, n)
        /\ storage' = [k \in Key |-> IF k \in DB!Removed(gone) THEN Absent ELSE storage[k]]
        /\ now' = now
  BY DEF DB!ExpireCycle
<1>2. CASE gone = DB!Due
  <2> SUFFICES ASSUME NEW k \in Key, DB!Stored(k)', DB!IsExpired(k)'
               PROVE  FALSE
    OBVIOUS
  <2>1. k \notin DB!Removed(gone) /\ storage'[k] = storage[k]
    BY <1>1 DEF DB!Stored
  <2>2. DB!Stored(k) /\ DB!HasTtl(k) /\ storage[k].ttl <= now
    <3>1. DB!Stored(k) /\ DB!HasTtl(k) /\ now >= storage[k].ttl
      BY <1>1, <2>1 DEF DB!Stored, DB!IsExpired, DB!HasTtl
    <3>2. now \in Int /\ storage[k].ttl \in Int
      BY <3>1 DEF DB!IInv, DB!TypeOK, DB!Stored, DB!Object, DB!TimePoint
    <3> QED BY <3>1, <3>2
  <2>3. DB!EntryOf(k) \in expire_queue
    BY <2>2 DEF DB!IInv, DB!EveryDeadlineQueued
  <2>4. DB!EntryOf(k) \in gone /\ DB!EntryOf(k).key = k
    BY <1>2, <2>2, <2>3 DEF DB!Due, DB!EntryOf
  <2> QED BY <2>1, <2>2, <2>4 DEF DB!Removed
<1>3. CASE gone # DB!Due
  <2>1. Cardinality(DB!Removed(gone)) = n
    BY <1>1, <1>3, SameCardinality DEF DB!Front
  <2>2. DB!Removed(gone) = {k \in Key : DB!Stored(k) /\ ~DB!Stored(k)'}
    BY <1>1 DEF DB!Removed, DB!Stored
  <2> QED BY <2>1, <2>2
<1> QED BY <1>2, <1>3

(***************************************************************************)
(* A command is refused for memory only when no expired object is left, or *)
(* the sweep before it has just freed as many keys as one sweep may.       *)
(***************************************************************************)
OomOnlyAfterFullSweep ==
  [][reply' = "oom" /\ reply = "none" =>
       \/ \A k \in Key : DB!Stored(k)' => ~DB!IsExpired(k)'
       \/ Cardinality({k \in Key : DB!Stored(k) /\ ~DB!Stored(k)'}) = LimitBatch]_vars

THEOREM GarbageGoesFirst ==
  ASSUME DB!NoOverflow, ~AllocFails PROVE Spec => OomOnlyAfterFullSweep
<1>1. IInv /\ [Next]_vars =>
        [reply' = "oom" /\ reply = "none" =>
           \/ \A k \in Key : DB!Stored(k)' => ~DB!IsExpired(k)'
           \/ Cardinality({k \in Key : DB!Stored(k) /\ ~DB!Stored(k)'}) = LimitBatch]_vars
  <2> SUFFICES ASSUME IInv, [Next]_vars, reply' = "oom", reply = "none"
               PROVE  \/ \A k \in Key : DB!Stored(k)' => ~DB!IsExpired(k)'
                      \/ Cardinality({k \in Key : DB!Stored(k) /\ ~DB!Stored(k)'}) = LimitBatch
    OBVIOUS
  <2>1. DB!IInv /\ DB!ExpireCycle(LimitBatch)
    BY OomSweeps DEF IInv
  <2> QED BY <2>1, SweepLeavesNothing
<1> QED BY <1>1, Invariance, PTL DEF Spec, OomOnlyAfterFullSweep

(***************************************************************************)
(* So while the keys are no more than a sweep may take, garbage never      *)
(* costs a client its write: a sweep that took that many has left nothing. *)
(***************************************************************************)
THEOREM NoWriteLostToGarbage ==
  ASSUME DB!NoOverflow, ~AllocFails, IsFiniteSet(Key), Cardinality(Key) <= LimitBatch
  PROVE  Spec => OomOnlyWithoutGarbage
<1>1. ASSUME Cardinality({k \in Key : DB!Stored(k) /\ ~DB!Stored(k)'}) = LimitBatch
      PROVE  \A k \in Key : ~DB!Stored(k)'
  <2> DEFINE S == {k \in Key : DB!Stored(k) /\ ~DB!Stored(k)'}
  <2>1. S \in SUBSET Key /\ Cardinality(S) = LimitBatch
    BY <1>1
  <2>2. /\ Cardinality(S) <= Cardinality(Key)
        /\ Cardinality(Key) = Cardinality(S) => Key = S
    BY <2>1, FS_Subset
  <2>3. Cardinality(Key) \in Nat /\ LimitBatch \in Nat
    BY FS_CardinalityType DEF LimitBatch
  <2>4. Key = S
    BY <2>1, <2>2, <2>3
  <2> QED BY <2>4
<1>2. IInv /\ [Next]_vars =>
        [reply' = "oom" /\ reply = "none"
           => \A k \in Key : DB!Stored(k)' => ~DB!IsExpired(k)']_vars
  <2> SUFFICES ASSUME IInv, [Next]_vars, reply' = "oom", reply = "none"
               PROVE  \A k \in Key : DB!Stored(k)' => ~DB!IsExpired(k)'
    OBVIOUS
  <2>1. DB!IInv /\ DB!ExpireCycle(LimitBatch)
    BY OomSweeps DEF IInv
  <2> QED BY <1>1, <2>1, SweepLeavesNothing
<1> QED BY <1>2, Invariance, PTL DEF Spec, OomOnlyWithoutGarbage
=============================================================================

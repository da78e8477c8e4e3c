------------------------------ MODULE DaikonDB ------------------------------
(***************************************************************************)
(* The command layer (class DaikonDatabase) over the storage core DBase.   *)
(* One thread runs the commands, so the one thing that happens between two *)
(* steps of a command is that the clock moves.  A command is therefore cut *)
(* where it reads the clock: the sweep of up to 3 keys a write begins with *)
(* ("begin"), each lookup ("get"), the sweep of up to 50 keys of the       *)
(* memory check ("limit"), and the use of what was looked up ("use").      *)
(*                                                                         *)
(* What a lookup returns is a raw pointer.  The pointers a command still   *)
(* means to use are its "held"; nothing tells it when a sweep frees one.   *)
(*                                                                         *)
(* An object is its type and its size; LPUSH and RPUSH are one command     *)
(* here, as are LPOP and RPOP.  The memory a value will need is an         *)
(* estimate in the code, so estimate and growth are independent choices.   *)
(***************************************************************************)
EXTENDS Integers, Sequences, FiniteSets, FiniteSetsExt

CONSTANTS
  Key, Absent, MaxTime, Seconds, Horizon, StepsBack, AllocFails,  \* of DBase
  Ops,            \* the commands clients send (a bound)
  MaxSize,        \* bound of an object's size
  Estimates,      \* what the EstimateXxx functions may return
  Limits,         \* arguments of CONFIG SET maxmemory; 0 is "no limit"
  has_active_del_ \* whether write commands sweep

VARIABLES
  storage, expire_queue, now,  \* db_
  maxmemory_,
  pc,       \* where the command is: idle, get, check, limit, use, use2 or delete
  cmd,      \* the command: [op, keys]
  todo,     \* the keys it has yet to look up (or to delete)
  held,     \* the pointers it holds: [key, ttl as it was at the lookup]
  left,     \* GEOADD: how many points it has yet to add
  reply,    \* how the last command ended
  touched   \* history: the command changed an object that had not expired

dbvars  == <<storage, expire_queue, now>>
vars    == <<storage, expire_queue, now, maxmemory_, pc, cmd, todo, held, left,
             reply, touched>>

Type    == {"string", "list", "set", "geo"}
DataObj == [type : Type, size : 0 .. MaxSize]

ActiveBatch == 3
FullBatch   == 20
LimitBatch  == 50

DB == INSTANCE DBase WITH Val <- DataObj, Batch <- {ActiveBatch, FullBatch, LimitBatch}

ASSUME DaikonDBAssumption ==
  /\ Absent \notin DB!Object
  /\ Seconds \subseteq Nat
  /\ MaxTime \in Nat \ {0} /\ Horizon \in Nat /\ MaxTime < Horizon
  /\ StepsBack \in BOOLEAN /\ AllocFails \in BOOLEAN /\ has_active_del_ \in BOOLEAN
  /\ MaxSize \in Nat /\ Estimates \subseteq Nat /\ Limits \subseteq Nat

-----------------------------------------------------------------------------
(* The commands that work on objects of each type. *)
OpsOn == [string |-> {"SET", "APPEND"},
          list   |-> {"PUSH", "POP", "LSET", "LINSERT"},
          set    |-> {"SADD", "SREM", "SMOVE", "SUNION", "SINTER", "SDIFF"},
          geo    |-> {"GEOADD", "GEOSEARCHSTORE"}]

Creates == {"SET", "APPEND", "PUSH", "SADD", "GEOADD"}   \* a missing key
Writes  == Creates \cup {"LSET", "LINSERT", "SMOVE", "GEOSEARCHSTORE", "DEL"}
Removes == {"POP", "SREM"}                \* neither sweep nor check memory
Combine == {"SUNION", "SINTER", "SDIFF"}
Forgets == {"SET", "GEOSEARCHSTORE"}      \* make no use of the pointer later

Command ==
  [op : Ops \cap (Creates \cup Removes \cup {"LSET", "LINSERT"}), keys : {<<k>> : k \in Key}]
  \cup
  [op : Ops \cap (Combine \cup {"SMOVE", "GEOSEARCHSTORE", "DEL"}), keys : Key \X Key]

NoCommand == [op |-> "none", keys |-> <<>>]

(* GEOSEARCHSTORE is given source and destination and looks up the source. *)
Lookups(c) == IF c.op = "GEOSEARCHSTORE" THEN <<c.keys[1]>> ELSE c.keys

SizeOf(k) == storage[k].val.size
TypeOf(k) == storage[k].val.type

(* Every node of the map, every element and every queue entry takes a unit. *)
Usage == Cardinality(expire_queue)
         + FoldSet(LAMBDA k, n : n + 1 + SizeOf(k), 0, {k \in Key : DB!Stored(k)})

(* Slip: "no limit" is not told from a limit of zero. *)
ExceedsAnyLimit(delta) == Usage + delta > maxmemory_

WillExceed(delta) == maxmemory_ > 0 /\ Usage + delta > maxmemory_

Init == /\ DB!Init
        /\ maxmemory_ \in Limits
        /\ pc = "idle" /\ cmd = NoCommand /\ todo = <<>> /\ held = {} /\ left = 0
        /\ reply = "none" /\ touched = FALSE

-----------------------------------------------------------------------------
Found(k) == DB!Stored(k) /\ ~DB!IsExpired(k)
TypedAnyhow(k) == TRUE   \* slip: the type of what was found is not looked at
Typed(k) == cmd.op \in OpsOn[TypeOf(k)]

(* The history variable records what a command does to live objects. *)
Touches == \E k \in Key : Found(k) /\ storage'[k] # storage[k]
Record  == touched' = (touched \/ Touches)

(* The steps of a command: it goes on at p, or ends with reply r. *)
GoTo(p)   == pc' = p /\ UNCHANGED <<cmd, reply>> /\ Record
Finish(r) == /\ pc' = "idle" /\ reply' = r
             /\ cmd' = NoCommand /\ todo' = <<>> /\ held' = {} /\ left' = 0
             /\ Record

(* Slip: a write does not begin with a sweep. *)
BeginUnswept(c) ==
  /\ pc = "idle"
  /\ UNCHANGED <<dbvars, maxmemory_>>
  /\ pc' = IF c.op = "DEL" THEN "delete" ELSE "get"
  /\ cmd' = c /\ todo' = Lookups(c) /\ held' = {} /\ reply' = "none" /\ touched' = FALSE
  /\ left' \in IF c.op = "GEOADD" THEN 1 .. 2 ELSE {0}

Begin(c) ==
  /\ pc = "idle"
  /\ IF has_active_del_ /\ c.op \in Writes
       THEN DB!ExpireCycle(ActiveBatch)
       ELSE UNCHANGED dbvars
  /\ pc' = IF c.op = "DEL" THEN "delete" ELSE "get"
  /\ cmd' = c /\ todo' = Lookups(c) /\ held' = {} /\ reply' = "none" /\ touched' = FALSE
  /\ left' \in IF c.op = "GEOADD" THEN 1 .. 2 ELSE {0}
  /\ UNCHANGED maxmemory_

(***************************************************************************)
(* One lookup: the command ends at the first key that is of another type,  *)
(* or that is missing and needed.                                          *)
(***************************************************************************)
Needed   == \/ cmd.op \in Removes \cup {"LSET", "LINSERT", "GEOSEARCHSTORE", "SINTER"}
            \/ cmd.op = "SDIFF" /\ held = {}

Keep(k) == held' = IF Found(k) /\ cmd.op \notin Forgets
                     THEN held \cup {[key |-> k, ttl |-> storage[k].ttl]}
                     ELSE held

AfterLookups == CASE Tail(todo) # <<>>              -> "get"
                  [] cmd.op = "SMOVE"               -> "check"
                  [] cmd.op \in Removes \cup Combine -> "use"
                  [] OTHER                          -> "limit"

Lookup ==
  /\ pc = "get"
  /\ LET k == Head(todo)
         wrong   == cmd.op # "SMOVE" /\ Found(k) /\ ~Typed(k)
         missing == ~Found(k) /\ Needed
     IN /\ DB!Get(k)
        /\ \/ wrong /\ Finish("wrongtype")
           \/ missing /\ Finish("nil")
           \/ /\ ~wrong /\ ~missing
              /\ GoTo(AfterLookups) /\ todo' = Tail(todo) /\ Keep(k) /\ UNCHANGED left
  /\ UNCHANGED maxmemory_

(* SMOVE looks up both keys before it judges either. *)
CheckMove ==
  /\ pc = "check"
  /\ UNCHANGED <<dbvars, maxmemory_>>
  /\ LET src == cmd.keys[1]
         dst == cmd.keys[2]
         both == DB!Stored(dst) /\ src \in {h.key : h \in held}
     IN \/ ~both /\ Finish("nil")
        \/ both /\ ~(Typed(src) /\ Typed(dst)) /\ Finish("wrongtype")
        \/ both /\ Typed(src) /\ Typed(dst) /\ GoTo("limit") /\ UNCHANGED <<todo, held, left>>

(* Slip: the limit is checked without a sweep. *)
CheckLimitUnswept ==
  /\ pc = "limit"
  /\ UNCHANGED <<dbvars, maxmemory_>>
  /\ \E delta \in Estimates :
       IF WillExceed(delta) THEN Finish("oom") ELSE GoTo("use") /\ UNCHANGED <<todo, held, left>>

(* WillExceedLimit: over the limit it sweeps, then looks again. *)
CheckLimit ==
  /\ pc = "limit"
  /\ \E delta \in Estimates :
       /\ IF WillExceed(delta) THEN DB!ExpireCycle(LimitBatch) ELSE UNCHANGED dbvars
       /\ IF maxmemory_ > 0 /\ Usage' + delta > maxmemory_
            THEN Finish("oom")
            ELSE GoTo("use") /\ UNCHANGED <<todo, held, left>>
  /\ UNCHANGED maxmemory_

-----------------------------------------------------------------------------
(* What a command does with the objects it looked up. *)

Twice == Len(cmd.keys) = 2 /\ cmd.keys[1] = cmd.keys[2]

(* A write through a held pointer.  If the object is gone the write goes to
   freed memory: whatever else it does, no object of the map shows it. *)
Write(k, n) == IF DB!Stored(k)
                 THEN DB!Mutate(k, [type |-> TypeOf(k), size |-> n])
                 ELSE UNCHANGED dbvars

Shrunk(k) == IF DB!Stored(k) THEN 0 .. SizeOf(k) ELSE {0}
Grown(k)  == IF DB!Stored(k) THEN SizeOf(k) .. MaxSize ELSE {0}

(* A fresh object; SET's replaces the old one, deadline included. *)
UseCreate ==
  /\ pc = "use" /\ cmd.op \in Creates /\ held = {}
  /\ \E t \in Type, n \in 0 .. MaxSize :
       cmd.op \in OpsOn[t] /\ DB!Set(cmd.keys[1], [type |-> t, size |-> n])
  /\ Finish("ok")
  /\ UNCHANGED maxmemory_

(* GEOADD checks the limit again before each further point. *)
UseUpdate ==
  /\ pc = "use" /\ cmd.op \in (Creates \cup {"LINSERT"}) \ Forgets /\ held # {}
  /\ \E n \in Grown(cmd.keys[1]) : Write(cmd.keys[1], n)
  /\ IF cmd.op = "GEOADD" /\ left > 1
       THEN GoTo("limit") /\ left' = left - 1 /\ UNCHANGED <<todo, held>>
       ELSE Finish("ok")
  /\ UNCHANGED maxmemory_

(* LINSERT does not find its pivot. *)
UseMiss ==
  /\ pc = "use" /\ cmd.op = "LINSERT"
  /\ UNCHANGED <<dbvars, maxmemory_>>
  /\ Finish("nil")

(* LSET puts a longer or shorter value in the place of an element, if any. *)
UseSet ==
  /\ pc = "use" /\ cmd.op = "LSET"
  /\ \E n \in 0 .. MaxSize :
       /\ DB!Stored(cmd.keys[1]) => (n = 0 <=> SizeOf(cmd.keys[1]) = 0)
       /\ Write(cmd.keys[1], n)
  /\ Finish("ok")
  /\ UNCHANGED maxmemory_

(* Slip: the emptied list is erased from the map, not deleted. *)
UseRemoveErases ==
  /\ pc = "use" /\ cmd.op \in Removes
  /\ \E n \in Shrunk(cmd.keys[1]) :
       IF cmd.op = "POP" /\ n = 0
         THEN storage' = [storage EXCEPT ![cmd.keys[1]] = Absent] /\ UNCHANGED <<expire_queue, now>>
         ELSE Write(cmd.keys[1], n)
  /\ Finish("ok")
  /\ UNCHANGED maxmemory_

(* LPOP and RPOP remove the list they empty; SREM leaves an empty set. *)
UseRemove ==
  /\ pc = "use" /\ cmd.op \in Removes
  /\ \E n \in Shrunk(cmd.keys[1]) :
       IF cmd.op = "POP" /\ n = 0 THEN DB!Delete(cmd.keys[1]) ELSE Write(cmd.keys[1], n)
  /\ Finish("ok")
  /\ UNCHANGED maxmemory_

(* Slips: the member is erased from the source, or added to the destination,
   before it is known to be in the source. *)
UseMoveUnchecked ==
  /\ pc = "use" /\ cmd.op = "SMOVE"
  /\ \E n \in Grown(cmd.keys[2]) : Write(cmd.keys[2], n)
  /\ GoTo("use2") /\ UNCHANGED <<todo, held, left, maxmemory_>>

UseMoveAddsFirst ==
  /\ pc = "use" /\ cmd.op = "SMOVE"
  /\ \E n \in Grown(cmd.keys[2]) : Write(cmd.keys[2], n)
  /\ Finish("nil")
  /\ UNCHANGED maxmemory_

(* MoveMember: the member, if there, is added to the destination unless it
   is there too, then erased from the source. *)
UseMove ==
  /\ pc = "use" /\ cmd.op = "SMOVE"
  /\ \/ UNCHANGED dbvars /\ Finish("nil")
     \/ /\ DB!Stored(cmd.keys[1]) => SizeOf(cmd.keys[1]) > 0
        /\ \E n \in Grown(cmd.keys[2]) :
             /\ DB!Stored(cmd.keys[2]) => n <= SizeOf(cmd.keys[2]) + (IF Twice THEN 0 ELSE 1)
             /\ Write(cmd.keys[2], n)
        /\ GoTo("use2") /\ UNCHANGED <<todo, held, left>>
  /\ UNCHANGED maxmemory_

UseMoveErase ==
  /\ pc = "use2"
  /\ Write(cmd.keys[1], IF DB!Stored(cmd.keys[1]) THEN SizeOf(cmd.keys[1]) - 1 ELSE 0)
  /\ Finish("ok")
  /\ UNCHANGED maxmemory_

(* GEOSEARCHSTORE replaces the destination, whatever its type. *)
UseStore ==
  /\ pc = "use" /\ cmd.op = "GEOSEARCHSTORE"
  /\ \E n \in 0 .. MaxSize : DB!Set(cmd.keys[2], [type |-> "geo", size |-> n])
  /\ Finish("ok")
  /\ UNCHANGED maxmemory_

(* SUNION, SINTER and SDIFF read every set they hold. *)
UseRead ==
  /\ pc = "use" /\ cmd.op \in Combine
  /\ UNCHANGED <<dbvars, maxmemory_>>
  /\ Finish("ok")

(* DEL deletes its keys one by one, expired or not. *)
UseDelete ==
  /\ pc = "delete"
  /\ IF DB!Stored(Head(todo)) THEN DB!Delete(Head(todo)) ELSE UNCHANGED dbvars
  /\ IF Tail(todo) = <<>>
       THEN Finish("ok")
       ELSE GoTo("delete") /\ todo' = Tail(todo) /\ UNCHANGED <<held, left>>
  /\ UNCHANGED maxmemory_

-----------------------------------------------------------------------------
(* Commands of a single step, and the clock. *)
Quiet == pc = "idle" /\ UNCHANGED <<pc, cmd, todo, held, left, reply, touched>>

(* GET, STRLEN, LLEN, LRANGE, TYPE, TTL, ...: one lookup, nothing else;
   EXISTS is one after another. *)
Read(k) == Quiet /\ DB!Get(k) /\ UNCHANGED maxmemory_

Expire(k, s) == Quiet /\ (DB!Expire(k, s) \/ DB!ExpireFails(k, s)) /\ UNCHANGED maxmemory_

Flushdb == Quiet /\ DB!Clear /\ UNCHANGED maxmemory_

ConfigSetMaxmemory(bytes) == Quiet /\ maxmemory_' = bytes /\ UNCHANGED dbvars

IsMemoryFull ==
  /\ Quiet
  /\ maxmemory_ > 0 /\ Usage >= maxmemory_
  /\ DB!ExpireCycle(FullBatch)
  /\ UNCHANGED maxmemory_

Tick == DB!Tick /\ UNCHANGED <<maxmemory_, pc, cmd, todo, held, left, reply, touched>>

Continue ==
  \/ Lookup \/ CheckMove \/ CheckLimit
  \/ UseCreate \/ UseUpdate \/ UseMiss \/ UseSet \/ UseRemove \/ UseMove \/ UseMoveErase
  \/ UseStore \/ UseRead \/ UseDelete

Next ==
  \/ \E c \in Command : Begin(c)
  \/ Continue
  \/ \E k \in Key : Read(k)
  \/ \E k \in Key, s \in Seconds : Expire(k, s)
  \/ Flushdb
  \/ \E bytes \in Limits : ConfigSetMaxmemory(bytes)
  \/ IsMemoryFull
  \/ Tick

Spec == Init /\ [][Next]_vars

(***************************************************************************)
(* The process goes on with the command it has read, and the client goes   *)
(* on sending write commands.                                              *)
(***************************************************************************)
BeginWrite == /\ cmd' \in Command
              /\ cmd'.op \in Writes
              /\ Begin(cmd')

BusySpec == Spec /\ WF_vars(Continue) /\ SF_vars(BeginWrite)

-----------------------------------------------------------------------------
(* Types. *)
Handle == [key : Key, ttl : DB!TimePoint]

TypeOK ==
  /\ DB!TypeOK
  /\ maxmemory_ \in Limits
  /\ pc \in {"idle", "get", "check", "limit", "use", "use2", "delete"}
  /\ cmd \in Command \cup {NoCommand}
  /\ todo \in {<<>>} \cup {<<k>> : k \in Key} \cup (Key \X Key)
  /\ held \subseteq Handle
  /\ left \in 0 .. 2
  /\ reply \in {"none", "ok", "nil", "wrongtype", "oom"}
  /\ touched \in BOOLEAN

(***************************************************************************)
(* A command never holds a pointer to an object that was freed before its  *)
(* time: a pointer can only be lost to the deadline its object had at the  *)
(* lookup, and only where the command sweeps again (a memory limit is set) *)
(* or looks up a key twice.  Otherwise every handle is good to the end.    *)
(***************************************************************************)
HandlesLostOnlyByDeadline ==
  \A h \in held :
    \/ DB!Stored(h.key) /\ storage[h.key].ttl = h.ttl
    \/ /\ h.ttl # DB!NoTtl /\ h.ttl <= now
       /\ maxmemory_ > 0 \/ Twice

(***************************************************************************)
(* A command that is refused (wrong type, missing key, no memory) has not  *)
(* changed any object that was alive.  GEOADD, which checks the limit      *)
(* point by point, is the exception: it may leave the first ones added.    *)
(***************************************************************************)
RefusedIsUntouched ==
  [][reply' \in {"nil", "wrongtype", "oom"} /\ reply = "none"
       => ~touched' \/ cmd.op = "GEOADD"]_vars

(***************************************************************************)
(* Garbage never costs a client its write: a command is refused for memory *)
(* only when no expired object is left that a sweep could have freed (and  *)
(* not more of them than the sweep's 50).                                  *)
(***************************************************************************)
OomOnlyWithoutGarbage ==
  [][reply' = "oom" /\ reply = "none" => \A k \in Key : DB!Stored(k)' => ~DB!IsExpired(k)']_vars

(***************************************************************************)
(* While an object stays in the map under its key, its type is fixed (SET  *)
(* refuses another type) and so is its deadline, but for EXPIRE: only SET  *)
(* and GEOSEARCHSTORE put a new object in its place.                       *)
(***************************************************************************)
ObjectsKeepTypeAndDeadline ==
  [][\A k \in Key :
       DB!Stored(k) /\ DB!Stored(k)' =>
         /\ TypeOf(k)' # TypeOf(k) => cmd.op = "GEOSEARCHSTORE"
         /\ storage'[k].ttl # storage[k].ttl => pc = "idle" \/ cmd.op \in Forgets]_vars

(***************************************************************************)
(* No object that is alive is ever lost: it leaves the map only because    *)
(* FLUSHDB, a DEL of its key or a pop of this list takes it.               *)
(* What sweeps take goes by the queue alone (database.h:147-160), so an    *)
(* entry any command leaves behind - POP for the list it empties,          *)
(* GEOSEARCHSTORE for the destination it replaces, DEL - would cost some   *)
(* later object of the same key its life, in a sweep many commands later.  *)
(***************************************************************************)
LiveObjectsStay ==
  [][\A k \in Key :
       Found(k) /\ ~DB!Stored(k)' =>
         \/ Flushdb
         \/ pc = "delete" /\ k = Head(todo)
         \/ pc = "use" /\ cmd.op = "POP" /\ k = cmd.keys[1]]_vars

(***************************************************************************)
(* README.md:97: expired records also go by a pass over the expiry queue.  *)
(* With a client that keeps writing, none stays for ever.                  *)
(***************************************************************************)
ExpiredGoes ==
  \A k \in Key : (DB!Stored(k) /\ DB!IsExpired(k)) ~> ~(DB!Stored(k) /\ DB!IsExpired(k))

(***************************************************************************)
(* README.md:28: APPEND adds to the existing value.  So when the command   *)
(* is about to write, the object it found is still the one stored.         *)
(***************************************************************************)
WritesReachTheStore ==
  pc = "use" /\ cmd.op = "APPEND" => \A h \in held : DB!Stored(h.key)
=============================================================================

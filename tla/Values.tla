------------------------------- MODULE Values -------------------------------
(***************************************************************************)
(* What strings, lists and sets contain (core/types/String.h, List.h,      *)
(* Set.h) and what their commands do with them (DaikonDB_String.cpp,       *)
(* _List.cpp, _Set.cpp, _Common.cpp) when nothing expires and memory is    *)
(* unlimited: those are DaikonDB's business, where an object is only a     *)
(* type and a size.                                                        *)
(*                                                                         *)
(* A deque is a sequence.  A string is the sequence of the values it was   *)
(* put together from.  An unordered_set is a set, iterated in an order of  *)
(* its own.  Indices of commands count from 0, or back from -1.            *)
(***************************************************************************)
EXTENDS Integers, Sequences, FiniteSets, SequencesExt

CONSTANTS
  Key,
  Elem,       \* values and members
  Absent,     \* a key that is not stored
  MaxLen,     \* bound of a list (runs only)
  Args,       \* lists of values that clients send, the empty one too
  Indices,    \* indices that clients send
  Counts,     \* counts of LPOP and RPOP; -1 is what the parser makes of none
  SizeRange   \* size_t counts modulo this

VARIABLES
  db,     \* key -> list, set or Absent
  reply   \* how the last command ended

vars == <<db, reply>>

String(s) == [type |-> "string", chars |-> s]
List(s) == [type |-> "list", values |-> s]
Set(S)  == [type |-> "set", members |-> S]

Is(k, type) == db[k] # Absent /\ db[k].type = type

(* Strings and lists within their bounds, and sets. *)
Object == {String(s) : s \in BoundedSeq(Elem, MaxLen - 1)}
          \cup {List(s) : s \in BoundedSeq(Elem, MaxLen)}
          \cup {Set(S) : S \in SUBSET Elem}

ASSUME ValuesAssumption ==
  /\ MaxLen \in Nat /\ MaxLen >= 2
  /\ SizeRange \in Nat /\ MaxLen < SizeRange \div 2
  /\ Args \subseteq Seq(Elem) /\ \A vals \in Args : Len(vals) < SizeRange \div 2
  /\ Indices \subseteq Int /\ Counts \subseteq Int
  /\ Absent \notin Object

-----------------------------------------------------------------------------
PushLeftInOrder(s, vals) == vals \o s   \* slip: pushed as a block

(* List.h.  Values are pushed one by one. *)
PushLeft(s, vals)  == FoldLeft(LAMBDA q, v : <<v>> \o q, s, vals)
PushRight(s, vals) == FoldLeft(LAMBDA q, v : Append(q, v), s, vals)

(* A pop gives the values in the order they come off, and what remains. *)
Taken(s, count) == LET n == count % SizeRange IN IF n < Len(s) THEN n ELSE Len(s)

PopLeft(s, count)  == LET n == Taken(s, count)
                      IN [res |-> SubSeq(s, 1, n), rest |-> SubSeq(s, n + 1, Len(s))]
PopRight(s, count) == LET n == Taken(s, count)
                      IN [res |-> Reverse(SubSeq(s, Len(s) - n + 1, Len(s))),
                          rest |-> SubSeq(s, 1, Len(s) - n)]

(* Slip: stop is taken for the first index that is out. *)
GetRangeShort(s, start, stop) ==
  LET size == Len(s)
      from == IF start < 0 THEN size + start ELSE start
      to   == IF stop < 0 THEN size + stop ELSE stop
      lo   == IF from < 0 THEN 0 ELSE from
      hi   == IF to >= size THEN size - 1 ELSE to
  IN IF size = 0 \/ lo > hi \/ lo >= size THEN <<>> ELSE SubSeq(s, lo + 1, hi)

GetRange(s, start, stop) ==
  LET size == Len(s)
      from == IF start < 0 THEN size + start ELSE start
      to   == IF stop < 0 THEN size + stop ELSE stop
      lo   == IF from < 0 THEN 0 ELSE from
      hi   == IF to >= size THEN size - 1 ELSE to
  IN IF size = 0 \/ lo > hi \/ lo >= size THEN <<>> ELSE SubSeq(s, lo + 1, hi + 1)

GetByIndex(s, i) ==
  LET at == IF i < 0 THEN i + Len(s) ELSE i
  IN IF at < 0 \/ at >= Len(s) THEN <<>> ELSE <<s[at + 1]>>

(* LSET knows no negative indices, and says nothing of one out of range. *)
SetAt(s, i, v) == IF i < 0 \/ i >= Len(s) THEN s ELSE [s EXCEPT ![i + 1] = v]

(* At the first value equal to the pivot. *)
Insert(s, before, pivot, v) ==
  IF \A i \in DOMAIN s : s[i] # pivot
    THEN s
    ELSE LET i == SelectInSeq(s, LAMBDA e : e = pivot)
         IN InsertAt(s, IF before THEN i ELSE i + 1, v)

-----------------------------------------------------------------------------
(* Set.h.  The combinations walk the sets in the order of the keys, and each
   set in an order of its own; a set has an element once, several sets may
   have it more than once. *)
UnionSets(sets) ==
  FoldLeft(LAMBDA result, S : result \o SetToSeq(S \ ToSet(result)), <<>>, sets)
InterSets(sets) == SetToSeq({e \in sets[1] : \A i \in 2 .. Len(sets) : e \in sets[i]})
DiffSets(sets)  == SetToSeq({e \in sets[1] : \A i \in 2 .. Len(sets) : e \notin sets[i]})

WrongType == "wrongtype"
Nil       == "nil"

(* A result that is expected, and the error in its place. *)
Elements(s) == [status |-> "ok", values |-> s]
TypeError   == [status |-> WrongType, values |-> <<>>]

(***************************************************************************)
(* The loops over the keys of SUNION, SINTER and SDIFF: a missing key is   *)
(* skipped or ends the command, a key of another type ends it with an      *)
(* error, whichever comes first.                                           *)
(***************************************************************************)
FirstMissing(keys) == SelectInSeq(keys, LAMBDA k : db[k] = Absent)     \* 0 if none
FirstWrong(keys)   == SelectInSeq(keys, LAMBDA k : db[k] # Absent /\ ~Is(k, "set"))

SetsOf(keys) ==
  FoldLeft(LAMBDA sets, k : IF Is(k, "set") THEN Append(sets, db[k].members) ELSE sets, <<>>, keys)

Sunion(keys) == IF FirstWrong(keys) # 0 THEN TypeError ELSE Elements(UnionSets(SetsOf(keys)))

Sinter(keys) ==
  LET missing == FirstMissing(keys)
      wrong   == FirstWrong(keys)
  IN IF keys = <<>> \/ (missing # 0 /\ (wrong = 0 \/ missing < wrong)) THEN Elements(<<>>)
     ELSE IF wrong # 0 THEN TypeError
     ELSE Elements(InterSets(SetsOf(keys)))

(* Slip: the first key is skipped like any other when it is missing. *)
SdiffSkipsFirst(keys) ==
  IF FirstWrong(keys) # 0 THEN TypeError
  ELSE Elements(IF SetsOf(keys) = <<>> THEN <<>> ELSE DiffSets(SetsOf(keys)))

Sdiff(keys) ==
  IF keys = <<>> \/ FirstMissing(keys) = 1 THEN Elements(<<>>)
  ELSE IF FirstWrong(keys) # 0 THEN TypeError
  ELSE Elements(DiffSets(SetsOf(keys)))

-----------------------------------------------------------------------------
(* The commands that change something.  A missing key is created by LPUSH,
   RPUSH and SADD, even with nothing to put in it. *)
Init == db = [k \in Key |-> Absent] /\ reply = Nil

Put(k, o) == db' = [db EXCEPT ![k] = o]

OrNew(k, o) == IF db[k] = Absent THEN o ELSE db[k]

(* The ways out at the start of a command; a read takes no other way. *)
OfOtherType(k, type)  == db[k] # Absent /\ ~Is(k, type) /\ reply' = WrongType /\ UNCHANGED db
NotStored(k)         == db[k] = Absent /\ reply' = Nil /\ UNCHANGED db

Read(k, type) == \/ OfOtherType(k, type) \/ NotStored(k)
                 \/ Is(k, type) /\ reply' = "ok" /\ UNCHANGED db

(* SUNION, SINTER and SDIFF, with what they work out. *)
Combine(answer) == reply' = answer.status /\ UNCHANGED db

(* Only a string, or nothing, is replaced by a SET. *)
SetString(k, v) == \/ OfOtherType(k, "string")
                   \/ /\ db[k] = Absent \/ Is(k, "string")
                      /\ Put(k, String(<<v>>)) /\ reply' = "ok"

AppendString(k, v) ==
  LET s == Append(OrNew(k, String(<<>>)).chars, v)
  IN \/ OfOtherType(k, "string")
     \/ /\ db[k] = Absent \/ Is(k, "string")
        /\ Len(s) < MaxLen
        /\ Put(k, String(s)) /\ reply' = "ok"

Push(k, s) == /\ db[k] = Absent \/ Is(k, "list")
              /\ Len(s) <= MaxLen
              /\ Put(k, List(s)) /\ reply' = "ok"

Lpush(k, vals) == \/ OfOtherType(k, "list")
                  \/ Push(k, PushLeft(OrNew(k, List(<<>>)).values, vals))

Rpush(k, vals) == \/ OfOtherType(k, "list")
                  \/ Push(k, PushRight(OrNew(k, List(<<>>)).values, vals))

(* A list that has been emptied is deleted. *)
Popped(k, popped) ==
  /\ Put(k, IF popped.rest = <<>> THEN Absent ELSE List(popped.rest))
  /\ reply' = "ok"

Lpop(k, count) == \/ OfOtherType(k, "list") \/ NotStored(k)
                  \/ Is(k, "list") /\ Popped(k, PopLeft(db[k].values, count))

Rpop(k, count) == \/ OfOtherType(k, "list") \/ NotStored(k)
                  \/ Is(k, "list") /\ Popped(k, PopRight(db[k].values, count))

Lset(k, i, v) ==
  \/ OfOtherType(k, "list") \/ NotStored(k)
  \/ Is(k, "list") /\ Put(k, List(SetAt(db[k].values, i, v))) /\ reply' = "ok"

Linsert(k, before, pivot, v) ==
  \/ OfOtherType(k, "list") \/ NotStored(k)
  \/ /\ Is(k, "list")
     /\ LET s == Insert(db[k].values, before, pivot, v)
        IN /\ Len(s) <= MaxLen
           /\ Put(k, List(s))
           /\ reply' = IF s = db[k].values THEN Nil ELSE "ok"

Sadd(k, elements) ==
  LET old == OrNew(k, Set({})).members
  IN \/ OfOtherType(k, "set")
     \/ /\ db[k] = Absent \/ Is(k, "set")
        /\ Put(k, Set(old \cup ToSet(elements)))
        /\ reply' = "ok"

Srem(k, elements) ==
  \/ OfOtherType(k, "set") \/ NotStored(k)
  \/ /\ Is(k, "set")
     /\ Put(k, Set(db[k].members \ ToSet(elements)))
     /\ reply' = "ok"

(* Slips: the source's name is added for the member; a member that is in the
   destination already stays in the source; the member is added before it is
   looked for. *)
SmoveOfSets(src, dst, e, moved) ==
  IF Is(src, "set") /\ Is(dst, "set")
    THEN db' = moved /\ reply' = IF e \in db[src].members THEN "ok" ELSE Nil
    ELSE reply' = WrongType /\ UNCHANGED db

SmoveSwapsArguments(src, dst, e) ==
  SmoveOfSets(src, dst, e, [db EXCEPT ![dst].members = @ \cup {src}])

SmoveLeavesCopy(src, dst, e) ==
  SmoveOfSets(src, dst, e,
    IF e \notin db[src].members \ db[dst].members THEN db
    ELSE [db EXCEPT ![dst].members = @ \cup {e}, ![src].members = @ \ {e}])

SmoveAddsFirst(src, dst, e) ==
  SmoveOfSets(src, dst, e, [db EXCEPT ![dst].members = @ \cup {e}, ![src].members = @ \ {e}])

(* MoveMember puts the member into the destination, then erases it from the
   source: from the set itself, if they are the same. *)
Smove(src, dst, e) ==
  \/ (db[src] = Absent \/ db[dst] = Absent) /\ reply' = Nil /\ UNCHANGED db
  \/ /\ db[src] # Absent /\ db[dst] # Absent /\ ~(Is(src, "set") /\ Is(dst, "set"))
     /\ reply' = WrongType /\ UNCHANGED db
  \/ /\ Is(src, "set") /\ Is(dst, "set")
     /\ reply' = IF e \in db[src].members THEN "ok" ELSE Nil
     /\ LET put == [db EXCEPT ![dst].members = @ \cup {e}]
        IN IF e \in db[src].members
             THEN db' = [put EXCEPT ![src].members = @ \ {e}]
             ELSE UNCHANGED db

Del(keys) == /\ db' = [k \in Key |-> IF k \in ToSet(keys) THEN Absent ELSE db[k]]
             /\ reply' = "ok"

Flushdb == db' = [k \in Key |-> Absent] /\ reply' = "ok"
-----------------------------------------------------------------------------
Lists   == {<<>>} \cup {db[k].values : k \in {j \in Key : Is(j, "list")}}
Members(k) == IF Is(k, "set") THEN db[k].members ELSE {}

(* Every key has an object of one of the types, within its bounds. *)
TypeOK == db \in [Key -> Object \cup {Absent}]

(***************************************************************************)
(* A list is a stack at each end and a queue from one end to the other: a  *)
(* pop of as many as were pushed on that side gives them back, the last    *)
(* first, and leaves what was there before.                                *)
(***************************************************************************)
PushesAndPopsMirror ==
  \A s \in Lists, vals \in Args :
    /\ PopLeft(PushLeft(s, vals), Len(vals))   = [res |-> Reverse(vals), rest |-> s]
    /\ PopRight(PushRight(s, vals), Len(vals)) = [res |-> Reverse(vals), rest |-> s]
    /\ PopLeft(PushRight(s, vals), Len(s) + Len(vals)).res = s \o vals

(***************************************************************************)
(* LRANGE gives the elements from start to stop, in order, for every pair  *)
(* of indices, negative or far out of range; LINDEX is an LRANGE of one.   *)
(***************************************************************************)
RangeIsSlice ==
  \A s \in Lists, start, stop \in Indices :
    LET At(i)   == IF i < 0 THEN i + Len(s) ELSE i
        wanted  == {i \in 0 .. Len(s) - 1 : At(start) <= i /\ i <= At(stop)}
        Rank(i) == Cardinality({h \in wanted : h <= i})
        range   == GetRange(s, start, stop)
    IN /\ Len(range) = Cardinality(wanted)
       /\ \A i \in wanted : range[Rank(i)] = s[i + 1]
       /\ GetByIndex(s, start) = GetRange(s, start, start)

(***************************************************************************)
(* SUNION, SINTER and SDIFF give each element of the union, intersection   *)
(* or difference once, with a missing key as the empty set: unless they    *)
(* answer WRONGTYPE, which they do only if one of the keys is no set.      *)
(***************************************************************************)
CombinesLikeSets ==
  \A keys \in SeqOf(Key, 3) \ {<<>>} :
    LET all   == UNION {Members(k) : k \in ToSet(keys)}
        inAll == {e \in all : \A k \in ToSet(keys) : e \in Members(k)}
        inOne == Members(keys[1]) \ UNION {Members(k) : k \in ToSet(Tail(keys))}
        Answers(answer, S) ==
          IF answer.status = WrongType
            THEN FirstWrong(keys) # 0
            ELSE ToSet(answer.values) = S /\ IsInjective(answer.values)
    IN Answers(Sunion(keys), all) /\ Answers(Sinter(keys), inAll) /\ Answers(Sdiff(keys), inOne)

(***************************************************************************)
(* SMOVE between two sets neither loses a member nor copies it: it ends up *)
(* in the destination alone of the two.  (Within one set MoveMember erases *)
(* it, and it is lost.)                                                    *)
(***************************************************************************)
MovesKeepMembers ==
  [][\A src, dst \in Key, e \in Elem :
       src # dst /\ Is(src, "set") /\ Is(dst, "set") /\ Smove(src, dst, e) =>
         /\ Members(src)' \cup Members(dst)' = Members(src) \cup Members(dst)
         /\ Members(src)' \cap Members(dst)' = (Members(src) \cap Members(dst)) \ {e}]_vars
=============================================================================

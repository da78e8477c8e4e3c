------------------------------ MODULE Session ------------------------------
(***************************************************************************)
(* A client at its input (clients/StreamClient.h, details/handlers.h):     *)
(* lines are read, cut and parsed, and their commands carried out one      *)
(* after the other on the values of the database.  The handlers of the     *)
(* commands that are not about values (deadlines, geo objects, memory) are *)
(* left out here, not their parsing.                                       *)
(***************************************************************************)
EXTENDS Values, Parsing

CONSTANTS
  Lines,     \* lines of input
  Symbols, MaxLine,  \* all the lines TokensAreAsWritten looks at (runs only)
  Texts,     \* keys and values CommandsArrive sends,
  Stray      \* and a word that means nothing

VARIABLE batch   \* the commands of the line that are still to run

svars == <<db, reply, batch>>

-----------------------------------------------------------------------------
Handle(c) ==
  LET a == c.args
  IN \/ c = Unknown /\ reply' = "unknown" /\ UNCHANGED db
     \/ c.name = "SET"     /\ SetString(a[1], a[2])
     \/ c.name = "APPEND"  /\ AppendString(a[1], a[2])
     \/ c.name = "LPUSH"   /\ Lpush(a[1], a[2])
     \/ c.name = "RPUSH"   /\ Rpush(a[1], a[2])
     \/ c.name = "LPOP"    /\ Lpop(a[1], a[2])
     \/ c.name = "RPOP"    /\ Rpop(a[1], a[2])
     \/ c.name = "LSET"    /\ Lset(a[1], a[2], a[3])
     \/ c.name = "LINSERT" /\ Linsert(a[1], a[2], a[3], a[4])
     \/ c.name = "SADD"    /\ Sadd(a[1], a[2])
     \/ c.name = "SREM"    /\ Srem(a[1], a[2])
     \/ c.name = "SMOVE"   /\ Smove(a[1], a[2], a[3])
     \/ c.name = "DEL"     /\ Del(a[1])
     \/ c.name = "FLUSHDB" /\ Flushdb
     \/ c.name = "SUNION"  /\ Combine(Sunion(a[1]))
     \/ c.name = "SINTER"  /\ Combine(Sinter(a[1]))
     \/ c.name = "SDIFF"   /\ Combine(Sdiff(a[1]))
     \/ c.name \in {"TYPE", "EXISTS", "DBSIZE"} /\ reply' = "ok" /\ UNCHANGED db
     \/ c.name \in {"GET", "STRLEN"}                  /\ Read(a[1], "string")
     \/ c.name \in {"LLEN", "LRANGE", "LINDEX"}       /\ Read(a[1], "list")
     \/ c.name \in {"SISMEMBER", "SMEMBERS", "SCARD"} /\ Read(a[1], "set")

(* What is made of each line. *)
Understood ==
  [l \in Lines |->
     LET cut == GetTokens(l)
     IN [closed |-> cut.closed,
         commands |-> [i \in DOMAIN cut.commands |-> Dispatch(cut.commands[i])]]]

(* Key and Elem have all the keys and values that lines name (commands that
   change nothing apart), and numbers are integers. *)
OfKeys == {"DEL", "EXISTS", "SUNION", "SINTER", "SDIFF"}

Fits(c) ==
  \A i \in DOMAIN Pattern[c.name] :
    LET tag == Pattern[c.name][i]
    IN /\ tag = "Key" => c.args[i] \in Key
       /\ tag = "Value" => c.args[i] \in Elem
       /\ tag = "VarArgs" => c.args[i] \in Seq(IF c.name \in OfKeys THEN Key ELSE Elem)
       /\ tag \in {"Int64", "OptionalInt64"} => c.args[i] \in Int

ASSUME SessionAssumption ==
  /\ MaxLine \in Nat
  /\ \A l \in Lines :
       LET commands == Understood[l].commands
       IN /\ l \in Seq(ToSet(l))
          /\ \A i \in DOMAIN commands : commands[i] = Unknown \/ Fits(commands[i])

SInit == Init /\ batch = <<>>

(* ExecuteCommand: the first command of a line, or the reason why there is
   none.  "exit" ends the client, and with it the database. *)
Refuse(l) ==
  /\ batch = <<>>
  /\ Understood[l].commands = <<>>
  /\ reply' = IF Understood[l].closed THEN "empty" ELSE "unclosed"
  /\ UNCHANGED <<db, batch>>

Execute(l) ==
  /\ batch = <<>>
  /\ Understood[l].commands # <<>>
  /\ Handle(Head(Understood[l].commands))
  /\ batch' = Tail(Understood[l].commands)

(* The loop goes on whatever became of the command before. *)
Continue ==
  /\ batch # <<>>
  /\ Handle(Head(batch))
  /\ batch' = Tail(batch)

SNext == Continue \/ \E l \in Lines : Refuse(l) \/ Execute(l)

SSpec == SInit /\ [][SNext]_svars

-----------------------------------------------------------------------------
(* Three properties are about lines and not about the state: they are asked
   once, before the first line. *)

(***************************************************************************)
(* What is written in a line, read without a tokenizer: w is the line with *)
(* its end.  A token is a range of symbols, what stands between two quotes *)
(* or a run of words outside quotes that is as long as can be.  It belongs *)
(* to the command that ends next after it.                                 *)
(***************************************************************************)
QuotesTo(w, i) == Cardinality({j \in 1 .. i : w[j] = Quote})
Inside(w, i)   == QuotesTo(w, i - 1) % 2 = 1

EndsAt(w, i)   == ~Inside(w, i) /\ w[i] \in {Semicolon, Nul}
EndsTo(w, i)   == Cardinality({j \in 1 .. i : EndsAt(w, j)})

InWord(w, i)   == i \in DOMAIN w /\ ~Inside(w, i) /\ w[i] \notin {Space, Quote, Semicolon, Nul}

Runs(w) ==
  {r \in (1 .. Len(w)) \X (1 .. Len(w)) :
     /\ r[1] <= r[2] /\ \A i \in r[1] .. r[2] : InWord(w, i)
     /\ ~InWord(w, r[1] - 1) /\ ~InWord(w, r[2] + 1)}

Quoted(w) ==
  {r \in (2 .. Len(w)) \X (1 .. Len(w) - 1) :
     /\ r[1] <= r[2] + 1 /\ \A i \in r[1] .. r[2] : w[i] # Quote
     /\ w[r[1] - 1] = Quote /\ ~Inside(w, r[1] - 1) /\ w[r[2] + 1] = Quote}

Tokens(w) == Runs(w) \cup Quoted(w)

(* How many commands have ended before a token does; the tokens up to one. *)
EndedAt(w, r) == EndsTo(w, r[2])
UpTo(T, r)    == {q \in T : q[2] <= r[2]}

(***************************************************************************)
(* Tokenizer.cpp:24-71, one pass, finds just these tokens, for every line, *)
(* however quotes and words touch: as many commands as have tokens, in     *)
(* order, each with its tokens in order.  An odd number of quotes is an    *)
(* error.                                                                  *)
(***************************************************************************)
AsWritten(w, cut) ==
  LET T          == Tokens(w)
      Among(r)   == {q \in T : EndedAt(w, q) = EndedAt(w, r)}
      Command(r) == cut.commands[Cardinality({EndedAt(w, q) : q \in UpTo(T, r)})]
  IN /\ cut.closed <=> QuotesTo(w, Len(w)) % 2 = 0
     /\ ~cut.closed => cut.commands = <<>>
     /\ cut.closed =>
          /\ Len(cut.commands) = Cardinality({EndedAt(w, q) : q \in T})
          /\ \A r \in T :
               /\ Len(Command(r)) = Cardinality(Among(r))
               /\ Command(r)[Cardinality(UpTo(Among(r), r))] = SubSeq(w, r[1], r[2])

TokensAreAsWritten ==
  SInit => \A line \in SeqOf(Symbols, MaxLine) : AsWritten(Append(line, Nul), GetTokens(line))

(* The ways to write an argument: what it means, and its tokens. *)
Ways(tag) ==
  LET W(val, tokens) == [val |-> val, tokens |-> tokens]
      numbers == {W(NumberOf[n], << <<n>> >>) : n \in {"-1", "2"}}
  IN CASE tag \in {"Key", "Value"}    -> {W(t, <<t>>) : t \in Texts}
       [] tag \in {"Int64", "Double"} -> numbers
       [] tag = "OptionalInt64" -> numbers \cup {W(-1, <<>>)}
       [] tag = "BeforeAfter"   -> {W(TRUE, << <<"before">> >>), W(FALSE, << <<"AFTER">> >>)}
       [] tag = "AscDesc"       -> {W(TRUE, <<>>), W(TRUE, << <<"ASC">> >>), W(FALSE, << <<"desc">> >>)}
       [] tag = "Unit"          -> {W(<<"m">>, <<>>), W(<<"km">>, << <<"km">> >>)}
       [] tag = "FromLonLat"    -> {W(1, << <<"FROMLONLAT">> >>)}
       [] tag = "ByRadius"      -> {W(1, << <<"BYRADIUS">> >>)}
       [] tag = "GeoCount"      -> {W(-1, <<>>), W(2, << <<"count">>, <<"2">> >>)}
       [] tag = "VarArgs"       -> {W(ts, ts) : ts \in SeqOf(Texts, 2)}
       [] tag = "GeoPoints"     ->
            {W(<<>>, <<>>)} \cup
            {W(<<[longitude |-> 2, latitude |-> -1, member |-> t]>>, << <<"2">>, <<"-1">>, t >>) : t \in Texts}

NameOf(name) ==
  IF name \in OneWord THEN << <<name>> >>
  ELSE CHOOSE words \in { << <<x>>, <<y>> >> : x \in DOMAIN TwoWords, y \in {"SET", "GET", "USAGE"} } :
         /\ words[2][1] \in DOMAIN TwoWords[words[1][1]]
         /\ TwoWords[words[1][1]][words[2][1]] = name

(* The ways to write a command. *)
Written(name) ==
  FoldLeft(LAMBDA ways, tag :
             {[args |-> Append(w.args, x.val), tokens |-> w.tokens \o x.tokens] :
                w \in ways, x \in Ways(tag)},
           {[args |-> <<>>, tokens |-> NameOf(name)]}, Pattern[name])

(* Ways to write GEOSEARCH that leave out the order but not the count. *)
CountWithoutOrder(w) ==
  LET n == Len(w.tokens)
  IN n > 2 /\ IsEquals(w.tokens[n - 1], "COUNT")
     /\ ~\E order \in {"ASC", "DESC"} : IsEquals(w.tokens[n - 2], order)

QuotedEach(tokens) == FlattenSeq([i \in DOMAIN tokens |-> <<Quote>> \o tokens[i] \o <<Quote>>])

(***************************************************************************)
(* Every command arrives as it was meant, whatever its keys and values     *)
(* are - empty, with blanks or semicolons, or looking like keywords - and  *)
(* whichever of the optional arguments are left out                        *)
(* (CommandParser.cpp:22-66).  Nothing is said here of a COUNT without an  *)
(* order: OptionsMayBeLeftOut is about it, and does not hold.              *)
(***************************************************************************)
CommandsArrive ==
  SInit => \A name \in DOMAIN Pattern : \A w \in Written(name) :
    LET cut == GetTokens(QuotedEach(w.tokens)).commands
        c   == Dispatch(cut[1])
        geo == name \in {"GEOSEARCH", "GEOSEARCHSTORE"}
    IN /\ Len(cut) = 1
       /\ ~(geo /\ CountWithoutOrder(w)) => c.name = name /\ c.args = w.args

(***************************************************************************)
(* README.md:65-66: after its radius and unit a search may name an order,  *)
(* [ASC|DESC], and a count, [COUNT n], each or neither.  So however it is  *)
(* written, it is understood as that search.                               *)
(***************************************************************************)
OptionsMayBeLeftOut ==
  SInit => \A name \in {"GEOSEARCH", "GEOSEARCHSTORE"} : \A w \in Written(name) :
    LET c == Dispatch(w.tokens)
        unit == CHOOSE i \in DOMAIN Pattern[name] : Pattern[name][i] = "Unit"
    IN w.args[unit] = <<"km">> => c.name = name /\ c.args = w.args

(***************************************************************************)
(* No word of a command goes unnoticed: one too many makes it another      *)
(* value, or the command is refused (Parsing.h:44-47).                     *)
(***************************************************************************)
StrayWordsNoticed ==
  SInit => \A name \in DOMAIN Pattern : \A w \in Written(name) :
    LET c == Dispatch(Append(w.tokens, <<Stray>>))
    IN c.name # "unknown" =>
         c.name = name /\ Last(Pattern[name]) = "VarArgs"
                       /\ Last(c.args) = Append(Last(w.args), <<Stray>>)

(***************************************************************************)
(* A command that answers with an error or with nil has changed nothing:   *)
(* every handler looks at all its keys before it touches the first.        *)
(***************************************************************************)
ErrorsChangeNothing == [][reply' # "ok" => UNCHANGED db]_svars

(***************************************************************************)
(* handlers.h:33-34: LPOP and RPOP without a count pop one value           *)
(* (value_or(1), and DaikonDB.h:38-39: count = 1).                         *)
(***************************************************************************)
PopsOneByDefault ==
  [][\A k \in Key :
       /\ Execute(<<"LPOP", Space>> \o k) /\ Is(k, "list") /\ Len(db[k].values) > 1
       => Is(k, "list")' /\ db'[k].values = Tail(db[k].values)]_svars
=============================================================================

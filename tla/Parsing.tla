------------------------------ MODULE Parsing ------------------------------
(***************************************************************************)
(* From a line of input to commands: the tokenizer (Parsing/Tokenizer.cpp) *)
(* cuts a line into commands and those into tokens, the parser             *)
(* (Parsing/CommandParser.cpp, parsing/Types.h) reads the tokens of each   *)
(* command by the pattern its name calls for.  Both are functions.         *)
(*                                                                         *)
(* A line is a sequence of symbols: separators, quotes, and words.  A word *)
(* stands for a run of characters that nothing can divide; numbers and     *)
(* names are one word, and two numbers are never side by side.             *)
(***************************************************************************)
EXTENDS Integers, Sequences, SequencesExt

CONSTANTS
  Uppercase,  \* word -> the same in upper case, for words that differ from it
  NumberOf    \* word -> the number it is

Space     == " "
Semicolon == ";"
Quote     == "\""
Nul       == "NUL"       \* '\0', which also stands for the end of the line

-----------------------------------------------------------------------------
(* The tokenizer's state; the commands it has cut off, and what has been
   found of the next. *)
Start == [commands |-> <<>>, command |-> <<>>, token |-> <<>>,
          inside_token |-> FALSE, in_quotes |-> FALSE]

EndToken(s) ==
  [s EXCEPT !.command = IF s.inside_token THEN Append(@, s.token) ELSE @,
            !.inside_token = FALSE]

EndCommand(s) ==
  [s EXCEPT !.commands = IF s.command = <<>> THEN @ ELSE Append(@, s.command),
            !.command = <<>>]

(* Slip: the token that a quote cuts off is dropped. *)
OpenQuoteDrops(s) == [s EXCEPT !.token = <<>>, !.inside_token = TRUE, !.in_quotes = TRUE]

OpenQuote(s) == [EndToken(s) EXCEPT !.token = <<>>, !.inside_token = TRUE, !.in_quotes = TRUE]

CloseQuote(s) == [EndToken(s) EXCEPT !.in_quotes = FALSE]

Symbol(s, c) ==
  CASE ~s.in_quotes /\ c = Space              -> EndToken(s)
    [] ~s.in_quotes /\ c \in {Semicolon, Nul} -> EndCommand(EndToken(s))
    [] c = Quote /\ s.in_quotes               -> CloseQuote(s)
    [] c = Quote /\ ~s.in_quotes              -> OpenQuote(s)
    [] OTHER -> [s EXCEPT !.token = IF s.inside_token THEN Append(@, c) ELSE <<c>>,
                          !.inside_token = TRUE]

(* A line that ends within quotes is refused whole. *)
GetTokens(line) ==
  LET end == FoldLeft(Symbol, Start, Append(line, Nul))
  IN [closed |-> ~end.in_quotes,
      commands |-> IF end.in_quotes THEN <<>> ELSE end.commands]

-----------------------------------------------------------------------------
Upper(word) == IF word \in DOMAIN Uppercase THEN Uppercase[word] ELSE word

(* Names and keywords in upper or lower case. *)
IsEquals(token, name) == Len(token) = 1 /\ Upper(token[1]) = name

(* from_chars is content with a number at the start of the token. *)
IsNumber(token) == token # <<>> /\ token[1] \in DOMAIN NumberOf

(***************************************************************************)
(* Extract: the state of a parse is whether all went well, the values so   *)
(* far and the tokens that are left.                                       *)
(***************************************************************************)
Took(p, n, val) == [p EXCEPT !.vals = Append(@, val), !.rest = SubSeq(@, n + 1, Len(@))]
Fail(p)         == [p EXCEPT !.ok = FALSE]

NextToken(p) == IF p.rest = <<>> THEN Fail(p) ELSE Took(p, 1, p.rest[1])

Number(p) ==
  IF p.rest # <<>> /\ IsNumber(p.rest[1]) THEN Took(p, 1, NumberOf[p.rest[1][1]]) ELSE Fail(p)

OptionalInt64(p) == IF p.rest = <<>> THEN Took(p, 0, -1) ELSE Number(p)

Keyword(p, name) ==
  IF p.rest # <<>> /\ IsEquals(p.rest[1], name) THEN Took(p, 1, 1) ELSE Fail(p)

(* One of two words, for TRUE and FALSE. *)
Either(p, yes, no) ==
  IF p.rest # <<>> /\ IsEquals(p.rest[1], yes)     THEN Took(p, 1, TRUE)
  ELSE IF p.rest # <<>> /\ IsEquals(p.rest[1], no) THEN Took(p, 1, FALSE)
  ELSE Fail(p)

(* Only at the very end is the order optional. *)
AscDesc(p) == IF p.rest = <<>> THEN Took(p, 0, TRUE) ELSE Either(p, "ASC", "DESC")

(* Slip: a token that is no unit is taken for one. *)
UnitAnything(p) == IF p.rest = <<>> THEN Took(p, 0, <<"m">>) ELSE Took(p, 1, p.rest[1])

Unit(p) ==
  IF p.rest # <<>> /\ \E u \in {"M", "KM", "MI", "FT"} : IsEquals(p.rest[1], u)
    THEN Took(p, 1, p.rest[1])
    ELSE Took(p, 0, <<"m">>)

GeoCount(p) ==
  IF p.rest = <<>> \/ ~IsEquals(p.rest[1], "COUNT") THEN Took(p, 0, -1)
  ELSE IF Len(p.rest) > 1 /\ IsNumber(p.rest[2]) THEN Took(p, 2, NumberOf[p.rest[2][1]])
  ELSE Fail(p)

VarArgs(p) == Took(p, Len(p.rest), p.rest)

(* Triples of two numbers and a name, as many as there are. *)
GeoPoints(p) ==
  LET At(i) == p.rest[i]
  IN IF Len(p.rest) % 3 = 0 /\ \A i \in DOMAIN p.rest : i % 3 # 0 => IsNumber(At(i))
       THEN Took(p, Len(p.rest),
                 [i \in 1 .. Len(p.rest) \div 3 |->
                    [longitude |-> NumberOf[At(3 * i - 2)[1]],
                     latitude  |-> NumberOf[At(3 * i - 1)[1]], member |-> At(3 * i)]])
       ELSE Fail(p)

Extract(p, tag) ==
  CASE tag \in {"Key", "Value"}    -> NextToken(p)
    [] tag \in {"Int64", "Double"} -> Number(p)
    [] tag = "OptionalInt64"       -> OptionalInt64(p)
    [] tag = "BeforeAfter"         -> Either(p, "BEFORE", "AFTER")
    [] tag = "AscDesc"             -> AscDesc(p)
    [] tag = "Unit"                -> Unit(p)
    [] tag = "FromLonLat"          -> Keyword(p, "FROMLONLAT")
    [] tag = "ByRadius"            -> Keyword(p, "BYRADIUS")
    [] tag = "GeoCount"            -> GeoCount(p)
    [] tag = "VarArgs"             -> VarArgs(p)
    [] tag = "GeoPoints"           -> GeoPoints(p)

-----------------------------------------------------------------------------
Search == <<"FromLonLat", "Double", "Double", "ByRadius", "Double", "Unit", "AscDesc", "GeoCount">>

(* The pattern of each command. *)
Pattern ==
  [ SET |-> <<"Key", "Value">>, GET |-> <<"Key">>, STRLEN |-> <<"Key">>,
    APPEND |-> <<"Key", "Value">>,
    LPUSH |-> <<"Key", "VarArgs">>, RPUSH |-> <<"Key", "VarArgs">>,
    LPOP |-> <<"Key", "OptionalInt64">>, RPOP |-> <<"Key", "OptionalInt64">>,
    LLEN |-> <<"Key">>, LRANGE |-> <<"Key", "Int64", "Int64">>, LINDEX |-> <<"Key", "Int64">>,
    LSET |-> <<"Key", "Int64", "Value">>, LINSERT |-> <<"Key", "BeforeAfter", "Value", "Value">>,
    SADD |-> <<"Key", "VarArgs">>, SREM |-> <<"Key", "VarArgs">>,
    SISMEMBER |-> <<"Key", "Value">>, SMEMBERS |-> <<"Key">>, SCARD |-> <<"Key">>,
    SUNION |-> <<"VarArgs">>, SINTER |-> <<"VarArgs">>, SDIFF |-> <<"VarArgs">>,
    SMOVE |-> <<"Key", "Key", "Value">>,
    GEOADD |-> <<"Key", "GeoPoints">>, GEOPOS |-> <<"Key", "VarArgs">>,
    GEODIST |-> <<"Key", "Value", "Value", "Unit">>,
    GEOSEARCH |-> <<"Key">> \o Search, GEOSEARCHSTORE |-> <<"Key", "Key">> \o Search,
    TYPE |-> <<"Key">>, DEL |-> <<"VarArgs">>, KEYS |-> <<"Value">>, FLUSHDB |-> <<>>,
    DBSIZE |-> <<>>, EXISTS |-> <<"VarArgs">>, EXPIRE |-> <<"Key", "Int64">>, TTL |-> <<"Key">>,
    CONFIG_SET |-> <<"Value", "Int64">>, CONFIG_GET |-> <<"Value">>, MEMORY_USAGE |-> <<"Key">> ]

(* Commands of two words, which are not in the table under one. *)
TwoWords == [ CONFIG |-> [SET |-> "CONFIG_SET", GET |-> "CONFIG_GET"],
              MEMORY |-> [USAGE |-> "MEMORY_USAGE"] ]
OneWord  == DOMAIN Pattern \ {"CONFIG_SET", "CONFIG_GET", "MEMORY_USAGE"}

Unknown == [name |-> "unknown", args |-> <<>>]

(* Slip: tokens left over are ignored. *)
TryParseIgnores(name, args) ==
  LET end == FoldLeft(Extract, [ok |-> TRUE, vals |-> <<>>, rest |-> args], Pattern[name])
  IN IF end.ok THEN [name |-> name, args |-> end.vals] ELSE Unknown

TryParse(name, args) ==
  LET end == FoldLeft(Extract, [ok |-> TRUE, vals |-> <<>>, rest |-> args], Pattern[name])
  IN IF end.ok /\ end.rest = <<>> THEN [name |-> name, args |-> end.vals] ELSE Unknown

Dispatch(tokens) ==
  LET Named(i, names) == Len(tokens) >= i /\ \E n \in names : IsEquals(tokens[i], n)
      NameAt(i)       == Upper(tokens[i][1])
  IN IF Named(1, OneWord) THEN TryParse(NameAt(1), Tail(tokens))
     ELSE IF Named(1, DOMAIN TwoWords) /\ Named(2, DOMAIN TwoWords[NameAt(1)])
       THEN TryParse(TwoWords[NameAt(1)][NameAt(2)], Tail(Tail(tokens)))
     ELSE Unknown
=============================================================================

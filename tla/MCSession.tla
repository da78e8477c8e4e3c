----------------------------- MODULE MCSession -----------------------------
(***************************************************************************)
(* An instance of Session for TLC: for every command about values, all the *)
(* lines that send it with the keys and values below, and some lines of    *)
(* several commands, with quotes, with mistakes.                           *)
(***************************************************************************)
EXTENDS Session

CONSTANTS k1, k2, v1, v2, v3

MCKey     == {<<k1>>, <<k2>>}
MCElem    == {<<v1>>, <<v2>>, <<v3>>}
MCArgs    == SeqOf(MCElem, 2)
MCIndices == -5 .. 5
MCCounts  == {-1, 0, 1, 2, 5}

Numbers    == <<"-5", "-4", "-3", "-2", "-1", "0", "1", "2", "3", "4", "5">>
MCNumberOf == [w \in ToSet(Numbers) |-> CHOOSE n \in -5 .. 5 : Numbers[n + 6] = w]
MCUppercase == [lpush |-> "LPUSH", Linsert |-> "LINSERT", del |-> "DEL", before |-> "BEFORE",
                desc |-> "DESC", km |-> "KM", count |-> "COUNT", usage |-> "USAGE"]

Sent(tokens) == FlattenSeq([i \in 1 .. 2 * Len(tokens) - 1 |->
                              IF i % 2 = 1 THEN tokens[(i + 1) \div 2] ELSE <<Space>>])

Word(n) == <<Numbers[n + 6]>>

MCLines ==
  {Sent(<< <<name>>, k >> \o vals) :
     name \in {"lpush", "RPUSH", "SADD", "SREM"}, k \in MCKey, vals \in MCArgs}
  \cup {Sent(<< <<name>>, k, v >>) : name \in {"SET", "APPEND"}, k \in MCKey, v \in MCElem}
  \cup {Sent(<< <<name>>, k, Word(n) >>) : name \in {"LPOP", "RPOP"}, k \in MCKey, n \in MCCounts \ {-1}}
  \cup {Sent(<< <<name>>, k >>) : name \in {"LPOP", "RPOP", "GET", "LLEN", "SCARD", "del"}, k \in MCKey}
  \cup {Sent(<< <<"LSET">>, k, Word(i), v >>) : k \in MCKey, i \in MCIndices, v \in MCElem}
  \cup {Sent(<< <<"Linsert">>, k, <<where>>, p, v >>) :
          k \in MCKey, where \in {"before", "AFTER"}, p \in MCElem, v \in MCElem}
  \cup {Sent(<< <<"SMOVE">>, s, d, v >>) : s \in MCKey, d \in MCKey, v \in MCElem}
  \cup {Sent(<< <<name>>, k, j >>) : name \in {"SUNION", "SINTER", "SDIFF"}, k \in MCKey, j \in MCKey}
  \cup { <<"DBSIZE">>, <<Semicolon, Space>>, <<"FLUSHDB">> }
  \cup { <<"LPUSH", Space, k1, Space, Quote, v>> : v \in {v1, v2, v3} }
  \cup { <<"SADD", Space, k1, Space, w, Quote, v, Quote, w, Semicolon, "LPOP", Space, k1, Space, v,
           Semicolon, Semicolon, "SMOVE", Space, k1, Space, k2, Space, v, Space>> :
            v \in {v1, v2, v3}, w \in {v1, v2, v3} }

MCTexts == { <<>>, <<k1, Space, Semicolon>>, <<"count">>, <<"-1">>, <<k2>> }

MCSymbols == {"w", Space, Semicolon, Quote}

Symmetry == Permutations({v1, v2, v3})
=============================================================================

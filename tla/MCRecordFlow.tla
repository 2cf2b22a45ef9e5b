---------------------------- MODULE MCRecordFlow ----------------------------
EXTENDS RecordFlow

Text(s) == [k |-> "text", s |-> s, n |-> 0]
Other(k, n) == [k |-> k, s |-> <<>>, n |-> n]
Null == Other("null", 0)
Field(type, nullable, scale, over) ==
    [name |-> "c", type |-> type, nullable |-> nullable, scale |-> scale, onOverflow |-> over]

\* every short text over the characters the parsers tell apart, and the texts
\* around the limits of the integers, the coder and the literals
Short == UNION {[1 .. n -> {"1", "6", "-", ".", " "}] : n \in 0 .. 3}
Limits == {<<"2", "0", "4", "7">>, <<"2", "0", "4", "8">>, <<"-", "2", "0", "4", "8">>,
           <<"-", "2", "0", "4", "9">>, <<"4", "0", "9", "6">>, <<"4", "1", "0", "0">>,
           <<"+", "5">>, <<"1", ".", "1", "6", "6">>, <<"9", ".", "9", "9">>,
           <<"4", ".", "1", "6">>, <<"1", "0", "2", "4">>, <<"1", "0", "2", "5">>,
           <<"1", "1", "1", "1", "1", "1", "1">>, <<"T0h">>, <<"t">>, Spelling(TRUE)}
Texts == {Text(s) : s \in Short \cup Limits}
Numbers == {Other("number", n) : n \in {0, 1, 100, -150, 166, 99900, 100000,
                                            -204800, 204800, -409700}}
Cells(src) ==
    CASE src = "csv"             -> Texts \cup {Null}
      [] src \in {"jsonl", "api"} -> Texts \cup Numbers \cup {Null, Other("bool", 1)}
      [] OTHER -> Texts \cup Numbers \cup {Null, Other("bool", 0), Other("time", 1)}

Fields ==
    {Field(t, n, 0, "round") : t \in {"int64", "float64", "bool", "timestamp", "string",
                                      "bytes"}, n \in BOOLEAN}
    \cup {Field("decimal", n, sc, o) : n \in BOOLEAN, sc \in 0 .. 1, o \in {"round", "fail"}}

\* one cell of every kind through every source, the short texts only through
\* the fields that parse numbers
Singles ==
    UNION {{[schema |-> <<f>>, input |-> <<[src |-> src, cells |-> <<c>>]>>] :
              f \in {g \in Fields : c.k = "text" /\ Len(c.s) > 1 /\ c.s \in Short =>
                        /\ g.type \in NumericTypes /\ ~g.nullable
                        /\ src \in {"csv", "jsonl"}}}
           : <<src, c>> \in UNION {{src} \X Cells(src) :
                                     src \in {"csv", "jsonl", "api", "sql", "mongo"}}}

\* several elements of two origins and two fields, some of them refused
Row(src, a, b) == [src |-> src, cells |-> <<Text(a), Text(b)>>]
TwoFields == <<[Field("int64", TRUE, 0, "round") EXCEPT !.name = "a"],
               [Field("decimal", FALSE, 1, "fail") EXCEPT !.name = "b"]>>
Rows == {Row("csv", <<"1">>, <<"6">>), Row("csv", <<"x">>, <<"1">>),
         Row("jsonl", <<>>, <<"1", ".", "6">>), Row("jsonl", <<"6">>, <<"1", ".", "1", "1">>)}
Many == {[schema |-> TwoFields, input |-> s] : s \in [1 .. 3 -> Rows] \cup {<<>>}}

MCCases == Singles \cup Many
============================================================================

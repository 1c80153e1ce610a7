------------------------------ MODULE MCConfig ------------------------------
(* Instances of Config for TLC.                                            *)
EXTENDS Config

CONSTANTS t1, t2

TwoThreads == {t1, t2}
MCValues == {0, 1, 2}
\* "log", registered as an int at start; "port9", which Lookup rejects; "a.b"
MCNames == {<<"l", "o", "g">>, <<"p", "o", "r", "t", "9">>, <<"a", ".", "b">>}
MCVarName == <<"l", "o", "g">>
MCTypes == {"int", "string"}

Scalar(v) == [kind |-> "scalar", val |-> v, items |-> <<>>]
Map(items) == [kind |-> "map", val |-> 0, items |-> items]
Item(k, n) == [key |-> k, node |-> n]

\* log: 2, a: {b: 1}, and "Log: 1", whose upper-case L ListAllMember rejects
DocSet == Map(<< Item(<<"l", "o", "g">>, Scalar(2)),
                 Item(<<"a">>, Map(<< Item(<<"b">>, Scalar(1)) >>)),
                 Item(<<"L", "o", "g">>, Scalar(1)) >>)
\* log: {x: 1}, which does not convert to an int
DocMap == Map(<< Item(<<"l", "o", "g">>, Map(<< Item(<<"x">>, Scalar(1)) >>)) >>)
MCDocuments == {DocSet, DocMap}
MCLowercase == [c \in {"L"} |-> "l"]
====

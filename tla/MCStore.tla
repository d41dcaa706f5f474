------------------------------- MODULE MCStore -------------------------------
(***************************************************************************)
(* Instances of StoreWriter for TLC: two batches that share a record, one  *)
(* of them with a repeat and a refused record, and one with nothing else.  *)
(***************************************************************************)
EXTENDS StoreWriter, TLC

ThreeBatches == {"first", "second", "refused"}
FourRecords == {"a1", "a2", "b1", "nameless"}
SharedRecord ==
    [b \in Batches |->
        CASE b = "first" -> <<"a1", "b1">>
          [] b = "second" -> <<"a2", "nameless", "a1", "a2">>
          [] b = "refused" -> <<"nameless">>]
TwoSeries == [r \in Records |-> IF r \in {"a1", "a2"} THEN "a" ELSE "b"]
LaterFirst == [r \in Records |-> IF r = "a1" THEN 2 ELSE 1]
-----------------------------------------------------------------------------
(* What identifies a record: JSON values of every type, nested once, with  *)
(* strings whose bytes are those of tags and lengths, and objects in both  *)
(* orders of their keys.                                                   *)
JSON(type, is) == [type |-> type, is |-> is]
Texts == {<<>>, <<0>>, <<5>>, <<0, 1>>}
Numbers == {JSON(t, n) : t \in {"i64", "u64", "f64"}, n \in {0, 1}} \cup {JSON("f64", -1)}
Scalars ==
    {JSON("null", 0), JSON("bool", 0), JSON("bool", 1)} \cup Numbers
    \cup {JSON("str", s) : s \in Texts}
Few == {JSON("null", 0), JSON("i64", 1), JSON("f64", -1), JSON("str", <<5>>)}
Maps(values) ==
    {<<>>} \cup {<<<<k, v>>>> : k \in Texts, v \in values}
    \cup {<<<<k, v>>, <<l, w>>>> : k, l \in {<<0>>, <<0, 1>>}, v, w \in Few}
UniqueKeys(map) == \A i, j \in DOMAIN map : i # j => map[i][1] # map[j][1]
Objects == {JSON("object", o) : o \in {p \in Maps(Few) : UniqueKeys(p)}}
Arrays == {JSON("array", a) : a \in {<<>>} \cup {<<v>> : v \in Scalars}
                                     \cup {<<v, w>> : v, w \in Few}}
Bodies == {<<>>} \cup {<<v>> : v \in Scalars \cup Arrays \cup Objects}
Varied ==
    LET Of(times, kinds, bodies, maps) ==
          [time : times, kind : kinds, body : bodies, attributes : {m \in maps : UniqueKeys(m)}]
    IN Of({1}, {<<5>>, <<5, 0>>}, Bodies, Maps(Few))
       \cup Of({0, 1}, Texts \ {<<>>}, {<<>>, <<JSON("null", 0)>>}, Maps(Scalars \cup Objects))
=============================================================================

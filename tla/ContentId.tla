------------------------------ MODULE ContentId ------------------------------
(***************************************************************************)
(* content_id.rs: what is hashed to identify a measurement and a series.   *)
(* An id is the bytes hashed; that blake3 tells them apart is assumed. The *)
(* bytes of strings, of tags and of lengths are the same small numbers, so *)
(* that only the layout can keep two contents apart.                       *)
(*                                                                         *)
(*   JSON value   [type, is]; an array is a sequence of values, an object  *)
(*                a sequence of <<key, value>>, as the map iterates: each  *)
(*                key once, in any order                                   *)
(*   measurement  [time, kind, body, attributes], body <<>> or <<value>>   *)
(***************************************************************************)
EXTENDS Integers, SequencesExt

CONSTANTS
    WORD,       \* bytes of a number: 8
    Depth,      \* how deep values are nested in one another
    Sent        \* what devices send

Byte == 0..255
\* 256^k
limit[k \in 0..WORD] == IF k = 0 THEN 1 ELSE 256 * limit[k - 1]
Fits == 0..(limit[WORD] - 1)

Bytes == {s \in Seq(Byte) : Len(s) \in Fits}
Map(values) ==
    {m \in Seq(Bytes \X values) :
        Len(m) \in Fits /\ \A i, j \in DOMAIN m : m[i][1] = m[j][1] => i = j}

\* A number is its bits as a number; -1 stands for -0.0, which no other value uses.
Scalar ==
    [type : {"null"}, is : {0}] \cup [type : {"bool"}, is : {0, 1}]
    \cup [type : {"i64", "u64", "f64"}, is : Fits] \cup [type : {"f64"}, is : {-1}]
    \cup [type : {"str"}, is : Bytes]
Nested(values) ==
    [type : {"array"}, is : {a \in Seq(values) : Len(a) \in Fits}]
    \cup [type : {"object"}, is : Map(values)]
Value[n \in 0..Depth] == IF n = 0 THEN Scalar ELSE Scalar \cup Nested(Value[n - 1])

Measurement ==
    [time : Fits, kind : Bytes, body : {<<>>} \cup [{1} -> Value[Depth]],
     attributes : Map(Value[Depth])]

ASSUME ContentAssumption == WORD \in Nat /\ Depth \in Nat /\ Sent \subseteq Measurement

-----------------------------------------------------------------------------
(* The bytes.                                                              *)

TAG == [null |-> 0, bool |-> 1, i64 |-> 2, u64 |-> 3, f64 |-> 4, str |-> 5,
        array |-> 6, object |-> 7]
TAG_BODY_ABSENT == 8
TAG_BODY_PRESENT == 9
DOMAIN_MEASUREMENT == <<1>>
DOMAIN_SERIES == <<2>>

\* to_be_bytes, of the last k bytes
be_bytes[k \in 0..WORD] ==
    [n \in Nat |-> IF k = 0 THEN <<>> ELSE Append(be_bytes[k - 1][n \div 256], n % 256)]
Word(n) == be_bytes[WORD][n]

BytesBefore(a, b) ==
    \E n \in 1..Len(b) :
        /\ \A i \in 1..(n - 1) : i <= Len(a) /\ a[i] = b[i]
        /\ n > Len(a) \/ a[n] < b[n]
\* Mutation of SortedKeys: the map in the order it iterates.
KeysAsTheyCome(map) == map
\* sort_unstable_by: some order in which no key is before one in front of it.
SortedKeys(map) ==
    LET order == CHOOSE p \in Bijection(DOMAIN map, DOMAIN map) :
                    \A i, j \in DOMAIN map : i < j => ~BytesBefore(map[p[j]][1], map[p[i]][1])
    IN [i \in DOMAIN map |-> map[order[i]]]

\* Mutation of put_bytes: the bytes alone.
put_bytes_bare(bytes) == bytes
put_bytes(bytes) == Word(Len(bytes)) \o bytes

\* The sign of a zero is dropped.
put_number(v) == <<TAG[v.type]>> \o Word(IF v.type = "f64" /\ v.is = -1 THEN 0 ELSE v.is)

\* What is inside is put by `put`.
put_map(map, put) ==
    LET keys == SortedKeys(map)
    IN <<TAG.object>> \o Word(Len(map))
       \o FlattenSeq([i \in DOMAIN map |-> put_bytes(keys[i][1]) \o put[keys[i][2]]])
put_node(v, put) ==
    CASE v.type = "null" -> <<TAG.null>>
      [] v.type = "bool" -> <<TAG.bool, v.is>>
      [] v.type \in {"i64", "u64", "f64"} -> put_number(v)
      [] v.type = "str" -> <<TAG.str>> \o put_bytes(v.is)
      [] v.type = "array" ->
            <<TAG.array>> \o Word(Len(v.is)) \o FlattenSeq([i \in DOMAIN v.is |-> put[v.is[i]]])
      [] v.type = "object" -> put_map(v.is, put)
\* The recursion, by how deep it may still go.
put_value[n \in 0..Depth] ==
    [v \in Value[n] |-> put_node(v, IF n = 0 THEN <<>> ELSE put_value[n - 1])]

put_body(body) ==
    IF body = <<>> THEN <<TAG_BODY_ABSENT>> ELSE <<TAG_BODY_PRESENT>> \o put_value[Depth][body[1]]

content_id(m) ==
    DOMAIN_MEASUREMENT \o Word(m.time) \o put_bytes(m.kind) \o put_body(m.body)
    \o put_map(m.attributes, put_value[Depth])
series_id(m) == DOMAIN_SERIES \o put_bytes(m.kind) \o put_map(m.attributes, put_value[Depth])
-----------------------------------------------------------------------------
(* What a device said, whatever the order of the keys and the sign of zero. *)
MeaningOfMap(map, mean) == {<<map[i][1], mean[map[i][2]]>> : i \in DOMAIN map}
Said(v, mean) ==
    CASE v.type = "array" -> [i \in DOMAIN v.is |-> mean[v.is[i]]]
      [] v.type = "object" -> MeaningOfMap(v.is, mean)
      [] v.type = "f64" /\ v.is = -1 -> 0
      [] v.type \notin {"array", "object"} /\ v # [type |-> "f64", is |-> -1] -> v.is
MeaningOfNode(v, mean) == <<v.type, Said(v, mean)>>
Meaning[n \in 0..Depth] ==
    [v \in Value[n] |-> MeaningOfNode(v, IF n = 0 THEN <<>> ELSE Meaning[n - 1])]
SeriesContent(m) == <<m.kind, MeaningOfMap(m.attributes, Meaning[Depth])>>
MeasurementContent(m) ==
    <<m.time, SeriesContent(m), IF m.body = <<>> THEN <<>> ELSE <<Meaning[Depth][m.body[1]]>>>>

\* The ids tell what was sent apart exactly as its contents do.
OneToOne(pairs) == \A p, q \in pairs : p[1] = q[1] <=> p[2] = q[2]
Faithful ==
    /\ OneToOne({<<content_id(m), MeasurementContent(m)>> : m \in Sent})
    /\ OneToOne({<<series_id(m), SeriesContent(m)>> : m \in Sent})
=============================================================================

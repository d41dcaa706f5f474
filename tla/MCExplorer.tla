---------------------------- MODULE MCExplorer ----------------------------
(***************************************************************************)
(* An instance of Explorer for TLC: two series of one type, whose numbers  *)
(* SQLite orders 10 before 2, one of another; late rows, and values whose  *)
(* axis needs scientific labels.                                           *)
(***************************************************************************)
EXTENDS Explorer, TLC

Number(text) == [kind |-> "number", text |-> text]
Text(text) == [kind |-> "text", text |-> text]
Null == [kind |-> "null", text |-> None]

Order == <<"10", "1784995", "1785001", "2", "cafe", "cell", "lobby", "ping">>
Numbers == ("10" :> 10) @@ ("2" :> 2) @@ ("1784995" :> 1784995) @@ ("1785001" :> 1785001)
Widths == [t \in {"10", "2", "1784995", "1785001", "cafe", "lobby", "v"} |-> 5]

Series == [s \in 1..3 |->
  CASE s = 1 -> [type |-> "cell", attrs |-> [no |-> Number("2")]]
    [] s = 2 -> [type |-> "cell", attrs |-> [no |-> Number("10")]]
    [] s = 3 -> [type |-> "ping", attrs |-> [host |-> Text("lobby")]]]

Row(id, time, s, body) == [id |-> id, time |-> time, series |-> s, body |-> body]
FirstRows == {
  Row(1, 5, 1, [v |-> Number("1784995"), ssid |-> Text("cafe")]),
  Row(2, 7, 2, [v |-> Number("1785001"), ssid |-> Text("lobby")]),
  Row(3, 8, 3, [v |-> Null])}
LaterRows == {
  Row(4, 7, 1, [v |-> Number("1784995"), ssid |-> Text("cafe")]),
  Row(5, 9, 1, [v |-> Null, ssid |-> Text("lobby")])}

Presets == ("4" :> 4) @@ ("8" :> 8) @@ ("all" :> 0)
Ladder == <<1, 2, 4>>

Cells == [FrontPage EXCEPT !.kind = "cell", !.t0 = "cell"]
CellsCharted == [Cells EXCEPT !.range = "8", !.fields = {"v"}, !.group = Attribute("no")]
Entrances == {FrontPage, Cells, CellsCharted}

Ask(kinds, attrs, to, limit) ==
  [types |-> kinds, from |-> None, to |-> to, attrs |-> attrs, limit |-> limit, cursor |-> None]
Questions == {
  Ask({}, {}, None, 0), Ask({"cell"}, {}, None, 2), Ask({"cell", "ping"}, {}, 9, 9),
  Ask({}, {<<"no", "2">>}, None, 1)}
=============================================================================

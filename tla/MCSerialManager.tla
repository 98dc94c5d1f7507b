-------------------------- MODULE MCSerialManager --------------------------
(***************************************************************************)
(* SerialManager for TLC: session o1 boots its device twice; the second    *)
(* boot has a new identity and other line settings. Both reach port p1.    *)
(***************************************************************************)
EXTENDS SerialManager

CONSTANT p1

Request(o, g, m, id, par) ==
  [owner |-> o, generation |-> g, mac |-> m, serial_id |-> id, parameters |-> par]

OneBoot == {Request("o1", 1, "m1", "id1", "115200")}
TwoBoots == OneBoot \cup {Request("o1", 2, "m1", "id2", "9600")}

OnePort == {p1}
OneWire == [p \in OnePort |-> {"id1", "id2"}]
=============================================================================

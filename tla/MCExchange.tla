---------------------------- MODULE MCExchange ----------------------------
(* Values of the constants of Exchange for TLC.                            *)
EXTENDS Exchange

Post(type, encoding, size, unzips, inflated, decodes) ==
  [type |-> type, encoding |-> encoding, wire |-> size, unzips |-> unzips,
   inflated |-> inflated, decodes |-> decodes, marks |-> 1]
\* Bodies that fit with what the correction adds, and one for each refusal.
Within ==
  [plain |-> Post(PROTOBUF, Identity, 3, FALSE, 0, TRUE),
   zipped |-> Post(PROTOBUF, GZIP, 1, TRUE, 2, TRUE),
   json |-> Post("application/json", Identity, 1, FALSE, 0, TRUE),
   zstd |-> Post(PROTOBUF, "zstd", 1, FALSE, 0, TRUE),
   huge |-> Post(PROTOBUF, Identity, 5, FALSE, 0, TRUE),
   bomb |-> Post(PROTOBUF, GZIP, 1, TRUE, 9, TRUE),
   nozip |-> Post(PROTOBUF, GZIP, 1, FALSE, 0, TRUE),
   garbage |-> Post(PROTOBUF, Identity, 1, FALSE, 0, FALSE)]
\* A body that is small on the wire only because it is compressed.
Compressed == [zipped |-> Post(PROTOBUF, GZIP, 1, TRUE, 6, TRUE)]
TheToken == [id |-> "first", secret |-> "a"]
OneToken == {TheToken}
PostNames == DOMAIN Within
OnlyCompressed == DOMAIN Compressed
=============================================================================

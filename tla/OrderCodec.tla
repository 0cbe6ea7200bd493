---------------------------- MODULE OrderCodec ----------------------------
(***************************************************************************)
(* How an order becomes a 33-byte record and an engine call:               *)
(* DataProcessor of src/src/data_processing/processor.py and process_one   *)
(* of src/src/ipc/consumer.py.  A record is the tuple of its five fields,  *)
(* three of them unsigned words.  A call that raises gives no result: what *)
(* a function returns is a set of at most one value.                       *)
(***************************************************************************)
EXTENDS Integers

CONSTANTS
    WordLimit,       \* 2^64
    NaN, Infinity    \* two of the prices a float can hold

ASSUME OrderCodecAssumption ==
    WordLimit \in Nat /\ {NaN, Infinity} \subseteq Int /\ NaN # Infinity

BUY  == 0
SELL == 1

Word == 0 .. WordLimit - 1

\* str.upper, of the spellings that occur.
Upper(side) == CASE side = "buy" -> "BUY" [] side = "sell" -> "SELL" [] OTHER -> side

\* Every comparison with NaN is false, so NaN is not refused, nor is infinity.
create_order(in) ==
    IF /\ Upper(in.side) \in {"BUY", "SELL"}
       /\ in.order_id >= 0
       /\ in.price = NaN \/ in.price > 0
       /\ in.quantity > 0
    THEN {[in EXCEPT !.side = Upper(@)]}
    ELSE {}

\* struct.pack raises when a word is out of range.
pack_order(o) ==
    IF {o.order_id, o.quantity, o.timestamp_ns} \subseteq Word
    THEN {<<o.order_id, IF o.side = "BUY" THEN BUY ELSE SELL, o.price, o.quantity, o.timestamp_ns>>}
    ELSE {}

process_order(in) == UNION {pack_order(o) : o \in create_order(in)}

unpack_orderSwapsWords(record) ==   \* mutant: quantity and timestamp in the other order
    [order_id |-> record[1], side |-> IF record[2] = BUY THEN "BUY" ELSE "SELL",
     price |-> record[3], quantity |-> record[5], timestamp_ns |-> record[4]]

unpack_order(record) ==
    [order_id |-> record[1], side |-> IF record[2] = BUY THEN "BUY" ELSE "SELL",
     price |-> record[3], quantity |-> record[4], timestamp_ns |-> record[5]]

\* The arguments process_one gives to add_order, and whether add_order takes them.
EngineCall(record) ==
    LET o == unpack_order(record)
    IN  [o EXCEPT !.side = IF o.side = "BUY" THEN BUY ELSE SELL]

EngineAccepts(call) ==
    /\ call.side \in {BUY, SELL}
    /\ call.price \notin {NaN, Infinity} /\ call.price > 0
    /\ call.quantity > 0
============================================================================

--------------------------- MODULE OrderPipeline ---------------------------
(***************************************************************************)
(* Orders through the file-locked ring: DataProcessor packs them, the ring *)
(* carries the records between two processes, RingBufferConsumer unpacks   *)
(* them and calls the engine.  LockedRing with records that mean orders.   *)
(***************************************************************************)
EXTENDS LockedRing, OrderCodec

CONSTANT OrderInputs    \* what callers give to process_order, good and bad

\* The records that reach the ring, and those of them the engine refuses.
PackedRecords  == UNION {process_order(in) : in \in OrderInputs}
RefusedRecords == {r \in PackedRecords : ~ EngineAccepts(EngineCall(r))}

\* The ring carries packed orders, and the engine refuses what add_order refuses.
ASSUME OrderPipelineAssumption ==
    /\ OrderInputs \subseteq [order_id: Int, side: STRING, price: Int,
                              quantity: Int, timestamp_ns: Int]
    /\ Records \subseteq PackedRecords
    /\ Invalid = Records \cap RefusedRecords

\* What is packed is unpacked as the order that was created, the side and every
\* word included, and the engine refuses only what is not a finite price:
\* create_order has refused the rest.
CodecIsExact ==
    \A in \in OrderInputs : \A o \in create_order(in) : \A r \in pack_order(o) :
        /\ unpack_order(r) = o
        /\ ~ EngineAccepts(EngineCall(r)) => o.price \in {NaN, Infinity}

\* The engine sees the orders that were created, each at most once, although the
\* two processes may be killed anywhere: only a kill of the consumer, or a price
\* that is not finite, keeps a record that left the ring from the engine, and
\* processed_count of a consumer that was never killed is its engine's orders.
EngineSeesTheOrders ==
    /\ CodecIsExact
    /\ TakenIsSubmitted
    /\ \A k \in 1 .. Len(submitted) :
        EngineCall(submitted[k]) \in [order_id: Word, side: {BUY, SELL}, price: Nat \ {0},
                                      quantity: Word \ {0}, timestamp_ns: Word]
============================================================================

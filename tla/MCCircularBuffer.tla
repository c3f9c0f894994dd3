------------------------- MODULE MCCircularBuffer --------------------------
(* Instances of CircularBuffer for TLC. *)
EXTENDS CircularBuffer

CONSTANTS v1, v2

MCValues == {v1, v2}

(* All members where loads stay in order, the acquiring ones elsewhere. *)
CallsThatAreSafe == [ordered \in BOOLEAN |-> IF ordered THEN AllConsumerCalls ELSE AcquiringCalls]

PeekPopCalls == [ordered \in BOOLEAN |-> {"pop_n", "peek"}]
============================================================================

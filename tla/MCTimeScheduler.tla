-------------------------- MODULE MCTimeScheduler --------------------------
(* Instances of TimeScheduler for TLC: a day of 12 "seconds". *)
EXTENDS TimeScheduler

MCEvents == 0 .. SECONDS_PER_DAY - 1
============================================================================

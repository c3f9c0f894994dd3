------------------------------- MODULE MCUio -------------------------------
(* Instances of Uio for TLC. *)
EXTENDS Uio

Property(key, vendor, bytes, opens) ==
  [key |-> key, vendor |-> vendor, bytes |-> bytes, opens |-> opens]

Properties == {Property(key, TRUE, 4, FALSE) : key \in RequiredKeys}

(* The capture core in memory that is coherent or not; one whose node      *)
(* lacks the width of a sample; and a device with another driver, and one  *)
(* without maps.                                                           *)
Coherent == [name |-> "axi", addr |-> 1, unit |-> 1, maps |-> 2, config |-> Properties]

Cached == [name |-> "axi", addr |-> 2, unit |-> 2, maps |-> 2,
           config |-> Properties \cup {Property("sync-name", TRUE, 8, TRUE)}]

Short == [name |-> "axi", addr |-> 1, unit |-> 1, maps |-> 2,
          config |-> {Property("channels", TRUE, 4, FALSE), Property("cdata-width", TRUE, 4, FALSE),
                      Property("cdata-width", FALSE, 2, FALSE), Property("sync-name", TRUE, 8, FALSE)}]

Other == [name |-> "gpio", addr |-> 3, unit |-> NoUnit, maps |-> 1, config |-> {}]

Bare == [name |-> "irq", addr |-> 4, unit |-> 4, maps |-> 0, config |-> {}]

MCDevices == {Coherent, Cached, Short, Other, Bare}
=============================================================================

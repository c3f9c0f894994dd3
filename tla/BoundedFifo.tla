---------------------------- MODULE BoundedFifo ----------------------------
(***************************************************************************)
(* What smart/CircularBuffer.h promises: a first-in first-out queue of at  *)
(* most Capacity elements, shared by one producer and one consumer.        *)
(*                                                                         *)
(* Every operation is one step here.  The reply to the producer is         *)
(* verdict, the reply to the consumer is answer: which kind of call was    *)
(* answered and the elements it handed out.                                *)
(***************************************************************************)
EXTENDS Naturals, Sequences

CONSTANTS
  Values,     \* the elements that can be stored
  Capacity    \* how many of them fit

VARIABLES
  queue,      \* the stored elements, the oldest first
  verdict,    \* reply to the producer's last call
  answer      \* reply to the consumer's last call

vars == <<queue, verdict, answer>>

Front(n) == SubSeq(queue, 1, n)
Rest(n)  == SubSeq(queue, n + 1, Len(queue))

Init ==
  /\ queue = <<>>
  /\ verdict = [reply |-> "none", items |-> <<>>]
  /\ answer = [call |-> "none", items |-> <<>>]

(* The producer calls push, for one element or for a range. *)
Ask(items) ==
  /\ verdict' = [reply |-> "pending", items |-> items]
  /\ UNCHANGED <<queue, answer>>

(* All of the elements go in, at one instant ... *)
Accept ==
  /\ verdict.reply = "pending"
  /\ Len(queue) + Len(verdict.items) <= Capacity
  /\ queue' = queue \o verdict.items
  /\ verdict' = [reply |-> "accepted", items |-> <<>>]
  /\ UNCHANGED answer

(* ... or none, and only when they do not fit. *)
Refuse(n) ==
  /\ Len(queue) + n > Capacity
  /\ verdict' = [reply |-> "refused", items |-> <<>>]
  /\ UNCHANGED <<queue, answer>>

(* pop and pop_n: the n oldest elements leave and are handed out. *)
Take(n) ==
  /\ answer' = [call |-> "pop", items |-> Front(n)]
  /\ queue' = Rest(n)
  /\ UNCHANGED verdict

(* peek and peek_at: the n oldest elements are handed out and stay. *)
Look(n) ==
  /\ answer' = [call |-> "peek", items |-> Front(n)]
  /\ UNCHANGED <<queue, verdict>>

(* clear and the pops that copy nothing: the n oldest elements leave. *)
Drop(n) ==
  /\ answer' = [call |-> "drop", items |-> <<>>]
  /\ queue' = Rest(n)
  /\ UNCHANGED verdict

(* The checked pop finds nothing. *)
Nothing ==
  /\ queue = <<>>
  /\ answer' = [call |-> "empty", items |-> <<>>]
  /\ UNCHANGED <<queue, verdict>>

Next ==
  \/ \E n \in 0 .. Capacity : \E items \in [1 .. n -> Values] : Ask(items)
  \/ Accept
  \/ \E n \in 1 .. Capacity + 1 : Refuse(n)
  \/ \E n \in 0 .. Len(queue) : Take(n) \/ Look(n) \/ Drop(n)
  \/ Nothing

Spec == Init /\ [][Next]_vars

(* With a consumer that keeps asking, something leaves a queue that is not *)
(* empty.                                                                  *)
Leave == \E n \in 1 .. Len(queue) : Take(n) \/ Drop(n)

FairSpec == Spec /\ WF_vars(Leave)

============================================================================

-------------------------- MODULE CircularBuffer ---------------------------
(***************************************************************************)
(* smart/CircularBuffer.h: the lock-free ring shared by one producer and   *)
(* one consumer thread.                                                    *)
(*                                                                         *)
(* A call of the class is a sequence of steps: the atomic loads with the   *)
(* decision they lead to, one step for every element copied, and the       *)
(* atomic store of the index.  Steps of the two threads interleave.        *)
(*                                                                         *)
(* The indices are atomics; the slots are plain memory.  What the consumer *)
(* can read from a slot is the set seen[i]: a write of the producer joins  *)
(* the set, and the older values leave it when the consumer loads          *)
(* push_index_ with acquire order (Acquire) or reads the newest one.  A    *)
(* relaxed load orders nothing (Relaxed), unless the processor orders      *)
(* loads by itself (loads_ordered: x86 does, the ARM cores of the Zynq     *)
(* boards this library is made for do not).                                *)
(***************************************************************************)
EXTENDS Integers, Sequences

CONSTANTS
  BufferSize,    \* buffer_.size(); one slot always stays free
  Values,        \* elements
  Zero,          \* the value-initialised E a slot starts with
  ConsumerCalls  \* the members the consumer thread uses, on either processor

ASSUME BufferSizeAssumption == BufferSize \in Nat \ {0}

AllConsumerCalls ==
  {"pop", "pop_n", "peek", "discard", "clear", "size", "empty",
   "unchecked_pop", "unchecked_skip", "peek_at"}

(* Members that load push_index_ with acquire order, or read no slot. *)
AcquiringCalls ==
  {"pop", "clear", "discard", "empty", "unchecked_pop", "unchecked_skip", "peek_at"}

VARIABLES
  loads_ordered, \* the processor does not reorder loads
  buffer_,       \* newest value of every slot
  seen,          \* values the consumer may read from every slot
  push_index_,
  pop_index_,
  p_pc,          \* producer: "idle" or "copy"
  p_index,       \* producer: local push_index
  p_todo,        \* producer: elements still to be copied in
  c_pc,          \* consumer: "idle", "copy" or "store"
  c_call,        \* consumer: reply the call in progress will give
  c_index,       \* consumer: local pop_index
  c_todo,        \* consumer: elements still to be copied out
  c_out,         \* consumer: elements copied out so far
  c_known,       \* consumer: elements it knows to be there, from size()/empty()
  verdict,       \* producer: its call in progress, or the reply to the last one
  answer         \* reply to the consumer's last call

memory   == <<buffer_, seen>>
producer == <<p_pc, p_index, p_todo, verdict>>
consumer == <<c_pc, c_call, c_index, c_todo, c_out, c_known, answer>>
vars     == <<loads_ordered, memory, push_index_, pop_index_, producer, consumer>>

Slots == 0 .. BufferSize - 1

Least(a, b) == IF a <= b THEN a ELSE b

(* inc_pop_index, and every other step of an index. *)
Advance(index, n) == (index + n) % BufferSize

(* size(): elements from index a up to index b. *)
Distance(a, b) == (b + BufferSize - a) % BufferSize

size == Distance(pop_index_, push_index_)

(* Faulty: the free slot counted as available. *)
AvailableWithFreeSlot == (BufferSize + pop_index_ - push_index_) % BufferSize

available == (BufferSize - 1 + pop_index_ - push_index_) % BufferSize

capacity == BufferSize - 1

(* The elements between the two indices, oldest first. *)
Contents == [k \in 1 .. size |-> buffer_[Advance(pop_index_, k - 1)]]

(* Slots that hold such an element. *)
Live == {Advance(pop_index_, k) : k \in 0 .. size - 1}

(* Slots written by the call in progress and not published yet. *)
Unpublished == {i \in Slots : Distance(push_index_, i) < Distance(push_index_, p_index)}

(***************************************************************************)
(* Memory order of the consumer's load of push_index_.                     *)
(***************************************************************************)
Acquire ==
  seen' = [i \in Slots |-> IF i \in Unpublished THEN seen[i] ELSE {buffer_[i]}]

Relaxed == IF loads_ordered THEN Acquire ELSE UNCHANGED seen

Init ==
  /\ loads_ordered \in BOOLEAN
  /\ buffer_ = [i \in Slots |-> Zero]
  /\ seen = [i \in Slots |-> {Zero}]
  /\ push_index_ = 0
  /\ pop_index_ = 0
  /\ p_pc = "idle"
  /\ p_index = 0
  /\ p_todo = <<>>
  /\ c_pc = "idle"
  /\ c_call = "none"
  /\ c_index = 0
  /\ c_todo = 0
  /\ c_out = <<>>
  /\ c_known = 0
  /\ verdict = [reply |-> "none", items |-> <<>>]
  /\ answer = [call |-> "none", items |-> <<>>]

-----------------------------------------------------------------------------
(* Producer thread. *)

(* The loads fail the call, or start the copy. *)
StartPush(items) ==
  /\ p_pc' = "copy"
  /\ p_index' = push_index_
  /\ p_todo' = items
  /\ verdict' = [reply |-> "pending", items |-> items]

RefusePush ==
  /\ verdict' = [reply |-> "refused", items |-> <<>>]
  /\ UNCHANGED <<p_pc, p_index, p_todo>>

PushFull == Advance(push_index_, 1) = pop_index_

(* Faulty: no check for a full buffer. *)
PushLoadUnchecked(e) ==
  /\ p_pc = "idle"
  /\ StartPush(<<e>>)
  /\ UNCHANGED <<memory, push_index_, pop_index_, consumer>>

(* push(e) up to its branch. *)
PushLoad(e) ==
  /\ p_pc = "idle"
  /\ IF PushFull THEN RefusePush ELSE StartPush(<<e>>)
  /\ UNCHANGED <<memory, push_index_, pop_index_, consumer>>

(* push(first, last) up to its branch. *)
PushRangeLoad(items) ==
  /\ p_pc = "idle"
  /\ IF available >= Len(items) THEN StartPush(items) ELSE RefusePush
  /\ UNCHANGED <<memory, push_index_, pop_index_, consumer>>

(* One element is copied into its slot. *)
CopyIn ==
  /\ p_pc = "copy"
  /\ p_todo # <<>>
  /\ buffer_' = [buffer_ EXCEPT ![p_index] = Head(p_todo)]
  /\ seen' = [seen EXCEPT ![p_index] = @ \cup {Head(p_todo)}]
  /\ p_index' = Advance(p_index, 1)
  /\ p_todo' = Tail(p_todo)
  /\ UNCHANGED <<push_index_, pop_index_, p_pc, verdict, consumer>>

(* The release store of push_index_. *)
PublishPush ==
  /\ p_pc = "copy"
  /\ p_todo = <<>>
  /\ push_index_' = p_index
  /\ p_pc' = "idle"
  /\ verdict' = [reply |-> "accepted", items |-> <<>>]
  /\ UNCHANGED <<memory, pop_index_, p_index, p_todo, consumer>>

-----------------------------------------------------------------------------
(* Consumer thread. *)

Calls(name) ==
  /\ c_pc = "idle"
  /\ name \in ConsumerCalls[loads_ordered]
  /\ UNCHANGED <<buffer_, push_index_, producer>>

StartCopy(call, n) ==
  /\ c_pc' = "copy"
  /\ c_call' = call
  /\ c_index' = pop_index_
  /\ c_todo' = n
  /\ c_out' = <<>>
  /\ UNCHANGED <<pop_index_, c_known, answer>>

StartStore(index) ==
  /\ c_pc' = "store"
  /\ c_call' = "drop"
  /\ c_index' = index
  /\ UNCHANGED <<pop_index_, c_todo, c_out, c_known, answer>>

(* Faulty: the load of push_index_ is relaxed. *)
PopLoadRelaxed ==
  /\ Calls("pop")
  /\ Relaxed
  /\ IF pop_index_ = push_index_
     THEN /\ answer' = [call |-> "empty", items |-> <<>>]
          /\ UNCHANGED <<pop_index_, c_pc, c_call, c_index, c_todo, c_out, c_known>>
     ELSE StartCopy("pop", 1)

(* Faulty: a buffer with one element is taken for empty. *)
PopLoadLeavesLast ==
  /\ Calls("pop")
  /\ Acquire
  /\ IF size <= 1
     THEN /\ answer' = [call |-> "none", items |-> <<>>]
          /\ UNCHANGED <<pop_index_, c_pc, c_call, c_index, c_todo, c_out, c_known>>
     ELSE StartCopy("pop", 1)

(* pop(E&) up to its branch. *)
PopLoad ==
  /\ Calls("pop")
  /\ Acquire
  /\ IF pop_index_ = push_index_
     THEN /\ answer' = [call |-> "empty", items |-> <<>>]
          /\ UNCHANGED <<pop_index_, c_pc, c_call, c_index, c_todo, c_out, c_known>>
     ELSE StartCopy("pop", 1)

(* Faulty: n_max is not limited to the current size. *)
PopNLoadUnlimited(n_max) ==
  /\ Calls("pop_n")
  /\ Relaxed
  /\ StartCopy("pop", n_max)

(* pop_n(buffer, n_max) and peek(buffer, n_max): peek_pop up to its loop. *)
PopNLoad(n_max) ==
  /\ Calls("pop_n")
  /\ Relaxed
  /\ StartCopy("pop", Least(n_max, size))

PeekLoad(n_max) ==
  /\ Calls("peek")
  /\ Relaxed
  /\ StartCopy("peek", Least(n_max, size))

(* pop_n(nullptr, n_max): the loop of peek_pop only moves the index. *)
DiscardLoad(n_max) ==
  /\ Calls("discard")
  /\ Relaxed
  /\ StartStore(Advance(pop_index_, Least(n_max, size)))

(* clear() up to its store. *)
ClearLoad ==
  /\ Calls("clear")
  /\ Relaxed
  /\ StartStore(push_index_)

(* size() and empty(), whose result the consumer remembers. *)
SizeQuery ==
  /\ Calls("size")
  /\ Relaxed
  /\ c_known' = size
  /\ UNCHANGED <<pop_index_, c_pc, c_call, c_index, c_todo, c_out, answer>>

(* Faulty: the comparison of the indices is inverted. *)
EmptyQueryInverted ==
  /\ Calls("empty")
  /\ Acquire
  /\ c_known' = IF push_index_ = pop_index_ THEN 1 ELSE 0
  /\ UNCHANGED <<pop_index_, c_pc, c_call, c_index, c_todo, c_out, answer>>

EmptyQuery ==
  /\ Calls("empty")
  /\ Acquire
  /\ c_known' = IF push_index_ = pop_index_ THEN 0 ELSE 1
  /\ UNCHANGED <<pop_index_, c_pc, c_call, c_index, c_todo, c_out, answer>>

(* The members that do not check: pop(), pop_n(n) and peek_at(dst,         *)
(* get_pop_index(), n), called for elements known to be there.             *)
UncheckedPop ==
  /\ Calls("unchecked_pop")
  /\ c_known >= 1
  /\ UNCHANGED seen
  /\ StartCopy("pop", 1)

UncheckedSkip(n) ==
  /\ Calls("unchecked_skip")
  /\ n <= c_known
  /\ UNCHANGED seen
  /\ StartStore(Advance(pop_index_, n))

PeekAt(n) ==
  /\ Calls("peek_at")
  /\ n <= c_known
  /\ UNCHANGED seen
  /\ StartCopy("peek", n)

(* One element is copied out of its slot: any value the slot may still     *)
(* show to the consumer.  Having read the newest, it sees no older one.    *)
CopyOut ==
  /\ c_pc = "copy"
  /\ c_todo > 0
  /\ \E v \in seen[c_index] :
       /\ c_out' = Append(c_out, v)
       /\ seen' = [seen EXCEPT ![c_index] = IF v = buffer_[c_index] THEN {v} ELSE @]
  /\ c_todo' = c_todo - 1
  /\ c_index' = Advance(c_index, 1)
  /\ UNCHANGED <<buffer_, push_index_, pop_index_, producer, c_pc, c_call, c_known, answer>>

(* The release store of pop_index_, or the return of a peek. *)
Remembered == LET gone == Distance(pop_index_, c_index)
              IN  IF c_known >= gone THEN c_known - gone ELSE 0

(* Locals of a call that has returned. *)
ForgetLocals ==
  /\ c_pc' = "idle"
  /\ c_call' = "none"
  /\ c_index' = 0
  /\ c_todo' = 0
  /\ c_out' = <<>>

FinishCopy ==
  /\ c_pc = "copy"
  /\ c_todo = 0
  /\ answer' = [call |-> c_call, items |-> c_out]
  /\ IF c_call = "pop"
     THEN pop_index_' = c_index /\ c_known' = Remembered
     ELSE UNCHANGED <<pop_index_, c_known>>
  /\ ForgetLocals
  /\ UNCHANGED <<memory, push_index_, producer>>

StorePop ==
  /\ c_pc = "store"
  /\ pop_index_' = c_index
  /\ c_known' = Remembered
  /\ answer' = [call |-> "drop", items |-> <<>>]
  /\ ForgetLocals
  /\ UNCHANGED <<memory, push_index_, producer>>

-----------------------------------------------------------------------------
Ranges == UNION {[1 .. n -> Values] : n \in 0 .. BufferSize}

Push ==
  \/ \E e \in Values : PushLoad(e)
  \/ \E items \in Ranges : PushRangeLoad(items)

ProducerStep == CopyIn \/ PublishPush

Query == SizeQuery \/ EmptyQuery

Consume ==
  \/ PopLoad
  \/ \E n \in 0 .. BufferSize : PopNLoad(n) \/ PeekLoad(n) \/ DiscardLoad(n)
  \/ ClearLoad
  \/ UncheckedPop
  \/ \E n \in 0 .. BufferSize : UncheckedSkip(n) \/ PeekAt(n)

ConsumerStep == CopyOut \/ FinishCopy \/ StorePop

(* The processor stays the same. *)
SameProcessor == UNCHANGED loads_ordered

Next ==
  /\ SameProcessor
  /\ Push \/ ProducerStep \/ Query \/ Consume \/ ConsumerStep

Spec == Init /\ [][Next]_vars

(* The threads are scheduled, and the consumer calls pop(E&) again and     *)
(* again, whatever else it calls in between.                               *)
FairSpec ==
  /\ Spec
  /\ WF_vars(SameProcessor /\ ProducerStep)
  /\ WF_vars(SameProcessor /\ ConsumerStep)
  /\ SF_vars(SameProcessor /\ PopLoad)

-----------------------------------------------------------------------------
Verdicts == [reply : {"none", "pending", "accepted", "refused"}, items : Seq(Values)]

Answers == [call : {"none", "pop", "peek", "drop", "empty"}, items : Seq(Values \cup {Zero})]

(* Every variable has its type; in particular an index is always a slot.   *)
TypeOK ==
  /\ loads_ordered \in BOOLEAN
  /\ buffer_ \in [Slots -> Values \cup {Zero}]
  /\ seen \in [Slots -> SUBSET (Values \cup {Zero})]
  /\ push_index_ \in Slots
  /\ pop_index_ \in Slots
  /\ p_pc \in {"idle", "copy"}
  /\ p_index \in Slots
  /\ p_todo \in Seq(Values)
  /\ c_pc \in {"idle", "copy", "store"}
  /\ c_call \in {"none", "pop", "peek", "drop"}
  /\ c_index \in Slots
  /\ c_todo \in 0 .. BufferSize
  /\ c_out \in Seq(Values \cup {Zero})
  /\ c_known \in 0 .. BufferSize
  /\ verdict \in Verdicts
  /\ answer \in Answers

(* A push in progress has room: the elements it wrote and those it still   *)
(* has to write fit beside the stored ones, whatever the consumer does     *)
(* after the load the decision was made on.                                *)
PushHasRoom ==
  IF p_pc = "copy"
  THEN Distance(push_index_, p_index) + Len(p_todo) + size <= capacity
  ELSE p_index = push_index_

(* A pop or peek in progress stays within the stored elements: the size it *)
(* loaded may be old by now, but never too large.                          *)
CallWithinSize ==
  /\ c_pc = "copy"  => Distance(pop_index_, c_index) + c_todo <= size
  /\ c_pc = "store" => Distance(pop_index_, c_index) <= size

(* What size() and empty() told the consumer still holds when it acts on   *)
(* it with a member that does not check.                                   *)
KnownIsThere == c_known <= size

(* The two threads never use a slot at the same time: the slot about to be *)
(* written holds no stored element and is not the one being read.          *)
NoSharedSlot ==
  (p_pc = "copy" /\ p_todo # <<>>) =>
    /\ p_index \notin Live
    /\ (c_pc = "copy" /\ c_todo > 0) => c_index # p_index

(* The consumer copies out what the producer stored, in its order: no      *)
(* stale slot, no skipped element, none twice.                             *)
CopiesTheQueue ==
  c_pc = "copy" => c_out = SubSeq(Contents, 1, Len(c_out))

(* The ring is a bounded first-in first-out queue: every step of the code  *)
(* is a step of the abstract queue, or changes nothing a caller can see;   *)
(* and what is pushed comes out when the consumer keeps popping.           *)
Fifo == INSTANCE BoundedFifo WITH queue <- Contents, Capacity <- capacity

ImplementsFairFifo == Fifo!FairSpec

============================================================================

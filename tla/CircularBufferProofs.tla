----------------------- MODULE CircularBufferProofs ------------------------
(***************************************************************************)
(* Theorems about CircularBuffer, for every buffer size, every set of      *)
(* values, both kinds of processor and every choice of consumer calls; the *)
(* last two, about the elements themselves, for consumers that acquire.    *)
(***************************************************************************)
EXTENDS CircularBuffer, SequenceTheorems, TLAPS

(* A sum that overruns the end at most once is reduced by one turn.        *)
LEMMA ReduceOnce ==
  ASSUME NEW x \in 0 .. 2 * BufferSize - 1
  PROVE  x % BufferSize = IF x < BufferSize THEN x ELSE x - BufferSize
<1>1. CASE x < BufferSize
  BY <1>1, BufferSizeAssumption
<1>2. CASE x >= BufferSize
  BY <1>2, BufferSizeAssumption
<1>3. QED
  BY <1>1, <1>2, BufferSizeAssumption

(* inc_pop_index stays in the buffer and wraps at its end.                 *)
LEMMA AdvanceWraps ==
  ASSUME NEW i \in Slots, NEW n \in 0 .. BufferSize
  PROVE  /\ Advance(i, n) \in Slots
         /\ Advance(i, n) = IF i + n < BufferSize THEN i + n ELSE i + n - BufferSize
<1>1. i + n \in 0 .. 2 * BufferSize - 1
  BY BufferSizeAssumption DEF Slots
<1>2. QED
  BY <1>1, ReduceOnce, BufferSizeAssumption DEF Advance, Slots

(* size() counts forward from one index to the other.                      *)
LEMMA DistanceCounts ==
  ASSUME NEW a \in Slots, NEW b \in Slots
  PROVE  /\ Distance(a, b) \in Slots
         /\ Distance(a, b) \in 0 .. BufferSize - 1
         /\ Distance(a, b) = IF a <= b THEN b - a ELSE b + BufferSize - a
<1>1. b + BufferSize - a \in 0 .. 2 * BufferSize - 1
  BY BufferSizeAssumption DEF Slots
<1>2. QED
  BY <1>1, ReduceOnce, BufferSizeAssumption DEF Distance, Slots

(* size() is at most capacity(), and so is what a bounded call takes.      *)
LEMMA SizeIsBounded ==
  ASSUME TypeOK
  PROVE  /\ size \in 0 .. BufferSize - 1
         /\ \A n \in 0 .. BufferSize : /\ Least(n, size) \in 0 .. BufferSize
                                     /\ Least(n, size) <= size
<1>1. size \in Slots
  BY DistanceCounts DEF TypeOK, size
<1>2. QED
  BY <1>1, BufferSizeAssumption DEF Slots, Least

(* The memory steps keep the sets of readable values within the type.      *)
LEMMA SeenHasType ==
  ASSUME TypeOK, Acquire \/ Relaxed
  PROVE  seen' \in [Slots -> SUBSET (Values \cup {Zero})]
BY DEF TypeOK, Acquire, Relaxed

(* The replies the steps build are replies.                                *)
LEMMA ReplyTypes ==
  /\ \A items \in Seq(Values) : [reply |-> "pending", items |-> items] \in Verdicts
  /\ [reply |-> "refused", items |-> <<>>] \in Verdicts
  /\ [reply |-> "accepted", items |-> <<>>] \in Verdicts
  /\ [reply |-> "none", items |-> <<>>] \in Verdicts
  /\ \A call \in {"none", "pop", "peek", "drop", "empty"} :
       \A items \in Seq(Values \cup {Zero}) : [call |-> call, items |-> items] \in Answers
  /\ \A call \in {"none", "drop", "empty"} : [call |-> call, items |-> <<>>] \in Answers
BY DEF Verdicts, Answers

(* What all the calls have in common that start to copy, or to store.      *)
LEMMA StartCopyType ==
  ASSUME TypeOK,
         loads_ordered' \in BOOLEAN,
         seen' \in [Slots -> SUBSET (Values \cup {Zero})],
         UNCHANGED <<buffer_, push_index_, producer>>,
         NEW call \in {"pop", "peek"}, NEW n \in 0 .. BufferSize,
         StartCopy(call, n)
  PROVE  TypeOK'
BY DEF StartCopy, TypeOK, producer

LEMMA StartStoreType ==
  ASSUME TypeOK,
         loads_ordered' \in BOOLEAN,
         seen' \in [Slots -> SUBSET (Values \cup {Zero})],
         UNCHANGED <<buffer_, push_index_, producer>>,
         NEW index \in Slots,
         StartStore(index)
  PROVE  TypeOK'
BY DEF StartStore, TypeOK, producer

(* Every variable keeps its type: indices never leave the buffer.          *)
THEOREM TypeCorrect == Spec => []TypeOK
<1>1. Init => TypeOK
  BY BufferSizeAssumption, ReplyTypes DEF Init, TypeOK, Slots
<1>2. TypeOK /\ [Next]_vars => TypeOK'
  <2> SUFFICES ASSUME TypeOK, [Next]_vars
               PROVE  TypeOK'
    OBVIOUS
  <2>0. loads_ordered' \in BOOLEAN
    BY DEF TypeOK, Next, SameProcessor, vars
  <2> USE <2>0, BufferSizeAssumption, ReplyTypes
  <2>1. ASSUME NEW e \in Values, PushLoad(e)
        PROVE  TypeOK'
    <3>1. <<e>> \in Seq(Values)
      OBVIOUS
    <3>2. QED
      BY <2>1, <3>1 DEF PushLoad, StartPush, RefusePush, TypeOK, memory, consumer
  <2>2. ASSUME NEW items \in Ranges, PushRangeLoad(items)
        PROVE  TypeOK'
    <3>1. items \in Seq(Values)
      BY DEF Ranges
    <3>2. QED
      BY <2>2, <3>1 DEF PushRangeLoad, StartPush, RefusePush, TypeOK, memory, consumer
  <2>3. CASE CopyIn
    <3>1. /\ Head(p_todo) \in Values
          /\ Tail(p_todo) \in Seq(Values)
      BY <2>3 DEF CopyIn, TypeOK
    <3>2. Advance(p_index, 1) \in Slots
      BY AdvanceWraps DEF TypeOK
    <3>3. QED
      BY <2>3, <3>1, <3>2 DEF CopyIn, TypeOK, consumer
  <2>4. CASE PublishPush
    BY <2>4 DEF PublishPush, TypeOK, memory, consumer
  <2>5. CASE PopLoad
    <3>1. /\ seen' \in [Slots -> SUBSET (Values \cup {Zero})]
          /\ UNCHANGED <<buffer_, push_index_, producer>>
      BY <2>5, SeenHasType DEF PopLoad, Calls
    <3>2. CASE pop_index_ = push_index_
      BY <2>5, <3>1, <3>2 DEF PopLoad, TypeOK, producer
    <3>3. CASE pop_index_ # push_index_
      <4>1. StartCopy("pop", 1)
        BY <2>5, <3>3 DEF PopLoad
      <4>2. QED
        BY <3>1, <4>1, StartCopyType
    <3>4. QED
      BY <3>2, <3>3
  <2>6. ASSUME NEW n \in 0 .. BufferSize, PopNLoad(n) \/ PeekLoad(n)
        PROVE  TypeOK'
    <3>1. /\ seen' \in [Slots -> SUBSET (Values \cup {Zero})]
          /\ UNCHANGED <<buffer_, push_index_, producer>>
      BY <2>6, SeenHasType DEF PopNLoad, PeekLoad, Calls
    <3>2. \E call \in {"pop", "peek"} : StartCopy(call, Least(n, size))
      BY <2>6 DEF PopNLoad, PeekLoad
    <3>3. QED
      BY <3>1, <3>2, SizeIsBounded, StartCopyType
  <2>7. ASSUME NEW n \in 0 .. BufferSize, DiscardLoad(n)
        PROVE  TypeOK'
    <3>1. Advance(pop_index_, Least(n, size)) \in Slots
      BY SizeIsBounded, AdvanceWraps DEF TypeOK
    <3>2. /\ seen' \in [Slots -> SUBSET (Values \cup {Zero})]
          /\ UNCHANGED <<buffer_, push_index_, producer>>
          /\ StartStore(Advance(pop_index_, Least(n, size)))
      BY <2>7, SeenHasType DEF DiscardLoad, Calls
    <3>3. QED
      BY <3>1, <3>2, StartStoreType
  <2>8. CASE ClearLoad
    <3>1. /\ seen' \in [Slots -> SUBSET (Values \cup {Zero})]
          /\ UNCHANGED <<buffer_, push_index_, producer>>
          /\ StartStore(push_index_)
          /\ push_index_ \in Slots
      BY <2>8, SeenHasType DEF ClearLoad, Calls, TypeOK
    <3>2. QED
      BY <3>1, StartStoreType
  <2>9. CASE SizeQuery \/ EmptyQuery
    <3>1. size \in 0 .. BufferSize
      BY SizeIsBounded
    <3>2. QED
      BY <2>9, <3>1, SeenHasType DEF SizeQuery, EmptyQuery, Calls, TypeOK, producer
  <2>10. CASE UncheckedPop
    <3>1. /\ seen' \in [Slots -> SUBSET (Values \cup {Zero})]
          /\ UNCHANGED <<buffer_, push_index_, producer>>
          /\ StartCopy("pop", 1)
      BY <2>10 DEF UncheckedPop, Calls, TypeOK
    <3>2. QED
      BY <3>1, StartCopyType
  <2>11. ASSUME NEW n \in 0 .. BufferSize, UncheckedSkip(n) \/ PeekAt(n)
         PROVE  TypeOK'
    <3>1. Advance(pop_index_, n) \in Slots
      BY AdvanceWraps DEF TypeOK
    <3>2. /\ seen' \in [Slots -> SUBSET (Values \cup {Zero})]
          /\ UNCHANGED <<buffer_, push_index_, producer>>
          /\ StartStore(Advance(pop_index_, n)) \/ StartCopy("peek", n)
      BY <2>11 DEF UncheckedSkip, PeekAt, Calls, TypeOK
    <3>3. QED
      BY <3>1, <3>2, StartStoreType, StartCopyType
  <2>12. CASE CopyOut
    <3>1. PICK v \in seen[c_index] :
            /\ c_out' = Append(c_out, v)
            /\ seen' = [seen EXCEPT ![c_index] = IF v = buffer_[c_index] THEN {v} ELSE @]
      BY <2>12 DEF CopyOut
    <3>2. v \in Values \cup {Zero}
      BY DEF TypeOK
    <3>3. Advance(c_index, 1) \in Slots
      BY AdvanceWraps DEF TypeOK
    <3>4. /\ c_out' \in Seq(Values \cup {Zero})
          /\ seen' \in [Slots -> SUBSET (Values \cup {Zero})]
      BY <3>1, <3>2 DEF TypeOK
    <3>5. QED
      BY <2>12, <3>3, <3>4 DEF CopyOut, TypeOK, producer
  <2>13. CASE FinishCopy \/ StorePop
    <3>1. Distance(pop_index_, c_index) \in 0 .. BufferSize
      BY DistanceCounts DEF TypeOK
    <3>2. Remembered \in 0 .. BufferSize
      BY <3>1 DEF Remembered, TypeOK
    <3>3. CASE FinishCopy
      BY <3>2, <3>3 DEF FinishCopy, ForgetLocals, TypeOK, memory, producer, Slots
    <3>4. CASE StorePop
      BY <3>2, <3>4 DEF StorePop, ForgetLocals, TypeOK, memory, producer, Slots
    <3>5. QED
      BY <2>13, <3>3, <3>4
  <2>14. CASE UNCHANGED vars
    BY <2>14 DEF TypeOK, vars, memory, producer, consumer
  <2>15. QED
    BY <2>1, <2>2, <2>3, <2>4, <2>5, <2>6, <2>7, <2>8, <2>9, <2>10, <2>11, <2>12, <2>13, <2>14
       DEF Next, Push, ProducerStep, Query, Consume, ConsumerStep
<1>3. QED
  BY <1>1, <1>2, PTL DEF Spec

-----------------------------------------------------------------------------
(* Arithmetic on the ring: distances add up as long as they make less than *)
(* one turn.                                                               *)
LEMMA DistanceAdds ==
  ASSUME NEW a \in Slots, NEW b \in Slots, NEW c \in Slots,
         Distance(a, b) + Distance(b, c) <= BufferSize - 1
  PROVE  Distance(a, c) = Distance(a, b) + Distance(b, c)
<1>1. /\ Distance(a, b) = IF a <= b THEN b - a ELSE b + BufferSize - a
      /\ Distance(b, c) = IF b <= c THEN c - b ELSE c + BufferSize - b
      /\ Distance(a, c) = IF a <= c THEN c - a ELSE c + BufferSize - a
  BY DistanceCounts
<1>2. QED
  BY <1>1, BufferSizeAssumption DEF Slots

LEMMA DistanceSubtracts ==
  ASSUME NEW a \in Slots, NEW b \in Slots, NEW c \in Slots,
         Distance(a, b) <= Distance(a, c)
  PROVE  Distance(b, c) = Distance(a, c) - Distance(a, b)
<1>1. /\ Distance(a, b) = IF a <= b THEN b - a ELSE b + BufferSize - a
      /\ Distance(b, c) = IF b <= c THEN c - b ELSE c + BufferSize - b
      /\ Distance(a, c) = IF a <= c THEN c - a ELSE c + BufferSize - a
  BY DistanceCounts
<1>2. QED
  BY <1>1, BufferSizeAssumption DEF Slots

LEMMA DistanceOfAdvance ==
  ASSUME NEW a \in Slots, NEW n \in 0 .. BufferSize - 1
  PROVE  Distance(a, Advance(a, n)) = n
<1>1. /\ Advance(a, n) \in Slots
      /\ Advance(a, n) = IF a + n < BufferSize THEN a + n ELSE a + n - BufferSize
  BY AdvanceWraps, BufferSizeAssumption
<1>2. Distance(a, Advance(a, n)) =
        IF a <= Advance(a, n) THEN Advance(a, n) - a ELSE Advance(a, n) + BufferSize - a
  BY <1>1, DistanceCounts
<1>3. QED
  BY <1>1, <1>2, BufferSizeAssumption DEF Slots

LEMMA DistanceGrows ==
  ASSUME NEW a \in Slots, NEW b \in Slots,
         Distance(a, b) + 1 <= BufferSize - 1
  PROVE  Distance(a, Advance(b, 1)) = Distance(a, b) + 1
<1>1. 1 \in 0 .. BufferSize - 1
  BY DistanceCounts, BufferSizeAssumption
<1>2. Distance(b, Advance(b, 1)) = 1
  BY <1>1, DistanceOfAdvance
<1>3. Advance(b, 1) \in Slots
  BY <1>1, AdvanceWraps, BufferSizeAssumption
<1>4. QED
  BY <1>2, <1>3, DistanceAdds

LEMMA DistanceToSelf ==
  ASSUME NEW a \in Slots
  PROVE  Distance(a, a) = 0
BY DistanceCounts, BufferSizeAssumption DEF Slots

(* available() is what size() leaves of the capacity.                      *)
LEMMA AvailableIsRest ==
  ASSUME TypeOK
  PROVE  available = capacity - size
<1> DEFINE room == BufferSize - 1 + pop_index_ - push_index_
<1>1. room \in 0 .. 2 * BufferSize - 1
  BY BufferSizeAssumption DEF TypeOK, Slots
<1>2. available = IF room < BufferSize THEN room ELSE room - BufferSize
  <2> HIDE DEF room
  <2>1. room % BufferSize = IF room < BufferSize THEN room ELSE room - BufferSize
    BY <1>1, ReduceOnce
  <2>2. QED
    BY <2>1 DEF available, room
<1>3. size = IF pop_index_ <= push_index_
             THEN push_index_ - pop_index_ ELSE push_index_ + BufferSize - pop_index_
  BY DistanceCounts DEF size, TypeOK
<1>4. QED
  BY <1>2, <1>3, BufferSizeAssumption DEF capacity, TypeOK, Slots

(* push(e) refuses exactly when the capacity is used up.                   *)
LEMMA FullMeansCapacity ==
  ASSUME TypeOK
  PROVE  PushFull <=> size = capacity
<1>1. /\ Advance(push_index_, 1) \in Slots
      /\ Advance(push_index_, 1) =
           IF push_index_ + 1 < BufferSize THEN push_index_ + 1 ELSE push_index_ + 1 - BufferSize
  BY AdvanceWraps, BufferSizeAssumption DEF TypeOK
<1>2. size = IF pop_index_ <= push_index_
             THEN push_index_ - pop_index_ ELSE push_index_ + BufferSize - pop_index_
  BY DistanceCounts DEF size, TypeOK
<1>3. QED
  BY <1>1, <1>2, BufferSizeAssumption DEF PushFull, capacity, TypeOK, Slots

-----------------------------------------------------------------------------
(* The two threads keep out of each other's way: what each of them decided *)
(* on an old value of the other's index is still right when it acts.       *)
Agreement == PushHasRoom /\ CallWithinSize /\ KnownIsThere

LEMMA AgreementInit == Init => Agreement
<1> SUFFICES ASSUME Init
             PROVE  Agreement
  OBVIOUS
<1>1. size = 0
  BY DistanceToSelf, BufferSizeAssumption DEF Init, size, Slots
<1>2. QED
  BY <1>1, BufferSizeAssumption DEF Init, Agreement, PushHasRoom, CallWithinSize, KnownIsThere

(* A step of the producer: the size never falls, and room is only used.    *)
LEMMA AgreementProducer ==
  ASSUME TypeOK, TypeOK', Agreement, Push \/ ProducerStep
  PROVE  Agreement'
<1> USE DEF Agreement
<1>0. size \in 0 .. BufferSize - 1
  BY SizeIsBounded
<1>1. ASSUME NEW e \in Values, PushLoad(e)
      PROVE  Agreement'
  <2>1. size' = size
    BY <1>1 DEF PushLoad, size
  <2>2. CASE PushFull
    BY <1>1, <2>1, <2>2
       DEF PushLoad, RefusePush, PushHasRoom, CallWithinSize, KnownIsThere, consumer
  <2>3. CASE ~PushFull
    <3>1. size + 1 <= capacity
      BY <1>0, <2>3, FullMeansCapacity, BufferSizeAssumption DEF capacity
    <3>2. /\ p_index' = push_index_ /\ p_todo' = <<e>> /\ p_pc' = "copy"
          /\ UNCHANGED <<push_index_, pop_index_, c_pc, c_index, c_todo, c_known>>
      BY <1>1, <2>3 DEF PushLoad, StartPush, consumer
    <3>3. Distance(push_index_', p_index') = 0
      BY <3>2, DistanceToSelf DEF TypeOK
    <3>4. PushHasRoom'
      <4>1. Len(p_todo') = 1
        BY <3>2
      <4>2. QED
        BY <2>1, <3>1, <3>2, <3>3, <4>1, <1>0, BufferSizeAssumption DEF PushHasRoom, capacity
    <3>5. QED
      BY <2>1, <3>2, <3>4 DEF CallWithinSize, KnownIsThere
  <2>4. QED
    BY <2>2, <2>3
<1>2. ASSUME NEW items \in Ranges, PushRangeLoad(items)
      PROVE  Agreement'
  <2>1. size' = size
    BY <1>2 DEF PushRangeLoad, size
  <2>2. CASE ~(available >= Len(items))
    BY <1>2, <2>1, <2>2
       DEF PushRangeLoad, RefusePush, PushHasRoom, CallWithinSize, KnownIsThere, consumer
  <2>3. CASE available >= Len(items)
    <3>1. /\ items \in Seq(Values)
          /\ Len(items) \in Nat
      BY DEF Ranges
    <3>2. size + Len(items) <= capacity
      BY <1>0, <2>3, <3>1, AvailableIsRest, BufferSizeAssumption DEF capacity
    <3>3. /\ p_index' = push_index_ /\ p_todo' = items /\ p_pc' = "copy"
          /\ UNCHANGED <<push_index_, pop_index_, c_pc, c_index, c_todo, c_known>>
      BY <1>2, <2>3 DEF PushRangeLoad, StartPush, consumer
    <3>4. Distance(push_index_', p_index') = 0
      BY <3>3, DistanceToSelf DEF TypeOK
    <3>5. PushHasRoom'
      BY <2>1, <3>1, <3>2, <3>3, <3>4, <1>0, BufferSizeAssumption DEF PushHasRoom, capacity
    <3>6. QED
      BY <2>1, <3>3, <3>5 DEF CallWithinSize, KnownIsThere
  <2>4. QED
    BY <2>2, <2>3
<1>3. CASE CopyIn
  <2>1. /\ size' = size
        /\ UNCHANGED <<push_index_, pop_index_, p_pc, c_pc, c_index, c_todo, c_known>>
        /\ p_pc = "copy"
        /\ p_index' = Advance(p_index, 1)
        /\ p_todo' = Tail(p_todo)
    BY <1>3 DEF CopyIn, size, consumer
  <2>2. /\ Len(p_todo) \in Nat \ {0}
        /\ Len(p_todo') = Len(p_todo) - 1
    BY <1>3, <2>1 DEF CopyIn, TypeOK
  <2>3. Distance(push_index_, p_index) \in 0 .. BufferSize - 1
    BY DistanceCounts DEF TypeOK
  <2>4. Distance(push_index_, p_index) + Len(p_todo) + size <= capacity
    BY <2>1 DEF PushHasRoom
  <2>5. Distance(push_index_, p_index) + 1 <= BufferSize - 1
    BY <1>0, <2>2, <2>3, <2>4, BufferSizeAssumption DEF capacity
  <2>6. Distance(push_index_', p_index') = Distance(push_index_, p_index) + 1
    BY <2>1, <2>5, DistanceGrows DEF TypeOK
  <2>7. PushHasRoom'
    BY <1>0, <2>1, <2>2, <2>3, <2>4, <2>6, BufferSizeAssumption DEF PushHasRoom, capacity
  <2>8. QED
    BY <2>1, <2>7 DEF CallWithinSize, KnownIsThere
<1>4. CASE PublishPush
  <2>1. /\ UNCHANGED <<pop_index_, p_index, p_todo, c_pc, c_index, c_todo, c_known>>
        /\ p_pc = "copy" /\ p_pc' = "idle"
        /\ push_index_' = p_index
        /\ p_todo = <<>>
    BY <1>4 DEF PublishPush, consumer
  <2>2. Distance(push_index_, p_index) + size <= BufferSize - 1
    <3>1. Len(p_todo) = 0
      BY <2>1
    <3>2. Distance(push_index_, p_index) \in 0 .. BufferSize - 1
      BY DistanceCounts DEF TypeOK
    <3>3. QED
      BY <1>0, <2>1, <3>1, <3>2, BufferSizeAssumption DEF PushHasRoom, capacity
  <2>3. /\ size' = size + Distance(push_index_, p_index)
        /\ Distance(push_index_, p_index) \in 0 .. BufferSize - 1
    <3>1. Distance(push_index_, p_index) \in 0 .. BufferSize - 1
      BY DistanceCounts DEF TypeOK
    <3>2. Distance(pop_index_, push_index_) + Distance(push_index_, p_index) <= BufferSize - 1
      BY <1>0, <2>2, <3>1 DEF size
    <3>3. Distance(pop_index_, p_index)
            = Distance(pop_index_, push_index_) + Distance(push_index_, p_index)
      BY <3>2, DistanceAdds DEF TypeOK
    <3>4. QED
      BY <2>1, <3>1, <3>3 DEF size
  <2>4. size' >= size
    BY <1>0, <2>3
  <2>5. /\ Distance(pop_index_, c_index) \in 0 .. BufferSize - 1
        /\ c_todo \in 0 .. BufferSize
        /\ c_known \in 0 .. BufferSize
        /\ size' \in Int
    BY <1>0, <2>3, DistanceCounts, BufferSizeAssumption DEF TypeOK
  <2>6. CallWithinSize' /\ KnownIsThere'
    BY <1>0, <2>1, <2>4, <2>5, BufferSizeAssumption DEF CallWithinSize, KnownIsThere
  <2>7. PushHasRoom'
    BY <2>1 DEF PushHasRoom
  <2>8. QED
    BY <2>6, <2>7
<1>5. QED
  BY <1>1, <1>2, <1>3, <1>4 DEF Push, ProducerStep

(* A call of the consumer that starts, for elements that are stored.       *)
LEMMA AgreementStartCopy ==
  ASSUME TypeOK, Agreement, UNCHANGED <<push_index_, producer>>,
         NEW call, NEW n \in 0 .. BufferSize, n <= size,
         StartCopy(call, n)
  PROVE  Agreement'
<1>1. /\ size' = size
      /\ size \in 0 .. BufferSize - 1
      /\ Distance(pop_index_, pop_index_) = 0
  BY SizeIsBounded, DistanceToSelf DEF StartCopy, size, TypeOK
<1>2. /\ UNCHANGED <<push_index_, pop_index_, p_pc, p_index, p_todo, c_known>>
      /\ c_pc' = "copy" /\ c_index' = pop_index_ /\ c_todo' = n
  BY DEF StartCopy, producer
<1>3. QED
  BY <1>1, <1>2 DEF Agreement, PushHasRoom, CallWithinSize, KnownIsThere

LEMMA AgreementStartStore ==
  ASSUME TypeOK, Agreement, UNCHANGED <<push_index_, producer>>,
         NEW index \in Slots, Distance(pop_index_, index) <= size,
         StartStore(index)
  PROVE  Agreement'
<1>1. size' = size
  BY DEF StartStore, size
<1>2. /\ UNCHANGED <<push_index_, pop_index_, p_pc, p_index, p_todo, c_known>>
      /\ c_pc' = "store" /\ c_index' = index
  BY DEF StartStore, producer
<1>3. QED
  BY <1>1, <1>2 DEF Agreement, PushHasRoom, CallWithinSize, KnownIsThere

(* The store of pop_index_ takes away elements and nothing else.           *)
LEMMA AgreementStore ==
  ASSUME TypeOK, TypeOK', Agreement,
         UNCHANGED <<push_index_, producer>>,
         pop_index_' = c_index,
         Distance(pop_index_, c_index) <= size,
         c_known' = Remembered,
         c_pc' = "idle"
  PROVE  Agreement'
<1>1. size' = size - Distance(pop_index_, c_index)
  BY DistanceSubtracts DEF size, TypeOK
<1>2. /\ Distance(pop_index_, c_index) \in 0 .. BufferSize - 1
      /\ size \in 0 .. BufferSize - 1
  BY SizeIsBounded, DistanceCounts DEF TypeOK
<1>3. KnownIsThere'
  BY <1>1, <1>2, BufferSizeAssumption DEF Remembered, Agreement, KnownIsThere, TypeOK
<1>4. CallWithinSize'
  BY DEF CallWithinSize
<1>5. PushHasRoom'
  <2>1. UNCHANGED <<push_index_, p_pc, p_index, p_todo>>
    BY DEF producer
  <2>2. CASE p_pc = "copy"
    <3>1. /\ Len(p_todo) \in Nat
          /\ Distance(push_index_, p_index) \in 0 .. BufferSize - 1
      BY DistanceCounts DEF TypeOK
    <3>2. Distance(push_index_, p_index) + Len(p_todo) + size <= capacity
      BY <2>2 DEF Agreement, PushHasRoom
    <3>3. QED
      BY <1>1, <1>2, <2>1, <2>2, <3>1, <3>2, BufferSizeAssumption DEF PushHasRoom, capacity
  <2>3. CASE p_pc # "copy"
    BY <2>1, <2>3 DEF Agreement, PushHasRoom
  <2>4. QED
    BY <2>2, <2>3
<1>6. QED
  BY <1>3, <1>4, <1>5 DEF Agreement

LEMMA AgreementConsumer ==
  ASSUME TypeOK, TypeOK', Agreement, Query \/ Consume \/ ConsumerStep
  PROVE  Agreement'
<1>0. /\ size \in 0 .. BufferSize - 1
      /\ c_known \in 0 .. BufferSize
      /\ c_known <= size
  BY SizeIsBounded DEF Agreement, KnownIsThere, TypeOK
<1>1. CASE Query
  <2>1. /\ size' = size
        /\ UNCHANGED <<push_index_, pop_index_, p_pc, p_index, p_todo, c_pc, c_index, c_todo>>
    BY <1>1 DEF Query, SizeQuery, EmptyQuery, Calls, size, producer
  <2>2. c_known' <= size
    <3>1. push_index_ # pop_index_ => size >= 1
      <4>1. size = IF pop_index_ <= push_index_
                   THEN push_index_ - pop_index_ ELSE push_index_ + BufferSize - pop_index_
        BY DistanceCounts DEF size, TypeOK
      <4>2. QED
        BY <4>1, BufferSizeAssumption DEF TypeOK, Slots
    <3>2. QED
      BY <1>0, <1>1, <3>1 DEF Query, SizeQuery, EmptyQuery
  <2>3. QED
    BY <2>1, <2>2 DEF Agreement, PushHasRoom, CallWithinSize, KnownIsThere
<1>2. CASE PopLoad
  <2>1. UNCHANGED <<push_index_, producer>>
    BY <1>2 DEF PopLoad, Calls
  <2>2. CASE pop_index_ = push_index_
    <3>1. UNCHANGED <<pop_index_, c_pc, c_index, c_todo, c_known>>
      BY <1>2, <2>2 DEF PopLoad
    <3>2. UNCHANGED <<p_pc, p_index, p_todo, size>>
      BY <2>1, <3>1 DEF producer, size
    <3>3. QED
      BY <2>1, <3>1, <3>2 DEF Agreement, PushHasRoom, CallWithinSize, KnownIsThere
  <2>3. CASE pop_index_ # push_index_
    <3>1. 1 <= size
      <4>1. size = IF pop_index_ <= push_index_
                   THEN push_index_ - pop_index_ ELSE push_index_ + BufferSize - pop_index_
        BY DistanceCounts DEF size, TypeOK
      <4>2. QED
        BY <2>3, <4>1, BufferSizeAssumption DEF TypeOK, Slots
    <3>2. StartCopy("pop", 1) /\ 1 \in 0 .. BufferSize
      BY <1>2, <2>3, BufferSizeAssumption DEF PopLoad
    <3>3. QED
      BY <2>1, <3>1, <3>2, AgreementStartCopy
  <2>4. QED
    BY <2>2, <2>3
<1>3. ASSUME NEW n \in 0 .. BufferSize, PopNLoad(n) \/ PeekLoad(n)
      PROVE  Agreement'
  <2>1. UNCHANGED <<push_index_, producer>>
    BY <1>3 DEF PopNLoad, PeekLoad, Calls
  <2>2. \E call \in {"pop", "peek"} : StartCopy(call, Least(n, size))
    BY <1>3 DEF PopNLoad, PeekLoad
  <2>3. QED
    BY <2>1, <2>2, SizeIsBounded, AgreementStartCopy
<1>4. ASSUME NEW n \in 0 .. BufferSize, DiscardLoad(n)
      PROVE  Agreement'
  <2>1. /\ UNCHANGED <<push_index_, producer>>
        /\ StartStore(Advance(pop_index_, Least(n, size)))
    BY <1>4 DEF DiscardLoad, Calls
  <2>2. /\ Least(n, size) \in 0 .. BufferSize - 1
        /\ Least(n, size) \in 0 .. BufferSize
        /\ Least(n, size) <= size
    BY <1>0, SizeIsBounded, BufferSizeAssumption
  <2>3. /\ Advance(pop_index_, Least(n, size)) \in Slots
        /\ Distance(pop_index_, Advance(pop_index_, Least(n, size))) = Least(n, size)
    BY <2>2, AdvanceWraps, DistanceOfAdvance DEF TypeOK
  <2>4. QED
    BY <2>1, <2>2, <2>3, AgreementStartStore
<1>5. CASE ClearLoad
  <2>1. /\ UNCHANGED <<push_index_, producer>>
        /\ StartStore(push_index_)
    BY <1>5 DEF ClearLoad, Calls
  <2>2. Distance(pop_index_, push_index_) <= size
    BY <1>0 DEF size
  <2>3. QED
    BY <2>1, <2>2, AgreementStartStore DEF TypeOK
<1>6. CASE UncheckedPop
  <2>1. /\ UNCHANGED <<push_index_, producer>>
        /\ StartCopy("pop", 1)
        /\ 1 <= size
        /\ 1 \in 0 .. BufferSize
    BY <1>0, <1>6, BufferSizeAssumption DEF UncheckedPop, Calls
  <2>2. QED
    BY <2>1, AgreementStartCopy
<1>7. ASSUME NEW n \in 0 .. BufferSize, UncheckedSkip(n)
      PROVE  Agreement'
  <2>1. /\ UNCHANGED <<push_index_, producer>>
        /\ StartStore(Advance(pop_index_, n))
        /\ n \in 0 .. BufferSize - 1
        /\ n <= size
    BY <1>0, <1>7, BufferSizeAssumption DEF UncheckedSkip, Calls
  <2>2. /\ Advance(pop_index_, n) \in Slots
        /\ Distance(pop_index_, Advance(pop_index_, n)) = n
    BY <2>1, AdvanceWraps, DistanceOfAdvance DEF TypeOK
  <2>3. QED
    BY <2>1, <2>2, AgreementStartStore
<1>8. ASSUME NEW n \in 0 .. BufferSize, PeekAt(n)
      PROVE  Agreement'
  <2>1. /\ UNCHANGED <<push_index_, producer>>
        /\ StartCopy("peek", n)
        /\ n <= size
    BY <1>0, <1>8 DEF PeekAt, Calls
  <2>2. QED
    BY <2>1, AgreementStartCopy
<1>9. CASE CopyOut
  <2>1. /\ UNCHANGED <<push_index_, pop_index_, p_pc, p_index, p_todo, c_pc, c_known>>
        /\ c_pc = "copy"
        /\ c_todo > 0
        /\ c_todo' = c_todo - 1
        /\ c_index' = Advance(c_index, 1)
        /\ size' = size
    BY <1>9 DEF CopyOut, producer, size
  <2>2. /\ Distance(pop_index_, c_index) \in 0 .. BufferSize - 1
        /\ c_todo \in 0 .. BufferSize
    BY DistanceCounts DEF TypeOK
  <2>3. Distance(pop_index_, c_index) + c_todo <= size
    BY <2>1 DEF Agreement, CallWithinSize
  <2>4. Distance(pop_index_, c_index) + 1 <= BufferSize - 1
    BY <1>0, <2>1, <2>2, <2>3, BufferSizeAssumption
  <2>5. Distance(pop_index_, Advance(c_index, 1)) = Distance(pop_index_, c_index) + 1
    BY <2>4, DistanceGrows DEF TypeOK
  <2>6. CallWithinSize'
    BY <1>0, <2>1, <2>2, <2>3, <2>5 DEF CallWithinSize
  <2>7. QED
    BY <2>1, <2>6 DEF Agreement, PushHasRoom, KnownIsThere
<1>10. CASE FinishCopy
  <2>1. /\ UNCHANGED <<push_index_, producer>>
        /\ c_pc = "copy" /\ c_todo = 0 /\ c_pc' = "idle"
    BY <1>10 DEF FinishCopy, ForgetLocals
  <2>2. Distance(pop_index_, c_index) <= size
    <3>1. Distance(pop_index_, c_index) \in 0 .. BufferSize - 1
      BY DistanceCounts DEF TypeOK
    <3>2. QED
      BY <2>1, <3>1 DEF Agreement, CallWithinSize
  <2>3. CASE c_call = "pop"
    <3>1. pop_index_' = c_index /\ c_known' = Remembered
      BY <1>10, <2>3 DEF FinishCopy
    <3>2. QED
      BY <2>1, <2>2, <3>1, AgreementStore
  <2>4. CASE c_call # "pop"
    <3>1. UNCHANGED <<pop_index_, c_known>>
      BY <1>10, <2>4 DEF FinishCopy
    <3>2. UNCHANGED <<p_pc, p_index, p_todo, size>>
      BY <2>1, <3>1 DEF producer, size
    <3>3. QED
      BY <2>1, <3>1, <3>2 DEF Agreement, PushHasRoom, CallWithinSize, KnownIsThere
  <2>5. QED
    BY <2>3, <2>4
<1>11. CASE StorePop
  <2>1. /\ UNCHANGED <<push_index_, producer>>
        /\ c_pc = "store" /\ c_pc' = "idle"
        /\ pop_index_' = c_index /\ c_known' = Remembered
    BY <1>11 DEF StorePop, ForgetLocals
  <2>2. Distance(pop_index_, c_index) <= size
    BY <2>1 DEF Agreement, CallWithinSize
  <2>3. QED
    BY <2>1, <2>2, AgreementStore
<1>12. QED
  BY <1>1, <1>2, <1>3, <1>4, <1>5, <1>6, <1>7, <1>8, <1>9, <1>10, <1>11
     DEF Consume, ConsumerStep

(* A push has room, a pop or peek stays within the stored elements, and    *)
(* what size() or empty() reported is still there.                         *)
THEOREM AgreementHolds == Spec => []Agreement
<1>1. TypeOK /\ TypeOK' /\ Agreement /\ [Next]_vars => Agreement'
  <2> SUFFICES ASSUME TypeOK, TypeOK', Agreement, [Next]_vars
               PROVE  Agreement'
    OBVIOUS
  <2>1. CASE Next
    BY <2>1, AgreementProducer, AgreementConsumer DEF Next
  <2>2. CASE UNCHANGED vars
    <3>1. UNCHANGED <<push_index_, pop_index_, p_pc, p_index, p_todo,
                      c_pc, c_index, c_todo, c_known, size>>
      BY <2>2 DEF vars, producer, consumer, size
    <3>2. QED
      BY <3>1 DEF Agreement, PushHasRoom, CallWithinSize, KnownIsThere
  <2>3. QED
    BY <2>1, <2>2
<1>2. QED
  BY <1>1, AgreementInit, TypeCorrect, PTL DEF Spec

(* A push in progress always has the room its stale load promised.         *)
THEOREM PushHasRoomAlways == Spec => []PushHasRoom
<1>1. Agreement => PushHasRoom
  BY DEF Agreement
<1>2. QED
  BY <1>1, AgreementHolds, PTL

(* A pop or peek never runs past the stored elements.                      *)
THEOREM CallWithinSizeAlways == Spec => []CallWithinSize
<1>1. Agreement => CallWithinSize
  BY DEF Agreement
<1>2. QED
  BY <1>1, AgreementHolds, PTL

(* The result of size() stays a lower bound until the consumer acts.       *)
THEOREM KnownIsThereAlways == Spec => []KnownIsThere
<1>1. Agreement => KnownIsThere
  BY DEF Agreement
<1>2. QED
  BY <1>1, AgreementHolds, PTL

(* The slot being written holds no stored element and is never the slot    *)
(* being read: the copies of the two threads do not race.                  *)
THEOREM NoSharedSlotAlways == Spec => []NoSharedSlot
<1>1. TypeOK /\ Agreement => NoSharedSlot
  <2> SUFFICES ASSUME TypeOK, Agreement, p_pc = "copy", p_todo # <<>>
               PROVE  /\ p_index \notin Live
                      /\ (c_pc = "copy" /\ c_todo > 0) => c_index # p_index
    BY DEF NoSharedSlot
  <2>1. /\ size \in 0 .. BufferSize - 1
        /\ Len(p_todo) \in Nat \ {0}
        /\ Distance(push_index_, p_index) \in 0 .. BufferSize - 1
        /\ Distance(push_index_, p_index) + Len(p_todo) + size <= capacity
    BY SizeIsBounded, DistanceCounts DEF TypeOK, Agreement, PushHasRoom
  <2>2. Distance(pop_index_, p_index) >= size
    <3>1. Distance(pop_index_, push_index_) + Distance(push_index_, p_index) <= BufferSize - 1
      BY <2>1, BufferSizeAssumption DEF size, capacity
    <3>2. Distance(pop_index_, p_index)
            = Distance(pop_index_, push_index_) + Distance(push_index_, p_index)
      BY <3>1, DistanceAdds DEF TypeOK
    <3>3. QED
      BY <2>1, <3>2 DEF size
  <2>3. ASSUME NEW k \in 0 .. size - 1
        PROVE  p_index # Advance(pop_index_, k)
    <3>1. k \in 0 .. BufferSize - 1 /\ k < size
      BY <2>1, <2>3, BufferSizeAssumption
    <3>2. Distance(pop_index_, Advance(pop_index_, k)) = k
      BY <3>1, DistanceOfAdvance DEF TypeOK
    <3>3. QED
      BY <2>1, <2>2, <3>1, <3>2
  <2>4. ASSUME c_pc = "copy", c_todo > 0
        PROVE  c_index # p_index
    <3>1. /\ Distance(pop_index_, c_index) + c_todo <= size
          /\ Distance(pop_index_, c_index) \in 0 .. BufferSize - 1
          /\ c_todo \in 0 .. BufferSize
      BY <2>4, DistanceCounts DEF Agreement, CallWithinSize, TypeOK
    <3>2. QED
      BY <2>1, <2>2, <2>4, <3>1
  <2>5. QED
    BY <2>3, <2>4 DEF Live
<1>2. QED
  BY <1>1, TypeCorrect, AgreementHolds, PTL

-----------------------------------------------------------------------------
(* What the ring does with its elements: the consumer copies out what the  *)
(* producer stored, and the ring implements the bounded queue BoundedFifo. *)
(* Both are about processors that keep loads in order, and about members   *)
(* that acquire on those that do not.                                      *)

(* Where the processor may reorder loads, only members that load           *)
(* push_index_ with acquire order, or read no slot, are called.            *)
OthersAcquire == ConsumerCalls[FALSE] \subseteq AcquiringCalls

(* Slots that hold a stored element, by their distance from the oldest.    *)
LEMMA StoredSlots ==
  ASSUME TypeOK, NEW k \in 1 .. size
  PROVE  /\ Advance(pop_index_, k - 1) \in Slots
         /\ Distance(pop_index_, Advance(pop_index_, k - 1)) = k - 1
<1>1. k - 1 \in 0 .. BufferSize - 1
  BY SizeIsBounded, BufferSizeAssumption
<1>2. QED
  BY <1>1, AdvanceWraps, DistanceOfAdvance, BufferSizeAssumption DEF TypeOK

(* A slot is reached from an index by its distance.                        *)
LEMMA AdvanceByDistance ==
  ASSUME NEW a \in Slots, NEW b \in Slots
  PROVE  Advance(a, Distance(a, b)) = b
<1>1. /\ Distance(a, b) \in 0 .. BufferSize - 1
      /\ Distance(a, b) = IF a <= b THEN b - a ELSE b + BufferSize - a
  BY DistanceCounts
<1>2. Advance(a, Distance(a, b)) =
        IF a + Distance(a, b) < BufferSize THEN a + Distance(a, b) ELSE a + Distance(a, b) - BufferSize
  BY <1>1, AdvanceWraps, BufferSizeAssumption
<1>3. QED
  BY <1>1, <1>2, BufferSizeAssumption DEF Slots

(* Slots behind push_index_ that a push is filling are not stored yet.     *)
LEMMA BeyondTheStored ==
  ASSUME TypeOK, PushHasRoom,
         NEW i \in Slots, Distance(push_index_, i) <= Distance(push_index_, p_index),
         p_pc = "copy"
  PROVE  /\ Distance(pop_index_, i) = size + Distance(push_index_, i)
         /\ Distance(push_index_, i) \in 0 .. BufferSize - 1
<1>1. /\ Distance(push_index_, i) \in 0 .. BufferSize - 1
      /\ Distance(push_index_, p_index) \in 0 .. BufferSize - 1
      /\ size \in 0 .. BufferSize - 1
      /\ Len(p_todo) \in Nat
  BY DistanceCounts, SizeIsBounded DEF TypeOK
<1>2. Distance(pop_index_, push_index_) + Distance(push_index_, i) <= BufferSize - 1
  BY <1>1, BufferSizeAssumption DEF PushHasRoom, capacity, size
<1>3. QED
  BY <1>1, <1>2, DistanceAdds DEF TypeOK, size

-----------------------------------------------------------------------------
(* The consumer can read only the newest value of slot i.                  *)
Settled(i) == seen[i] = {buffer_[i]}

(* The slots the consumer is about to read, and those it knows to be       *)
(* there, show it nothing but what was stored in them last.                *)
ReadsSettled ==
  /\ c_pc = "copy" => \A i \in Slots : Distance(c_index, i) < c_todo => Settled(i)
  /\ \A i \in Slots : Distance(pop_index_, i) < c_known => Settled(i)

(* What was copied out is in the slots it was copied from, from the oldest *)
(* to the one read next.                                                   *)
CopiedOut ==
  c_pc = "copy" =>
    /\ c_call \in {"pop", "peek"}
    /\ Len(c_out) = Distance(pop_index_, c_index)
    /\ \A i \in Slots : Distance(pop_index_, i) < Len(c_out)
                           => c_out[Distance(pop_index_, i) + 1] = buffer_[i]

CopyInvariant == ReadsSettled /\ CopiedOut

(* An acquire load settles every stored slot.                              *)
LEMMA AcquireSettles ==
  ASSUME TypeOK, Agreement, Acquire, UNCHANGED buffer_,
         NEW i \in Slots, Distance(pop_index_, i) < size
  PROVE  Settled(i)'
<1>1. i \notin Unpublished
  <2> SUFFICES ASSUME i \in Unpublished
               PROVE  FALSE
    OBVIOUS
  <2>1. /\ Distance(push_index_, i) < Distance(push_index_, p_index)
        /\ Distance(push_index_, i) \in 0 .. BufferSize - 1
        /\ Distance(push_index_, p_index) \in 0 .. BufferSize - 1
    BY DistanceCounts DEF Unpublished, TypeOK
  <2>2. p_pc = "copy"
    BY <2>1, DistanceToSelf DEF Agreement, PushHasRoom, TypeOK
  <2>3. size \in 0 .. BufferSize - 1
    BY SizeIsBounded
  <2>4. QED
    BY <2>1, <2>2, <2>3, BeyondTheStored DEF Agreement
<1>2. QED
  BY <1>1 DEF Acquire, Settled

LEMMA CopyInvariantInit == Init => CopyInvariant
BY BufferSizeAssumption, DistanceCounts
   DEF Init, CopyInvariant, ReadsSettled, CopiedOut, Settled, Slots

(* The producer writes only slots that hold no stored element.             *)
LEMMA CopyInvariantProducer ==
  ASSUME TypeOK, Agreement, CopyInvariant, Push \/ ProducerStep
  PROVE  CopyInvariant'
<1>1. CASE Push \/ PublishPush
  <2>1. UNCHANGED <<buffer_, seen, pop_index_, c_pc, c_call, c_index, c_todo, c_out, c_known>>
    BY <1>1 DEF Push, PushLoad, PushRangeLoad, PublishPush, memory, consumer
  <2>2. QED
    BY <2>1 DEF CopyInvariant, ReadsSettled, CopiedOut, Settled
<1>2. CASE CopyIn
  <2>1. /\ UNCHANGED <<pop_index_, c_pc, c_call, c_index, c_todo, c_out, c_known>>
        /\ p_pc = "copy"
        /\ \A i \in Slots : i # p_index => buffer_'[i] = buffer_[i] /\ seen'[i] = seen[i]
    BY <1>2 DEF CopyIn, consumer, TypeOK
  <2>2. /\ size \in 0 .. BufferSize - 1
        /\ c_known <= size
        /\ c_pc = "copy" => Distance(pop_index_, c_index) + c_todo <= size
        /\ c_todo \in 0 .. BufferSize
        /\ c_known \in 0 .. BufferSize
    BY SizeIsBounded DEF Agreement, KnownIsThere, CallWithinSize, TypeOK
  <2>3. Distance(pop_index_, p_index) >= size
    <3>1. /\ Distance(push_index_, p_index) \in 0 .. BufferSize - 1
          /\ p_index \in Slots
      BY DistanceCounts DEF TypeOK
    <3>2. QED
      BY <2>1, <2>2, <3>1, BeyondTheStored DEF Agreement
  <2>4. ASSUME c_pc = "copy"
        PROVE  /\ ~(Distance(c_index, p_index) < c_todo)
               /\ ~(Distance(pop_index_, p_index) < Len(c_out))
    <3>1. /\ Distance(pop_index_, c_index) \in 0 .. BufferSize - 1
          /\ Distance(c_index, p_index) \in 0 .. BufferSize - 1
          /\ Distance(pop_index_, p_index) \in 0 .. BufferSize - 1
      BY DistanceCounts DEF TypeOK
    <3>2. Distance(c_index, p_index) < c_todo
            => Distance(pop_index_, p_index) = Distance(pop_index_, c_index) + Distance(c_index, p_index)
      BY <2>2, <2>4, <3>1, DistanceAdds, BufferSizeAssumption DEF TypeOK
    <3>3. Len(c_out) = Distance(pop_index_, c_index)
      BY <2>4 DEF CopyInvariant, CopiedOut
    <3>4. QED
      BY <2>2, <2>3, <2>4, <3>1, <3>2, <3>3
  <2>5. ~(Distance(pop_index_, p_index) < c_known)
    <3>1. Distance(pop_index_, p_index) \in 0 .. BufferSize - 1
      BY DistanceCounts DEF TypeOK
    <3>2. QED
      BY <2>2, <2>3, <3>1
  <2>6. ReadsSettled'
    BY <2>1, <2>4, <2>5 DEF CopyInvariant, ReadsSettled, Settled
  <2>7. CopiedOut'
    BY <2>1, <2>4 DEF CopyInvariant, CopiedOut
  <2>8. QED
    BY <2>6, <2>7 DEF CopyInvariant
<1>3. QED
  BY <1>1, <1>2 DEF ProducerStep

(* A call that begins to copy: of settled slots, with nothing copied yet.  *)
LEMMA CopyInvariantStartCopy ==
  ASSUME TypeOK, CopyInvariant, UNCHANGED buffer_,
         NEW call \in {"pop", "peek"}, NEW n \in 0 .. BufferSize,
         StartCopy(call, n),
         \A i \in Slots : Distance(pop_index_, i) < n => Settled(i)',
         \A i \in Slots : Settled(i) => Settled(i)'
  PROVE  CopyInvariant'
<1>1. /\ c_pc' = "copy" /\ c_call' = call /\ c_index' = pop_index_ /\ c_todo' = n
      /\ c_out' = <<>>
      /\ UNCHANGED <<pop_index_, c_known>>
  BY DEF StartCopy
<1>2. ReadsSettled'
  BY <1>1 DEF CopyInvariant, ReadsSettled
<1>3. CopiedOut'
  <2>1. Len(c_out') = 0 /\ Distance(pop_index_', c_index') = 0
    BY <1>1, DistanceToSelf DEF TypeOK
  <2>2. \A i \in Slots : Distance(pop_index_, i) \in 0 .. BufferSize - 1
    BY DistanceCounts DEF TypeOK
  <2>3. QED
    BY <1>1, <2>1, <2>2 DEF CopiedOut
<1>4. QED
  BY <1>2, <1>3 DEF CopyInvariant

(* A load of push_index_ by a member that OthersAcquire admits.            *)
LEMMA LoadSettles ==
  ASSUME TypeOK, Agreement, OthersAcquire, UNCHANGED buffer_,
         NEW name \in {"pop_n", "peek", "size"}, Calls(name), Relaxed
  PROVE  Acquire
<1>1. loads_ordered = TRUE
  BY DEF Calls, OthersAcquire, AcquiringCalls, TypeOK
<1>2. QED
  BY <1>1 DEF Relaxed

(* What is settled stays so, whichever load it is.                         *)
LEMMA StaysSettled ==
  ASSUME TypeOK, UNCHANGED buffer_, Acquire \/ Relaxed \/ UNCHANGED seen,
         NEW i \in Slots, Settled(i)
  PROVE  Settled(i)'
BY DEF Acquire, Relaxed, Settled, TypeOK

LEMMA CopyInvariantConsumer ==
  ASSUME TypeOK, Agreement, CopyInvariant, OthersAcquire, Query \/ Consume \/ ConsumerStep
  PROVE  CopyInvariant'
<1>0. /\ size \in 0 .. BufferSize - 1
      /\ c_known \in 0 .. BufferSize
      /\ c_known <= size
      /\ \A i \in Slots : Distance(pop_index_, i) \in 0 .. BufferSize - 1
  BY SizeIsBounded, DistanceCounts DEF Agreement, KnownIsThere, TypeOK
<1>1. CASE Query
  <2>1. /\ UNCHANGED <<buffer_, pop_index_, c_pc, c_call, c_index, c_todo, c_out>>
        /\ c_pc = "idle"
        /\ Acquire
    BY <1>1, LoadSettles DEF Query, SizeQuery, EmptyQuery, Calls
  <2>2. c_known' \in 0 .. BufferSize /\ c_known' <= size
    <3>1. push_index_ # pop_index_ => size >= 1
      <4>1. size = IF pop_index_ <= push_index_
                   THEN push_index_ - pop_index_ ELSE push_index_ + BufferSize - pop_index_
        BY DistanceCounts DEF size, TypeOK
      <4>2. QED
        BY <4>1, BufferSizeAssumption DEF TypeOK, Slots
    <3>2. QED
      BY <1>0, <1>1, <3>1, BufferSizeAssumption DEF Query, SizeQuery, EmptyQuery
  <2>3. \A i \in Slots : Distance(pop_index_, i) < c_known' => Settled(i)'
    BY <1>0, <2>1, <2>2, AcquireSettles
  <2>4. QED
    BY <2>1, <2>3 DEF CopyInvariant, ReadsSettled, CopiedOut
<1>2. CASE PopLoad
  <2>1. /\ UNCHANGED buffer_ /\ Acquire
        /\ \A i \in Slots : Settled(i) => Settled(i)'
        /\ \A i \in Slots : Distance(pop_index_, i) < size => Settled(i)'
    BY <1>2, AcquireSettles, StaysSettled DEF PopLoad, Calls
  <2>2. CASE pop_index_ = push_index_
    <3>1. UNCHANGED <<pop_index_, c_pc, c_call, c_index, c_todo, c_out, c_known>>
      BY <1>2, <2>2 DEF PopLoad
    <3>2. QED
      BY <2>1, <3>1 DEF CopyInvariant, ReadsSettled, CopiedOut
  <2>3. CASE pop_index_ # push_index_
    <3>1. 1 <= size
      <4>1. size = IF pop_index_ <= push_index_
                   THEN push_index_ - pop_index_ ELSE push_index_ + BufferSize - pop_index_
        BY DistanceCounts DEF size, TypeOK
      <4>2. QED
        BY <2>3, <4>1, BufferSizeAssumption DEF TypeOK, Slots
    <3>2. StartCopy("pop", 1) /\ 1 \in 0 .. BufferSize
      BY <1>2, <2>3, BufferSizeAssumption DEF PopLoad
    <3>3. \A i \in Slots : Distance(pop_index_, i) < 1 => Settled(i)'
      BY <1>0, <2>1, <3>1
    <3>4. QED
      BY <2>1, <3>2, <3>3, CopyInvariantStartCopy
  <2>4. QED
    BY <2>2, <2>3
<1>3. ASSUME NEW n \in 0 .. BufferSize, PopNLoad(n) \/ PeekLoad(n)
      PROVE  CopyInvariant'
  <2>1. UNCHANGED buffer_ /\ Acquire
    BY <1>3, LoadSettles DEF PopNLoad, PeekLoad, Calls
  <2>2. PICK call \in {"pop", "peek"} : StartCopy(call, Least(n, size))
    BY <1>3 DEF PopNLoad, PeekLoad
  <2>3. Least(n, size) \in 0 .. BufferSize /\ Least(n, size) <= size
    BY SizeIsBounded
  <2>4. /\ \A i \in Slots : Settled(i) => Settled(i)'
        /\ \A i \in Slots : Distance(pop_index_, i) < Least(n, size) => Settled(i)'
    BY <1>0, <2>1, <2>3, AcquireSettles, StaysSettled
  <2>5. QED
    BY <2>1, <2>2, <2>3, <2>4, CopyInvariantStartCopy
<1>4. ASSUME NEW n \in 0 .. BufferSize, DiscardLoad(n) \/ ClearLoad \/ UncheckedSkip(n)
      PROVE  CopyInvariant'
  <2>1. /\ UNCHANGED <<buffer_, pop_index_, c_known>> /\ c_pc' = "store"
        /\ \A i \in Slots : Settled(i) => Settled(i)'
    BY <1>4, StaysSettled DEF DiscardLoad, ClearLoad, UncheckedSkip, Calls, StartStore
  <2>2. QED
    BY <2>1 DEF CopyInvariant, ReadsSettled, CopiedOut
<1>5. ASSUME NEW n \in 0 .. BufferSize, (n = 1 /\ UncheckedPop) \/ PeekAt(n)
      PROVE  CopyInvariant'
  <2>1. /\ UNCHANGED <<buffer_, seen>>
        /\ n <= c_known
        /\ \E call \in {"pop", "peek"} : StartCopy(call, n)
    BY <1>5 DEF UncheckedPop, PeekAt, Calls
  <2>2. /\ \A i \in Slots : Settled(i) => Settled(i)'
        /\ \A i \in Slots : Distance(pop_index_, i) < n => Settled(i)'
    BY <1>0, <2>1 DEF Settled, CopyInvariant, ReadsSettled
  <2>3. QED
    BY <2>1, <2>2, CopyInvariantStartCopy
<1>6. CASE CopyOut
  <2>1. PICK v \in seen[c_index] :
          /\ c_out' = Append(c_out, v)
          /\ seen' = [seen EXCEPT ![c_index] = IF v = buffer_[c_index] THEN {v} ELSE @]
    BY <1>6 DEF CopyOut
  <2>2. /\ UNCHANGED <<buffer_, pop_index_, c_pc, c_call, c_known>>
        /\ c_pc = "copy" /\ c_todo > 0
        /\ c_todo' = c_todo - 1 /\ c_index' = Advance(c_index, 1)
        /\ c_todo \in 0 .. BufferSize
        /\ c_index \in Slots
        /\ c_out \in Seq(Values \cup {Zero})
    BY <1>6 DEF CopyOut, TypeOK
  <2>3. /\ Distance(pop_index_, c_index) + c_todo <= size
        /\ Distance(pop_index_, c_index) \in 0 .. BufferSize - 1
    BY <1>0, <2>2 DEF Agreement, CallWithinSize
  <2>4. /\ Advance(c_index, 1) \in Slots
        /\ Distance(pop_index_, Advance(c_index, 1)) = Distance(pop_index_, c_index) + 1
    BY <1>0, <2>2, <2>3, DistanceGrows, AdvanceWraps, BufferSizeAssumption DEF TypeOK
  <2>5. Settled(c_index) /\ v = buffer_[c_index]
    <3>1. Distance(c_index, c_index) < c_todo
      BY <2>2, DistanceToSelf
    <3>2. QED
      BY <2>2, <3>1 DEF CopyInvariant, ReadsSettled, Settled
  <2>6. \A i \in Slots : Settled(i) => Settled(i)'
    BY <2>1, <2>2, <2>5 DEF Settled, TypeOK
  <2>7. ASSUME NEW i \in Slots, Distance(c_index', i) < c_todo'
        PROVE  Distance(c_index, i) < c_todo
    <3>1. /\ Distance(Advance(c_index, 1), i) \in 0 .. BufferSize - 1
          /\ Distance(Advance(c_index, 1), i) + 1 < c_todo
      BY <2>2, <2>4, <2>7, DistanceCounts
    <3>2. 1 \in 0 .. BufferSize - 1 /\ Distance(c_index, Advance(c_index, 1)) = 1
      BY <1>0, <2>2, <2>3, DistanceOfAdvance, BufferSizeAssumption
    <3>3. Distance(c_index, i) = 1 + Distance(Advance(c_index, 1), i)
      BY <1>0, <2>2, <2>3, <2>4, <3>1, <3>2, DistanceAdds, BufferSizeAssumption
    <3>4. QED
      BY <3>1, <3>3
  <2>8. ReadsSettled'
    BY <2>2, <2>6, <2>7 DEF CopyInvariant, ReadsSettled
  <2>9. CopiedOut'
    <3>1. /\ Len(c_out) = Distance(pop_index_, c_index)
          /\ Len(c_out') = Len(c_out) + 1
          /\ c_call \in {"pop", "peek"}
      BY <2>1, <2>2, <2>5 DEF CopyInvariant, CopiedOut
    <3>2. ASSUME NEW i \in Slots, Distance(pop_index_, i) < Len(c_out')
          PROVE  c_out'[Distance(pop_index_, i) + 1] = buffer_[i]
      <4>1. CASE Distance(pop_index_, i) < Len(c_out)
        <5>1. c_out[Distance(pop_index_, i) + 1] = buffer_[i]
          BY <2>2, <4>1 DEF CopyInvariant, CopiedOut
        <5>2. Distance(pop_index_, i) + 1 \in 1 .. Len(c_out)
          BY <1>0, <4>1, <2>2
        <5>3. QED
          BY <2>1, <2>2, <5>1, <5>2
      <4>2. CASE Distance(pop_index_, i) = Len(c_out)
        <5>1. i = c_index
          BY <2>2, <3>1, <4>2, AdvanceByDistance DEF TypeOK
        <5>2. QED
          BY <2>1, <2>2, <2>5, <4>2, <5>1
      <4>3. QED
        BY <1>0, <2>2, <3>1, <3>2, <4>1, <4>2
    <3>3. QED
      BY <2>2, <2>4, <3>1, <3>2 DEF CopiedOut
  <2>10. QED
    BY <2>8, <2>9 DEF CopyInvariant
<1>7. CASE FinishCopy \/ StorePop
  <2>1. /\ UNCHANGED <<buffer_, seen>>
        /\ c_pc' = "idle"
        /\ \/ UNCHANGED <<pop_index_, c_known>>
           \/ pop_index_' = c_index /\ c_known' = Remembered
    BY <1>7 DEF FinishCopy, StorePop, ForgetLocals, memory
  <2>2. Distance(pop_index_, c_index) <= size
    BY <1>0, <1>7, DistanceCounts DEF FinishCopy, StorePop, Agreement, CallWithinSize, TypeOK
  <2>3. ASSUME pop_index_' = c_index, c_known' = Remembered,
               NEW i \in Slots, Distance(c_index, i) < Remembered
        PROVE  Distance(pop_index_, i) < c_known
    <3>1. /\ Distance(pop_index_, c_index) \in 0 .. BufferSize - 1
          /\ Distance(c_index, i) \in 0 .. BufferSize - 1
      BY DistanceCounts DEF TypeOK
    <3>2. Distance(pop_index_, c_index) + Distance(c_index, i) < c_known
      BY <1>0, <2>3, <3>1 DEF Remembered
    <3>3. Distance(pop_index_, i) = Distance(pop_index_, c_index) + Distance(c_index, i)
      BY <1>0, <3>1, <3>2, DistanceAdds, BufferSizeAssumption DEF TypeOK
    <3>4. QED
      BY <3>2, <3>3
  <2>4. \A i \in Slots : Distance(pop_index_', i) < c_known' => Settled(i)'
    BY <2>1, <2>3 DEF CopyInvariant, ReadsSettled, Settled
  <2>5. QED
    BY <2>1, <2>4 DEF CopyInvariant, ReadsSettled, CopiedOut
<1>8. 0 \in 0 .. BufferSize /\ 1 \in 0 .. BufferSize
  BY BufferSizeAssumption
<1>9. QED
  BY <1>1, <1>2, <1>3, <1>4, <1>5, <1>6, <1>7, <1>8 DEF Consume, ConsumerStep

(* The consumer's slots are settled, and it copies from them in order.     *)
THEOREM CopyInvariantHolds ==
  ASSUME OthersAcquire
  PROVE  Spec => []CopyInvariant
<1>1. TypeOK /\ Agreement /\ CopyInvariant /\ [Next]_vars => CopyInvariant'
  <2> SUFFICES ASSUME TypeOK, Agreement, CopyInvariant, [Next]_vars
               PROVE  CopyInvariant'
    OBVIOUS
  <2>1. CASE Next
    BY <2>1, CopyInvariantProducer, CopyInvariantConsumer DEF Next
  <2>2. CASE UNCHANGED vars
    BY <2>2 DEF vars, memory, consumer, CopyInvariant, ReadsSettled, CopiedOut, Settled
  <2>3. QED
    BY <2>1, <2>2
<1>2. QED
  BY <1>1, CopyInvariantInit, TypeCorrect, AgreementHolds, PTL DEF Spec

-----------------------------------------------------------------------------
(* The stored elements as a sequence.                                      *)
ContentsAreStored ==
  /\ Contents \in Seq(Values \cup {Zero})
  /\ Len(Contents) = size
  /\ \A k \in 1 .. size : Contents[k] = buffer_[Advance(pop_index_, k - 1)]

LEMMA ContentsIsSeq == TypeOK => ContentsAreStored
<1> SUFFICES ASSUME TypeOK
             PROVE  ContentsAreStored
  OBVIOUS
<1>1. size \in Nat
  BY SizeIsBounded, BufferSizeAssumption
<1>2. \A k \in 1 .. size : buffer_[Advance(pop_index_, k - 1)] \in Values \cup {Zero}
  BY StoredSlots DEF TypeOK
<1>3. Contents \in Seq(Values \cup {Zero})
  BY <1>1, <1>2, IsASeq DEF Contents
<1>4. QED
  BY <1>1, <1>3 DEF Contents, ContentsAreStored

(* ... also after a step.                                                  *)
LEMMA ContentsIsSeqNext == TypeOK' => ContentsAreStored'
BY ContentsIsSeq, PTL

(* What the consumer has copied out is the front of the queue.             *)
LEMMA CopiedIsFront ==
  ASSUME TypeOK, Agreement, CopyInvariant, c_pc = "copy"
  PROVE  /\ Len(c_out) \in 0 .. size
         /\ c_out = SubSeq(Contents, 1, Len(c_out))
<1>1. /\ Contents \in Seq(Values \cup {Zero})
      /\ Len(Contents) = size
      /\ \A k \in 1 .. size : Contents[k] = buffer_[Advance(pop_index_, k - 1)]
  BY ContentsIsSeq DEF ContentsAreStored
<1>2. /\ c_out \in Seq(Values \cup {Zero})
      /\ Len(c_out) \in 0 .. size
  <2>1. /\ Len(c_out) = Distance(pop_index_, c_index)
        /\ Distance(pop_index_, c_index) + c_todo <= size
    BY DEF CopyInvariant, CopiedOut, Agreement, CallWithinSize
  <2>2. /\ Distance(pop_index_, c_index) \in 0 .. BufferSize - 1
        /\ c_todo \in 0 .. BufferSize
        /\ size \in 0 .. BufferSize - 1
    BY DistanceCounts, SizeIsBounded DEF TypeOK
  <2>3. QED
    BY <2>1, <2>2, BufferSizeAssumption DEF TypeOK
<1>3. \A k \in 1 .. Len(c_out) : c_out[k] = Contents[k]
  <2>1. TAKE k \in 1 .. Len(c_out)
  <2>2. k \in 1 .. size
    BY <1>2, SizeIsBounded
  <2>3. /\ Advance(pop_index_, k - 1) \in Slots
        /\ Distance(pop_index_, Advance(pop_index_, k - 1)) = k - 1
    BY <2>2, StoredSlots
  <2>4. c_out[k - 1 + 1] = buffer_[Advance(pop_index_, k - 1)]
    BY <1>2, <2>3 DEF CopyInvariant, CopiedOut
  <2>5. QED
    BY <1>1, <2>2, <2>4
<1>4. /\ SubSeq(Contents, 1, Len(c_out)) \in Seq(Values \cup {Zero})
      /\ Len(SubSeq(Contents, 1, Len(c_out))) = Len(c_out)
      /\ \A k \in 1 .. Len(c_out) : SubSeq(Contents, 1, Len(c_out))[k] = Contents[k]
  BY <1>1, <1>2
<1>5. QED
  BY <1>2, <1>3, <1>4, SeqEqual

(* What the consumer copies out is the front of the queue, in its order:   *)
(* no stale slot, no element skipped or twice.                             *)
THEOREM CopiesTheQueueAlways ==
  ASSUME OthersAcquire
  PROVE  Spec => []CopiesTheQueue
<1>1. TypeOK /\ Agreement /\ CopyInvariant => CopiesTheQueue
  BY CopiedIsFront DEF CopiesTheQueue
<1>2. QED
  BY <1>1, TypeCorrect, AgreementHolds, CopyInvariantHolds, PTL

-----------------------------------------------------------------------------
(* The call of the producer that is in progress: its elements are those    *)
(* already written behind push_index_, and those still to be copied.       *)
PushInProgress ==
  p_pc = "copy" =>
    /\ verdict.reply = "pending"
    /\ Len(verdict.items) = Distance(push_index_, p_index) + Len(p_todo)
    /\ \A i \in Slots : Distance(push_index_, i) < Distance(push_index_, p_index)
                          => buffer_[i] = verdict.items[Distance(push_index_, i) + 1]
    /\ \A k \in 1 .. Len(p_todo) : p_todo[k] = verdict.items[Distance(push_index_, p_index) + k]

LEMMA PushInProgressStart ==
  ASSUME TypeOK, NEW items \in Seq(Values), StartPush(items), UNCHANGED push_index_
  PROVE  PushInProgress'
<1>1. /\ Distance(push_index_, push_index_) = 0
      /\ \A i \in Slots : Distance(push_index_, i) \in 0 .. BufferSize - 1
  BY DistanceToSelf, DistanceCounts DEF TypeOK
<1>2. /\ p_index' = push_index_ /\ p_todo' = items
      /\ verdict' = [reply |-> "pending", items |-> items]
  BY DEF StartPush
<1>3. QED
  BY <1>1, <1>2 DEF PushInProgress

LEMMA PushInProgressCopyIn ==
  ASSUME TypeOK, Agreement, PushInProgress, CopyIn
  PROVE  PushInProgress'
<1>1. /\ UNCHANGED <<push_index_, p_pc, verdict>>
      /\ p_pc = "copy" /\ p_todo # <<>>
      /\ p_index' = Advance(p_index, 1) /\ p_todo' = Tail(p_todo)
      /\ buffer_'[p_index] = p_todo[1]
      /\ \A i \in Slots : i # p_index => buffer_'[i] = buffer_[i]
  BY DEF CopyIn, TypeOK
<1>2. /\ Len(p_todo) \in Nat \ {0}
      /\ Len(p_todo') = Len(p_todo) - 1
      /\ \A k \in 1 .. Len(p_todo') : p_todo'[k] = p_todo[k + 1]
  BY <1>1 DEF TypeOK
<1>3. /\ Distance(push_index_, p_index) \in 0 .. BufferSize - 1
      /\ size \in 0 .. BufferSize - 1
      /\ Distance(push_index_, p_index) + Len(p_todo) + size <= BufferSize - 1
      /\ \A i \in Slots : Distance(push_index_, i) \in 0 .. BufferSize - 1
  BY <1>1, DistanceCounts, SizeIsBounded DEF Agreement, PushHasRoom, capacity, TypeOK
<1>4. Distance(push_index_, p_index') = Distance(push_index_, p_index) + 1
  BY <1>1, <1>2, <1>3, DistanceGrows, BufferSizeAssumption DEF TypeOK
<1>5. ASSUME NEW i \in Slots, Distance(push_index_, i) < Distance(push_index_, p_index')
      PROVE  buffer_'[i] = verdict.items[Distance(push_index_, i) + 1]
  <2>1. CASE i = p_index
    <3>1. 1 \in 1 .. Len(p_todo)
      BY <1>2
    <3>2. p_todo[1] = verdict.items[Distance(push_index_, p_index) + 1]
      BY <1>1, <3>1 DEF PushInProgress
    <3>3. QED
      BY <1>1, <2>1, <3>2
  <2>2. CASE i # p_index
    <3>1. Distance(push_index_, i) # Distance(push_index_, p_index)
      BY <2>2, AdvanceByDistance DEF TypeOK
    <3>2. Distance(push_index_, i) < Distance(push_index_, p_index)
      BY <1>3, <1>4, <1>5, <3>1
    <3>3. QED
      BY <1>1, <2>2, <3>2 DEF PushInProgress
  <2>3. QED
    BY <2>1, <2>2
<1>6. ASSUME NEW k \in 1 .. Len(p_todo')
      PROVE  p_todo'[k] = verdict.items[Distance(push_index_, p_index') + k]
  <2>1. k + 1 \in 1 .. Len(p_todo)
    BY <1>2
  <2>2. p_todo[k + 1] = verdict.items[Distance(push_index_, p_index) + (k + 1)]
    BY <1>1, <2>1 DEF PushInProgress
  <2>3. Distance(push_index_, p_index) + (k + 1) = Distance(push_index_, p_index') + k
    BY <1>3, <1>4
  <2>4. QED
    BY <1>2, <2>2, <2>3
<1>7. Len(verdict.items) = Distance(push_index_, p_index') + Len(p_todo')
  BY <1>1, <1>2, <1>3, <1>4 DEF PushInProgress
<1>8. QED
  BY <1>1, <1>5, <1>6, <1>7 DEF PushInProgress

LEMMA PushInProgressHolds == Spec => []PushInProgress
<1>1. Init => PushInProgress
  BY DEF Init, PushInProgress
<1>2. TypeOK /\ Agreement /\ PushInProgress /\ [Next]_vars => PushInProgress'
  <2> SUFFICES ASSUME TypeOK, Agreement, PushInProgress, [Next]_vars
               PROVE  PushInProgress'
    OBVIOUS
  <2>1. ASSUME NEW items \in Seq(Values), StartPush(items), UNCHANGED push_index_
        PROVE  PushInProgress'
    BY <2>1, PushInProgressStart
  <2>2. ASSUME UNCHANGED <<push_index_, p_pc, p_index, p_todo, verdict, buffer_>> \/ p_pc' = "idle"
        PROVE  PushInProgress'
    BY <2>2 DEF PushInProgress
  <2>3. ASSUME NEW e \in Values, PushLoad(e)
        PROVE  PushInProgress'
    <3>1. <<e>> \in Seq(Values) /\ UNCHANGED push_index_
      BY <2>3 DEF PushLoad
    <3>2. CASE PushFull
      BY <2>3, <3>2 DEF PushLoad, RefusePush, PushInProgress
    <3>3. CASE ~PushFull
      BY <2>1, <2>3, <3>1, <3>3 DEF PushLoad
    <3>4. QED
      BY <3>2, <3>3
  <2>4. ASSUME NEW items \in Ranges, PushRangeLoad(items)
        PROVE  PushInProgress'
    <3>1. items \in Seq(Values) /\ UNCHANGED push_index_
      BY <2>4 DEF PushRangeLoad, Ranges
    <3>2. CASE available >= Len(items)
      BY <2>1, <2>4, <3>1, <3>2 DEF PushRangeLoad
    <3>3. CASE ~(available >= Len(items))
      BY <2>4, <3>3 DEF PushRangeLoad, RefusePush, PushInProgress
    <3>4. QED
      BY <3>2, <3>3
  <2>5. CASE CopyIn
    BY <2>5, PushInProgressCopyIn
  <2>6. CASE PublishPush
    BY <2>2, <2>6 DEF PublishPush
  <2>7. CASE Query \/ Consume \/ ConsumerStep
    <3>1. UNCHANGED <<push_index_, p_pc, p_index, p_todo, verdict, buffer_>>
      BY <2>7 DEF Query, SizeQuery, EmptyQuery, Consume, PopLoad, PopNLoad, PeekLoad,
                  DiscardLoad, ClearLoad, UncheckedPop, UncheckedSkip, PeekAt, Calls,
                  ConsumerStep, CopyOut, FinishCopy, StorePop, producer, memory
    <3>2. QED
      BY <2>2, <3>1
  <2>8. CASE UNCHANGED vars
    BY <2>2, <2>8 DEF vars, producer, memory
  <2>9. QED
    BY <2>3, <2>4, <2>5, <2>6, <2>7, <2>8 DEF Next, Push, ProducerStep
<1>3. QED
  BY <1>1, <1>2, TypeCorrect, AgreementHolds, PTL DEF Spec

-----------------------------------------------------------------------------
(* A sequence that agrees with the rest of s, or with s and r, is that.    *)
LEMMA RestOfSeq ==
  ASSUME NEW S, NEW s \in Seq(S), NEW t \in Seq(S), NEW d \in 0 .. Len(s),
         Len(t) = Len(s) - d, \A k \in 1 .. Len(t) : t[k] = s[d + k]
  PROVE  t = SubSeq(s, d + 1, Len(s))
<1>1. /\ SubSeq(s, d + 1, Len(s)) \in Seq(S)
      /\ Len(SubSeq(s, d + 1, Len(s))) = Len(t)
      /\ \A k \in 1 .. Len(t) : SubSeq(s, d + 1, Len(s))[k] = s[d + k]
  OBVIOUS
<1>2. QED
  BY <1>1, SeqEqual

LEMMA AppendedSeq ==
  ASSUME NEW S, NEW s \in Seq(S), NEW r \in Seq(S), NEW t \in Seq(S),
         Len(t) = Len(s) + Len(r),
         \A k \in 1 .. Len(s) : t[k] = s[k],
         \A k \in 1 .. Len(r) : t[Len(s) + k] = r[k]
  PROVE  t = s \o r
<1>1. /\ s \o r \in Seq(S)
      /\ Len(s \o r) = Len(t)
      /\ \A k \in 1 .. Len(t) : (s \o r)[k] = IF k <= Len(s) THEN s[k] ELSE r[k - Len(s)]
  BY ConcatProperties
<1>2. \A k \in 1 .. Len(t) : t[k] = (s \o r)[k]
  <2>1. TAKE k \in 1 .. Len(t)
  <2>2. CASE k <= Len(s)
    BY <1>1, <2>2
  <2>3. CASE k > Len(s)
    <3>1. k - Len(s) \in 1 .. Len(r) /\ Len(s) + (k - Len(s)) = k
      BY <2>3
    <3>2. QED
      BY <1>1, <2>3, <3>1
  <2>4. QED
    BY <2>2, <2>3
<1>3. QED
  BY <1>1, <1>2, SeqEqual

(* A step that writes no stored slot and moves no index keeps the queue.   *)
LEMMA QueueKept ==
  ASSUME TypeOK, UNCHANGED <<push_index_, pop_index_>>,
         \A i \in Slots : Distance(pop_index_, i) < size => buffer_'[i] = buffer_[i]
  PROVE  Contents' = Contents
<1>1. size' = size /\ size \in Nat
  BY SizeIsBounded, BufferSizeAssumption DEF size
<1>2. \A k \in 1 .. size : buffer_'[Advance(pop_index_, k - 1)] = buffer_[Advance(pop_index_, k - 1)]
  BY <1>1, StoredSlots
<1>3. QED
  BY <1>1, <1>2 DEF Contents

(* The store of pop_index_ takes the oldest elements off the queue.        *)
LEMMA QueueLosesFront ==
  ASSUME TypeOK, TypeOK', UNCHANGED <<buffer_, push_index_>>,
         pop_index_' = c_index, Distance(pop_index_, c_index) <= size
  PROVE  Contents' = SubSeq(Contents, Distance(pop_index_, c_index) + 1, Len(Contents))
<1> DEFINE gone == Distance(pop_index_, c_index)
<1>1. /\ gone \in 0 .. BufferSize - 1
      /\ size \in 0 .. BufferSize - 1
      /\ size' = size - gone
  BY DistanceCounts, DistanceSubtracts, SizeIsBounded DEF TypeOK, size
<1>2. /\ Contents \in Seq(Values \cup {Zero})
      /\ Len(Contents) = size
      /\ \A k \in 1 .. size : Contents[k] = buffer_[Advance(pop_index_, k - 1)]
      /\ Contents' \in Seq(Values \cup {Zero})
      /\ Len(Contents') = size'
      /\ \A k \in 1 .. size' : Contents'[k] = buffer_[Advance(c_index, k - 1)]
  BY ContentsIsSeq, ContentsIsSeqNext DEF ContentsAreStored
<1>3. \A k \in 1 .. size' : Advance(c_index, k - 1) = Advance(pop_index_, gone + k - 1)
  <2>1. TAKE k \in 1 .. size'
  <2>2. k - 1 \in 0 .. BufferSize - 1 /\ gone + (k - 1) \in 0 .. BufferSize - 1
    BY <1>1, BufferSizeAssumption
  <2>3. /\ Advance(c_index, k - 1) \in Slots
        /\ Distance(c_index, Advance(c_index, k - 1)) = k - 1
    BY <2>2, AdvanceWraps, DistanceOfAdvance, BufferSizeAssumption DEF TypeOK
  <2>4. Distance(pop_index_, Advance(c_index, k - 1)) = gone + (k - 1)
    BY <2>2, <2>3, DistanceAdds DEF TypeOK
  <2>5. QED
    BY <1>1, <2>3, <2>4, AdvanceByDistance DEF TypeOK
<1>4. \A k \in 1 .. size' : Contents'[k] = Contents[gone + k]
  <2>1. TAKE k \in 1 .. size'
  <2>2. gone + k \in 1 .. size
    BY <1>1
  <2>3. Contents[gone + k] = buffer_[Advance(pop_index_, gone + k - 1)]
    BY <1>1, <1>2, <2>2
  <2>4. Contents'[k] = buffer_[Advance(c_index, k - 1)]
    BY <1>2
  <2>5. QED
    BY <1>3, <2>3, <2>4
<1>5. gone \in 0 .. Len(Contents) /\ Len(Contents') = Len(Contents) - gone
  BY <1>1, <1>2
<1>6. QED
  BY <1>2, <1>4, <1>5, RestOfSeq

(* The store of push_index_ appends the elements of the push.              *)
LEMMA QueueGrows ==
  ASSUME TypeOK, TypeOK', Agreement, PushInProgress, PublishPush
  PROVE  /\ Len(Contents) + Len(verdict.items) <= capacity
         /\ Contents' = Contents \o verdict.items
<1> DEFINE new == Distance(push_index_, p_index)
<1>1. /\ UNCHANGED <<buffer_, pop_index_>>
      /\ p_pc = "copy" /\ p_todo = <<>> /\ push_index_' = p_index
      /\ verdict.items \in Seq(Values)
  BY DEF PublishPush, memory, TypeOK, Verdicts
<1>2. /\ new \in 0 .. BufferSize - 1
      /\ size \in 0 .. BufferSize - 1
      /\ new + size <= BufferSize - 1
      /\ Len(verdict.items) = new
  <2>1. /\ new \in 0 .. BufferSize - 1
        /\ size \in 0 .. BufferSize - 1
    BY DistanceCounts, SizeIsBounded DEF TypeOK
  <2>2. Len(p_todo) = 0
    BY <1>1
  <2>3. new + Len(p_todo) + size <= BufferSize - 1
    BY <1>1 DEF Agreement, PushHasRoom, capacity
  <2>4. Len(verdict.items) = new + Len(p_todo)
    BY <1>1 DEF PushInProgress
  <2>5. QED
    BY <2>1, <2>2, <2>3, <2>4
<1>3. size' = size + new
  BY <1>1, <1>2, DistanceAdds, BufferSizeAssumption DEF size, TypeOK
<1>4. /\ Contents \in Seq(Values \cup {Zero})
      /\ Len(Contents) = size
      /\ \A k \in 1 .. size : Contents[k] = buffer_[Advance(pop_index_, k - 1)]
      /\ Contents' \in Seq(Values \cup {Zero})
      /\ Len(Contents') = size'
      /\ \A k \in 1 .. size' : Contents'[k] = buffer_[Advance(pop_index_, k - 1)]
  BY <1>1, ContentsIsSeq, ContentsIsSeqNext DEF ContentsAreStored
<1>5. \A k \in 1 .. new : buffer_[Advance(pop_index_, size + k - 1)] = verdict.items[k]
  <2>1. TAKE k \in 1 .. new
  <2>2. /\ k - 1 \in 0 .. BufferSize - 1
        /\ size + (k - 1) <= BufferSize - 1
        /\ Distance(pop_index_, push_index_) = size
    BY <1>2, BufferSizeAssumption DEF size
  <2>3. /\ Advance(push_index_, k - 1) \in Slots
        /\ Distance(push_index_, Advance(push_index_, k - 1)) = k - 1
    BY <2>2, AdvanceWraps, DistanceOfAdvance, BufferSizeAssumption DEF TypeOK
  <2>4. Distance(pop_index_, Advance(push_index_, k - 1)) = size + (k - 1)
    BY <2>2, <2>3, DistanceAdds DEF TypeOK
  <2>5. Advance(pop_index_, size + (k - 1)) = Advance(push_index_, k - 1)
    BY <2>3, <2>4, AdvanceByDistance DEF TypeOK
  <2>6. buffer_[Advance(push_index_, k - 1)] = verdict.items[k - 1 + 1]
    BY <1>1, <1>2, <2>3 DEF PushInProgress
  <2>7. QED
    BY <1>2, <2>5, <2>6
<1>6. verdict.items \in Seq(Values \cup {Zero})
  BY <1>1, SeqMonotonic
<1>7. /\ Len(Contents') = Len(Contents) + Len(verdict.items)
      /\ \A k \in 1 .. Len(Contents) : Contents'[k] = Contents[k]
      /\ \A k \in 1 .. Len(verdict.items) : Contents'[Len(Contents) + k] = verdict.items[k]
  <2>1. Len(Contents') = Len(Contents) + Len(verdict.items)
    BY <1>2, <1>3, <1>4
  <2>2. \A k \in 1 .. Len(Contents) : Contents'[k] = Contents[k]
    <3>1. TAKE k \in 1 .. Len(Contents)
    <3>2. k \in 1 .. size /\ k \in 1 .. size'
      BY <1>2, <1>3, <1>4
    <3>3. QED
      BY <1>4, <3>2
  <2>3. \A k \in 1 .. new : size + k \in 1 .. size' /\ size + k - 1 = (size + k) - 1
    BY <1>2, <1>3
  <2>4. \A k \in 1 .. new : Contents'[size + k] = verdict.items[k]
    BY <1>4, <1>5, <2>3
  <2>5. QED
    BY <1>2, <1>4, <2>1, <2>2, <2>4
<1>8. Contents' = Contents \o verdict.items
  BY <1>4, <1>6, <1>7, AppendedSeq
<1>9. QED
  BY <1>2, <1>4, <1>8, BufferSizeAssumption DEF capacity

-----------------------------------------------------------------------------
(* What a caller of the ring sees, as the abstract queue has it.           *)
FifoVars == <<Contents, verdict, answer>>

LEMMA PushIsAskOrRefuse ==
  ASSUME TypeOK, Push
  PROVE  Fifo!Next
<1>1. /\ Contents' = Contents /\ UNCHANGED answer
      /\ Len(Contents) = size
      /\ size \in 0 .. BufferSize - 1
  <2>1. UNCHANGED <<buffer_, push_index_, pop_index_, answer>>
    BY DEF Push, PushLoad, PushRangeLoad, memory, consumer
  <2>2. QED
    BY <2>1, QueueKept, ContentsIsSeq, SizeIsBounded DEF ContentsAreStored
<1>2. ASSUME NEW n \in 0 .. capacity, NEW items \in [1 .. n -> Values], StartPush(items)
      PROVE  Fifo!Next
  <2>1. Fifo!Ask(items)
    BY <1>1, <1>2 DEF StartPush, Fifo!Ask
  <2>2. QED
    BY <2>1 DEF Fifo!Next
<1>3. ASSUME NEW n \in 1 .. BufferSize, size + n > capacity, RefusePush
      PROVE  Fifo!Next
  <2>1. Fifo!Refuse(n)
    BY <1>1, <1>3 DEF RefusePush, Fifo!Refuse
  <2>2. n \in 1 .. capacity + 1
    BY BufferSizeAssumption DEF capacity
  <2>3. QED
    BY <2>1, <2>2 DEF Fifo!Next
<1>4. ASSUME NEW e \in Values, PushLoad(e)
      PROVE  Fifo!Next
  <2>1. CASE PushFull
    <3>1. size + 1 > capacity /\ 1 \in 1 .. BufferSize
      BY <1>1, <2>1, FullMeansCapacity, BufferSizeAssumption
    <3>2. QED
      BY <1>3, <1>4, <2>1, <3>1 DEF PushLoad
  <2>2. CASE ~PushFull
    <3>1. 1 \in 0 .. capacity
      BY <1>1, <2>2, FullMeansCapacity, BufferSizeAssumption DEF capacity
    <3>2. <<e>> \in [1 .. 1 -> Values]
      OBVIOUS
    <3>3. QED
      BY <1>2, <1>4, <2>2, <3>1, <3>2 DEF PushLoad
  <2>3. QED
    BY <2>1, <2>2
<1>5. ASSUME NEW n \in 0 .. BufferSize, NEW items \in [1 .. n -> Values], PushRangeLoad(items)
      PROVE  Fifo!Next
  <2>1. Len(items) = n /\ available = capacity - size
    BY AvailableIsRest
  <2>2. CASE available >= Len(items)
    <3>1. n \in 0 .. capacity
      BY <1>1, <2>1, <2>2, BufferSizeAssumption DEF capacity
    <3>2. QED
      BY <1>2, <1>5, <2>2, <3>1 DEF PushRangeLoad
  <2>3. CASE ~(available >= Len(items))
    <3>1. size + n > capacity /\ n \in 1 .. BufferSize
      BY <1>1, <2>1, <2>3, BufferSizeAssumption DEF capacity
    <3>2. QED
      BY <1>3, <1>5, <2>3, <3>1 DEF PushRangeLoad
  <2>4. QED
    BY <2>2, <2>3
<1>6. QED
  BY <1>4, <1>5 DEF Push, Ranges

LEMMA PublishIsAccept ==
  ASSUME TypeOK, TypeOK', Agreement, PushInProgress, PublishPush
  PROVE  Fifo!Accept
<1>1. /\ Len(Contents) + Len(verdict.items) <= capacity
      /\ Contents' = Contents \o verdict.items
  BY QueueGrows
<1>2. /\ verdict.reply = "pending"
      /\ verdict' = [reply |-> "accepted", items |-> <<>>]
      /\ UNCHANGED answer
  BY DEF PublishPush, PushInProgress, consumer
<1>3. QED
  BY <1>1, <1>2 DEF Fifo!Accept

(* Loads and copies of the consumer change nothing a caller can see, but   *)
(* for the checked pop that finds the queue empty.                         *)
LEMMA LoadIsNothing ==
  ASSUME TypeOK, Query \/ Consume \/ CopyOut
  PROVE  Fifo!Nothing \/ UNCHANGED FifoVars
<1>1. UNCHANGED <<buffer_, push_index_, pop_index_, verdict>>
  BY DEF Query, SizeQuery, EmptyQuery, Consume, PopLoad, PopNLoad, PeekLoad, DiscardLoad,
         ClearLoad, UncheckedPop, UncheckedSkip, PeekAt, Calls, CopyOut, StartCopy,
         StartStore, producer
<1>2. Contents' = Contents
  BY <1>1, QueueKept
<1>3. CASE UNCHANGED answer
  BY <1>1, <1>2, <1>3 DEF FifoVars
<1>4. CASE answer' # answer
  <2>1. PopLoad
    BY <1>4 DEF Query, SizeQuery, EmptyQuery, Consume, PopNLoad, PeekLoad, DiscardLoad,
                ClearLoad, UncheckedPop, UncheckedSkip, PeekAt, CopyOut, StartCopy, StartStore
  <2>2. pop_index_ = push_index_ /\ answer' = [call |-> "empty", items |-> <<>>]
    BY <1>4, <2>1 DEF PopLoad, StartCopy
  <2>3. Contents = <<>>
    <3>1. Contents \in Seq(Values \cup {Zero}) /\ Len(Contents) = 0
      BY <2>2, ContentsIsSeq, DistanceToSelf DEF ContentsAreStored, size, TypeOK
    <3>2. QED
      BY <3>1, EmptySeq
  <2>4. QED
    BY <1>1, <1>2, <2>2, <2>3 DEF Fifo!Nothing
<1>5. QED
  BY <1>3, <1>4

(* The end of a call hands out the oldest elements, or drops them.         *)
LEMMA FinishIsTakeLookOrDrop ==
  ASSUME TypeOK, TypeOK', Agreement, CopyInvariant, FinishCopy \/ StorePop
  PROVE  Fifo!Next
<1>1. /\ UNCHANGED <<buffer_, push_index_, verdict>>
      /\ Contents \in Seq(Values \cup {Zero})
      /\ Len(Contents) = size
      /\ size \in 0 .. BufferSize - 1
      /\ Distance(pop_index_, c_index) \in 0 .. BufferSize - 1
  BY ContentsIsSeq, SizeIsBounded, DistanceCounts
     DEF ContentsAreStored, FinishCopy, StorePop, memory, producer, TypeOK
<1>2. CASE FinishCopy
  <2>1. /\ c_pc = "copy"
        /\ answer' = [call |-> c_call, items |-> c_out]
        /\ IF c_call = "pop" THEN pop_index_' = c_index ELSE UNCHANGED pop_index_
    BY <1>2 DEF FinishCopy
  <2>2. /\ Len(c_out) \in 0 .. Len(Contents)
        /\ c_out = Fifo!Front(Len(c_out))
        /\ Len(c_out) = Distance(pop_index_, c_index)
        /\ c_call \in {"pop", "peek"}
    BY <1>1, <2>1, CopiedIsFront DEF CopyInvariant, CopiedOut, Fifo!Front
  <2>3. CASE c_call = "pop"
    <3>1. Contents' = Fifo!Rest(Len(c_out))
      BY <1>1, <2>1, <2>2, <2>3, QueueLosesFront DEF Fifo!Rest
    <3>2. Fifo!Take(Len(c_out))
      BY <1>1, <2>1, <2>2, <2>3, <3>1 DEF Fifo!Take
    <3>3. QED
      BY <2>2, <3>2 DEF Fifo!Next
  <2>4. CASE c_call = "peek"
    <3>1. Contents' = Contents
      BY <1>1, <2>1, <2>4, QueueKept
    <3>2. Fifo!Look(Len(c_out))
      BY <1>1, <2>1, <2>2, <2>4, <3>1 DEF Fifo!Look
    <3>3. QED
      BY <2>2, <3>2 DEF Fifo!Next
  <2>5. QED
    BY <2>2, <2>3, <2>4
<1>3. CASE StorePop
  <2>1. /\ c_pc = "store"
        /\ answer' = [call |-> "drop", items |-> <<>>]
        /\ pop_index_' = c_index
    BY <1>3 DEF StorePop
  <2>2. Distance(pop_index_, c_index) \in 0 .. Len(Contents)
    BY <1>1, <2>1 DEF Agreement, CallWithinSize
  <2>3. Contents' = Fifo!Rest(Distance(pop_index_, c_index))
    BY <1>1, <2>1, <2>2, QueueLosesFront DEF Fifo!Rest
  <2>4. Fifo!Drop(Distance(pop_index_, c_index))
    BY <1>1, <2>1, <2>3 DEF Fifo!Drop
  <2>5. QED
    BY <2>2, <2>4 DEF Fifo!Next
<1>4. QED
  BY <1>2, <1>3

(* The ring is a bounded first-in first-out queue: pushes are accepted     *)
(* whole or refused for want of room, and what is taken, shown or dropped  *)
(* is the oldest of what was stored.                                       *)
THEOREM ImplementsFifo ==
  ASSUME OthersAcquire
  PROVE  Spec => Fifo!Spec
<1>1. Init => Fifo!Init
  <2> SUFFICES ASSUME Init
               PROVE  Fifo!Init
    OBVIOUS
  <2>1. size = 0
    BY DistanceToSelf, BufferSizeAssumption DEF Init, size, Slots
  <2>2. Contents = <<>>
    BY <2>1 DEF Contents
  <2>3. QED
    BY <2>2 DEF Init, Fifo!Init
<1>2. TypeOK /\ TypeOK' /\ Agreement /\ CopyInvariant /\ PushInProgress /\ [Next]_vars
        => [Fifo!Next]_FifoVars
  <2> SUFFICES ASSUME TypeOK, TypeOK', Agreement, CopyInvariant, PushInProgress, [Next]_vars
               PROVE  Fifo!Next \/ UNCHANGED FifoVars
    OBVIOUS
  <2>1. CASE Push
    BY <2>1, PushIsAskOrRefuse
  <2>2. CASE CopyIn
    <3>1. /\ UNCHANGED <<push_index_, pop_index_, verdict, answer>>
          /\ p_pc = "copy"
          /\ \A i \in Slots : i # p_index => buffer_'[i] = buffer_[i]
      BY <2>2 DEF CopyIn, consumer, TypeOK
    <3>2. /\ Distance(pop_index_, p_index) = size + Distance(push_index_, p_index)
          /\ Distance(push_index_, p_index) \in 0 .. BufferSize - 1
          /\ size \in 0 .. BufferSize - 1
      <4>1. p_index \in Slots /\ Distance(push_index_, p_index) \in 0 .. BufferSize - 1
        BY DistanceCounts DEF TypeOK
      <4>2. QED
        BY <3>1, <4>1, BeyondTheStored, SizeIsBounded DEF Agreement
    <3>3. \A i \in Slots : Distance(pop_index_, i) < size => buffer_'[i] = buffer_[i]
      BY <3>1, <3>2
    <3>4. QED
      BY <3>1, <3>3, QueueKept DEF FifoVars
  <2>3. CASE PublishPush
    BY <2>3, PublishIsAccept DEF Fifo!Next
  <2>4. CASE Query \/ Consume \/ CopyOut
    BY <2>4, LoadIsNothing DEF Fifo!Next
  <2>5. CASE FinishCopy \/ StorePop
    BY <2>5, FinishIsTakeLookOrDrop
  <2>6. CASE UNCHANGED vars
    <3>1. UNCHANGED <<buffer_, push_index_, pop_index_, verdict, answer>>
      BY <2>6 DEF vars, memory, producer, consumer
    <3>2. QED
      BY <3>1, QueueKept DEF FifoVars
  <2>7. QED
    BY <2>1, <2>2, <2>3, <2>4, <2>5, <2>6 DEF Next, ProducerStep, ConsumerStep
<1>3. QED
  BY <1>1, <1>2, TypeCorrect, AgreementHolds, CopyInvariantHolds, PushInProgressHolds, PTL
     DEF Spec, Fifo!Spec, Fifo!vars, FifoVars

============================================================================

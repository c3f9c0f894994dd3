-------------------------- MODULE AxiDataCapture ---------------------------
(***************************************************************************)
(* smart/hw/AxiDataCapture.cpp: the driver of a capture IP core, which     *)
(* writes samples into a ring buffer by DMA while the program reads them.  *)
(*                                                                         *)
(* The core is modelled from the registers the driver uses: it moves a     *)
(* burst whenever it is triggered, at any time between two register        *)
(* accesses of the driver, and between any two reads of the buffer.  The   *)
(* units of a capture are numbered from 1; a unit of the buffer holds the  *)
(* number of what it was given in the present capture, and 0 for anything  *)
(* older.                                                                  *)
(*                                                                         *)
(* Register accesses made while the core is off are one step.              *)
(*                                                                         *)
(* The buffer may be memory that is not coherent with the processor's      *)
(* cache: there a unit that was read once is read from the cache until     *)
(* syncBufferForCpu drops it.  The driver does not call it; a program may  *)
(* call it every time before it fetches a packet (syncs).                  *)
(***************************************************************************)
EXTENDS Integers, Sequences

CONSTANTS
  BufferSize,     \* m_buffer_size, in units
  BurstSize,      \* units the core moves at once
  PacketSize,     \* packet_size, in units
  SampleSize,     \* units of one sample of all channels
  TransferSizes,  \* units asked for by captures that are not streaming
  CountRange,     \* values of the register BLOCKS_TRANSFERRED, which wraps
  MaxCaptured     \* bound: units moved in one capture

(* What a transfer of the given size is cut to: whole samples.  One of less *)
(* than a sample is cut to 0, which is streaming.                          *)
WholeSamples(size) == (size \div SampleSize) * SampleSize

ASSUME SizesAssumption ==
  /\ BurstSize \in Nat \ {0} /\ PacketSize \in Nat \ {0} /\ MaxCaptured \in Nat
  /\ CountRange \in Nat /\ CountRange > 1
  /\ BufferSize \in Nat \ {0} /\ BufferSize % BurstSize = 0
  /\ PacketSize < BufferSize
  /\ SampleSize \in Nat \ {0}
  /\ TransferSizes \subseteq Nat \ {0}

VARIABLES
  buffer,      \* the DMA buffer
  head,        \* CURRENT_ADDRESS, from the start of the buffer
  control,     \* CONTROL: "off", "hold" or "trigger"
  transfer,    \* BLOCKS_PER_TRANSFER: 0 is streaming
  block,       \* units of the buffer that BLOCKS_PER_TRANSFER counts as one
  finished,    \* BLOCKS_TRANSFERRED: transfers that came to their end
  captured,    \* units moved since the trigger
  coherent,    \* is the buffer coherent with the cache?
  syncs,       \* assumption: does the program call syncBufferForCpu, if it is not?
  cached,      \* what the cache holds of the buffer, if it is not
  m_offset_tail, m_last_transfer_count,
  pc,          \* the driver's next step
  from,        \* where the packet being read begins
  packet,      \* what the program has read of it
  answer,      \* outcome of the last call: "none", "packet", "null", "busy" or "done"
  taken,       \* history: number of the last unit the program has read
  overrun,     \* history: was a unit overwritten before the program had read it?
  keeps_up     \* assumption: is the program fast enough to prevent that?

core == <<buffer, head, control, transfer, block, finished, captured>>
given == <<coherent, syncs>>
driver == <<cached, m_offset_tail, m_last_transfer_count, pc, from, packet, answer>>
history == <<taken, overrun, keeps_up>>
captureVars == <<core, given, driver, history>>

Positions == 0 .. BufferSize - 1

Nowhere == [i \in {} |-> 0]

Streaming == control = "trigger" /\ transfer = 0

CaptureInit ==
  /\ buffer = [i \in Positions |-> 0]
  /\ head = 0 /\ control = "off" /\ transfer = 0 /\ block = 1
  /\ finished = 0 /\ captured = 0
  /\ coherent = TRUE /\ syncs = TRUE /\ cached = Nowhere
  /\ m_offset_tail = 0 /\ m_last_transfer_count = 0
  /\ pc = "none" /\ from = 0 /\ packet = <<>> /\ answer = "none"
  /\ taken = 0 /\ overrun = FALSE
  /\ keeps_up = FALSE

-----------------------------------------------------------------------------
(* The core moves a burst, until a transfer has come to its end. *)
MoveBurst ==
  /\ control = "trigger"
  /\ transfer = 0 \/ captured < transfer * block
  /\ captured + BurstSize <= MaxCaptured
  /\ (keeps_up /\ Streaming) => captured + BurstSize - taken < BufferSize
  /\ buffer' = [i \in Positions |->
                  LET k == (i - head) % BufferSize
                  IN  IF k < BurstSize THEN captured + k + 1 ELSE buffer[i]]
  /\ head' = (head + BurstSize) % BufferSize
  /\ captured' = captured + BurstSize
  /\ finished' = IF transfer > 0 /\ captured' >= transfer * block THEN (finished + 1) % CountRange
                 ELSE finished
  /\ overrun' = (overrun \/ captured' - taken > BufferSize)
  /\ UNCHANGED <<control, transfer, block, given, driver, taken, keeps_up>>

-----------------------------------------------------------------------------
(* The core as the program finds it: where the last capture ended, or      *)
(* still streaming after a program that was killed.                        *)
FindCore ==
  /\ pc = "none"
  /\ head' \in {n \in Positions : n % BurstSize = 0}
  /\ finished' \in 0 .. CountRange - 1
  /\ control' \in {"off", "trigger"}
  /\ keeps_up' \in BOOLEAN
  /\ pc' = "construct"
  /\ UNCHANGED <<buffer, transfer, block, captured, cached, m_offset_tail, m_last_transfer_count,
                 from, packet, answer, taken, overrun>>

(* The body of the constructor: a transfer of block_count blocks. *)
Construct ==
  /\ pc = "construct"
  /\ control' = "off"
  /\ transfer' = BufferSize \div BurstSize
  /\ m_last_transfer_count' = finished
  /\ buffer' = [i \in Positions |-> 0]
  /\ captured' = 0 /\ overrun' = FALSE
  /\ pc' = "idle"
  /\ UNCHANGED <<head, block, finished, given, cached, m_offset_tail, from, packet, answer, taken, keeps_up>>

(* Faulty: the count of transfers is not recorded before the capture. *)
RecordedNever(size) == m_last_transfer_count

(* Recorded(size) is m_last_transfer_count after startCapture(size). *)
Recorded(size) == IF size = 0 THEN m_last_transfer_count ELSE finished

(* startCapture up to the trigger: a transfer of so many bytes.  Whether   *)
(* the core counts the register in blocks, as the constructor writes it,   *)
(* or in bytes, the driver does not tell.                                  *)
startCapture(size) ==
  /\ pc = "idle"
  /\ control' = IF size = 0 THEN "off" ELSE "hold"
  /\ transfer' = WholeSamples(size)
  /\ block' \in IF transfer' = 0 THEN {1} ELSE {1, BurstSize}
  /\ m_last_transfer_count' = Recorded(size)
  /\ pc' = "trigger"
  /\ answer' = "none" /\ packet' = <<>>
  /\ UNCHANGED <<buffer, head, finished, captured, given, cached, m_offset_tail, from, history>>

(* The capture begins at the start of the buffer or goes on from where the *)
(* last one ended: the driver relies on neither.                           *)
Trigger ==
  /\ pc = "trigger"
  /\ control' = "trigger"
  /\ head' \in {head, 0}
  /\ buffer' = [i \in Positions |-> 0]
  /\ cached' = [i \in DOMAIN cached |-> 0]
  /\ captured' = 0 /\ taken' = 0 /\ overrun' = FALSE
  /\ pc' = "read_tail"
  /\ UNCHANGED <<transfer, block, finished, given, m_offset_tail, m_last_transfer_count,
                 from, packet, answer, keeps_up>>

(* What the core moved before the tail is read is skipped. *)
ReadTail ==
  /\ pc = "read_tail"
  /\ m_offset_tail' = head
  /\ taken' = captured /\ overrun' = FALSE
  /\ pc' = "idle"
  /\ UNCHANGED <<core, given, cached, m_last_transfer_count, from, packet, answer, keeps_up>>

(* Faulty: a packet takes one unit more than it has. *)
EnoughButOne(available) == available > PacketSize

Enough(available) == available >= PacketSize

(* Where the tail is after a packet that does not wrap. *)
NextTail(tail) == (tail + PacketSize) % BufferSize

(* Faulty: only the part behind the tail is dropped from the cache. *)
syncBufferFromTail ==
  /\ pc = "idle" /\ Streaming /\ ~coherent /\ syncs
  /\ pc' = "synced"
  /\ cached' = [i \in DOMAIN cached \cap 0 .. m_offset_tail - 1 |-> cached[i]]
  /\ UNCHANGED <<core, given, m_offset_tail, m_last_transfer_count, from, packet, answer, history>>

(* UioDevice::syncBufferForCpu, of the whole buffer: a packet is fetched next. *)
syncBufferForCpu ==
  /\ pc = "idle" /\ Streaming /\ ~coherent /\ syncs
  /\ pc' = "synced"
  /\ cached' = Nowhere
  /\ UNCHANGED <<core, given, m_offset_tail, m_last_transfer_count, from, packet, answer, history>>

(* fetchPacket: one look at the head.  A packet that does not wrap is      *)
(* handed out in place, the tail moving on at once.                        *)
fetchPacket ==
  LET split == head < m_offset_tail
      available == IF split THEN head + BufferSize - m_offset_tail ELSE head - m_offset_tail
  IN  /\ pc = (IF ~coherent /\ syncs THEN "synced" ELSE "idle") /\ Streaming
      /\ packet' = <<>>
      /\ from' = m_offset_tail
      /\ IF Enough(available)
         THEN /\ pc' = "read" /\ answer' = "packet"
              /\ m_offset_tail' =
                   IF m_offset_tail + PacketSize <= BufferSize
                   THEN NextTail(m_offset_tail) ELSE m_offset_tail
         ELSE /\ pc' = "idle" /\ answer' = "null"
              /\ UNCHANGED m_offset_tail
      /\ UNCHANGED <<core, given, cached, m_last_transfer_count, history>>

(* Faulty: after a packet that wraps the tail is the start of the buffer. *)
WrappedToStart(tail) == 0

(* Where the tail is after a packet that wraps. *)
Wrapped(tail) == tail + PacketSize - BufferSize

(* The next unit of the packet, read in place by the program or copied by  *)
(* fetchPacket, which then moves the tail.                                 *)
ReadUnit ==
  /\ pc = "read"
  /\ LET i == (from + Len(packet)) % BufferSize
         unit == IF i \in DOMAIN cached THEN cached[i] ELSE buffer[i]
     IN  /\ packet' = Append(packet, unit)
         /\ cached' = IF coherent THEN cached
                      ELSE [k \in DOMAIN cached \cup {i} |-> IF k = i THEN unit ELSE cached[k]]
  /\ taken' = taken + 1
  /\ pc' = IF Len(packet') = PacketSize THEN "idle" ELSE "read"
  /\ m_offset_tail' = IF Len(packet') = PacketSize /\ from + PacketSize > BufferSize
                      THEN Wrapped(from) ELSE m_offset_tail
  /\ UNCHANGED <<core, given, m_last_transfer_count, from, answer, overrun, keeps_up>>

(* Faulty: a count that is lower than the one recorded is not a new one. *)
isCaptureInProgressByOrder ==
  /\ pc = "idle"
  /\ packet' = <<>>
  /\ IF finished <= m_last_transfer_count
     THEN pc' = "read_control" /\ answer' = "none" /\ UNCHANGED control
     ELSE /\ control' = IF transfer > 0 THEN "off" ELSE control
          /\ answer' = "done"
          /\ UNCHANGED pc
  /\ UNCHANGED <<buffer, head, transfer, block, finished, captured, given, cached,
                 m_offset_tail, m_last_transfer_count, from, history>>

(* isCaptureInProgress looks at the count of transfers ... *)
isCaptureInProgress ==
  /\ pc = "idle"
  /\ packet' = <<>>
  /\ IF finished = m_last_transfer_count
     THEN pc' = "read_control" /\ answer' = "none" /\ UNCHANGED control
     ELSE /\ control' = IF transfer > 0 THEN "off" ELSE control
          /\ answer' = "done"
          /\ UNCHANGED pc
  /\ UNCHANGED <<buffer, head, transfer, block, finished, captured, given, cached,
                 m_offset_tail, m_last_transfer_count, from, history>>

(* ... and then at the trigger. *)
ReadControl ==
  /\ pc = "read_control"
  /\ answer' = IF control = "trigger" THEN "busy" ELSE "done"
  /\ pc' = "idle"
  /\ UNCHANGED <<core, given, cached, m_offset_tail, m_last_transfer_count, from, packet, history>>

stopCapture ==
  /\ pc = "idle"
  /\ control' = "off"
  /\ m_offset_tail' = 0
  /\ answer' = "none" /\ packet' = <<>>
  /\ UNCHANGED <<buffer, head, transfer, block, finished, captured, given, cached,
                 m_last_transfer_count, pc, from, history>>

(* Programs clear the buffer of a core that is stopped. *)
clearBuffer ==
  /\ pc = "idle" /\ control = "off"
  /\ buffer' = [i \in Positions |-> 0]
  /\ cached' = IF coherent THEN Nowhere ELSE buffer'
  /\ answer' = "none" /\ packet' = <<>>
  /\ UNCHANGED <<head, control, transfer, block, finished, captured, given, m_offset_tail,
                 m_last_transfer_count, pc, from, history>>

(* ~AxiDataCapture, when the program is done or has thrown out of its use  *)
(* of a packet.  What else the core and the program hold does not matter   *)
(* any more, and is forgotten.                                             *)
Destruct ==
  /\ pc \in {"idle", "read"}
  /\ control' = "off"
  /\ buffer' = [i \in Positions |-> 0] /\ cached' = Nowhere
  /\ head' = 0 /\ transfer' = 0 /\ block' = 1 /\ finished' = 0 /\ captured' = 0
  /\ m_offset_tail' = 0 /\ m_last_transfer_count' = 0
  /\ pc' = "none" /\ from' = 0 /\ packet' = <<>> /\ answer' = "none"
  /\ taken' = 0 /\ overrun' = FALSE /\ keeps_up' = FALSE
  /\ coherent' = TRUE /\ syncs' = TRUE

Call ==
  \/ \E size \in TransferSizes \cup {0} : startCapture(size)
  \/ fetchPacket \/ isCaptureInProgress
  \/ stopCapture \/ clearBuffer

(* Steps of a call in progress. *)
Within == Trigger \/ ReadTail \/ ReadUnit \/ ReadControl

-----------------------------------------------------------------------------
(* While the program streams, the distance from tail to head is what has   *)
(* been captured and not read, modulo the size of the buffer.              *)
TailIsNext ==
  (Streaming /\ pc = "idle") =>
    (head - m_offset_tail) % BufferSize = (captured - taken) % BufferSize

(* A packet is the next PacketSize units of the capture, in order and none *)
(* of them from an earlier lap, unless the core has overwritten a unit the *)
(* program had not read, or the program reads from a cache it never drops: *)
(* also when the packet wraps, and although the core goes on writing while *)
(* a packet is read in place.                                              *)
PacketIsNext ==
  (~overrun /\ (coherent \/ syncs)) => \A i \in DOMAIN packet : packet[i] = taken - Len(packet) + i

(* isCaptureInProgress says of a running transfer that it is done only     *)
(* when all the samples that were asked for have been moved, in whichever  *)
(* unit the core counts, and whatever was captured before.                 *)
DoneMeansMoved ==
  [][(answer' = "done" /\ answer # "done" /\ control = "trigger" /\ transfer > 0)
       => captured >= transfer]_captureVars

(* A transfer comes to its end, and a program that asks for it is told so, *)
(* also when the count of transfers wraps: isCaptureInProgress then stops  *)
(* the core.                                                               *)
TransfersEnd == (control = "trigger" /\ transfer > 0) ~> control # "trigger"

(* A packet that is captured gets fetched, when the program keeps up.      *)
PacketsAreFetched ==
  (keeps_up /\ Streaming /\ pc = "idle" /\ captured - taken >= PacketSize)
    ~> (pc = "read" \/ ~Streaming)

============================================================================

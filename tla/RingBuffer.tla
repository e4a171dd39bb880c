----------------------------- MODULE RingBuffer -----------------------------
(***************************************************************************)
(* exg-ringbuffer: the single-producer single-consumer ring between the    *)
(* HTTP handlers and the matching thread (crates/exg-ringbuffer).          *)
(*                                                                         *)
(* Every access to memory the two threads share is a step of its own: the  *)
(* loads of the cursors, the write of a slot's length header, the write of *)
(* its payload, the release store that publishes, and the mirror image on  *)
(* the consumer's side.  Each cursor has one writer and is stored with     *)
(* release and loaded with acquire by the other thread, so the steps       *)
(* interleave as if memory were sequentially consistent provided no two    *)
(* slot copies overlap, and that proviso is NoSlotRace.                    *)
(***************************************************************************)
EXTENDS Integers, Sequences

CONSTANTS
    Messages,       \* payloads that fit a slot
    NoMsg,          \* what an unwritten slot holds
    SlotCount,      \* slots of the ring, a power of two (RingBuffer::new)
    Wrap,           \* the cursors count modulo Wrap (2^64 in the code)
    Batches,        \* what the producer may hand to try_push_batch
    MaxMessages     \* bound: messages ever published

\* new() admits powers of two only, and 2^64 is a multiple of each of them.
ASSUME SlotsAssumption ==
    /\ SlotCount \in Nat \ {0}
    /\ Wrap \in Nat \ {0}
    /\ SlotCount < Wrap
    /\ \E m \in 1 .. Wrap : Wrap = m * SlotCount

ASSUME MessagesAssumption ==
    /\ NoMsg \notin Messages
    /\ \A batch \in Batches : batch \in Seq(Messages) /\ batch # << >>
    /\ MaxMessages \in Nat

VARIABLES
    head,       \* HEAD_OFFSET: next slot to read
    tail,       \* TAIL_OFFSET: next slot to write
    hdr,        \* per slot: the message whose length the header holds
    body,       \* per slot: the message whose bytes the payload holds
    ppc,        \* where the producer is
    pTail,      \* the producer's copy of tail
    batch,      \* what try_push_batch was given
    count,      \* messages of the batch already published
    cpc,        \* where the consumer is
    cHead,      \* the consumer's copy of head
    cLen,       \* the header it read
    cBuf,       \* the payload it copied
    published,  \* history: every message published
    delivered   \* history: every message popped

producerVars == <<ppc, pTail, batch, count>>
consumerVars == <<cpc, cHead, cLen, cBuf>>
ringVars == <<head, tail, hdr, body, producerVars, consumerVars, published, delivered>>

Cursor == 0 .. Wrap - 1
SlotIndex == 0 .. SlotCount - 1
Content == Messages \cup {NoMsg}

\* wrapping_add(1), wrapping_sub and the mask on u64 cursors.
Advance1(c) == (c + 1) % Wrap
Distance(t, h) == (t - h) % Wrap
Slot(c) == c % SlotCount

\* Mutant: fullness is noticed one slot late.
LateFullMutant(t, h) == Distance(t, h) > SlotCount
\* Mutant: the ring is never full, so a lagging consumer is overwritten.
NeverFullMutant(t, h) == FALSE
Full(t, h) == Distance(t, h) >= SlotCount

RingInit ==
    /\ head = 0
    /\ tail = 0
    /\ hdr = [i \in SlotIndex |-> NoMsg]
    /\ body = [i \in SlotIndex |-> NoMsg]
    /\ ppc = "idle" /\ pTail = 0 /\ batch = << >> /\ count = 0
    /\ cpc = "idle" /\ cHead = 0 /\ cLen = NoMsg /\ cBuf = NoMsg
    /\ published = << >>
    /\ delivered = << >>

-----------------------------------------------------------------------------
(* The producer.  try_push is try_push_batch of one message and push is    *)
(* try_push repeated; a message larger than a slot is refused before any   *)
(* shared memory is touched and is not a member of Messages.               *)

CallPush(b) ==
    /\ ppc = "idle"
    /\ Len(published) + Len(b) <= MaxMessages
    /\ batch' = b
    /\ count' = 0
    /\ ppc' = "check"
    /\ UNCHANGED <<head, tail, hdr, body, pTail, consumerVars, published, delivered>>

\* Both cursors are loaded.  A full ring ends the batch: WouldBlock if
\* nothing was written (count = 0), the number written otherwise.
PushCheck ==
    /\ ppc = "check"
    /\ pTail' = tail
    /\ ppc' = IF Full(tail, head) THEN "idle" ELSE "hdr"
    /\ UNCHANGED <<head, tail, hdr, body, batch, count, consumerVars, published, delivered>>

WriteHeader ==
    /\ ppc = "hdr"
    /\ hdr' = [hdr EXCEPT ![Slot(pTail)] = batch[count + 1]]
    /\ ppc' = "body"
    /\ UNCHANGED <<head, tail, body, pTail, batch, count, consumerVars, published, delivered>>

\* Mutant: the payload copy is left for after the release store.
SkipPayloadMutant ==
    /\ ppc = "body"
    /\ ppc' = "publish"
    /\ UNCHANGED <<head, tail, hdr, body, pTail, batch, count, consumerVars, published, delivered>>

WritePayload ==
    /\ ppc = "body"
    /\ body' = [body EXCEPT ![Slot(pTail)] = batch[count + 1]]
    /\ ppc' = "publish"
    /\ UNCHANGED <<head, tail, hdr, pTail, batch, count, consumerVars, published, delivered>>

\* The release store of tail; the batch goes on with its next message.
Publish ==
    /\ ppc = "publish"
    /\ tail' = Advance1(pTail)
    /\ published' = Append(published, batch[count + 1])
    /\ count' = count + 1
    /\ ppc' = IF count + 1 = Len(batch) THEN "idle" ELSE "check"
    /\ UNCHANGED <<head, hdr, body, pTail, batch, consumerVars, delivered>>

-----------------------------------------------------------------------------
(* The consumer.  try_pop, a round of try_pop_batch and peek read a slot   *)
(* the same way; only peek leaves head where it is.                        *)

\* Both cursors are loaded; an empty ring returns Empty and changes nothing.
PopCheck ==
    /\ cpc = "idle"
    /\ head # tail
    /\ cHead' = head
    /\ cpc' = "hdr"
    /\ UNCHANGED <<head, tail, hdr, body, producerVars, cLen, cBuf, published, delivered>>

ReadHeader ==
    /\ cpc = "hdr"
    /\ cLen' = hdr[Slot(cHead)]
    /\ cpc' = "body"
    /\ UNCHANGED <<head, tail, hdr, body, producerVars, cHead, cBuf, published, delivered>>

ReadPayload ==
    /\ cpc = "body"
    /\ cBuf' = body[Slot(cHead)]
    /\ cpc' = "copied"
    /\ UNCHANGED <<head, tail, hdr, body, producerVars, cHead, cLen, published, delivered>>

\* Mutant: head is stored as the tail that was loaded, one message taken.
SkipToTailMutant ==
    /\ cpc = "copied"
    /\ head' = tail
    /\ delivered' = Append(delivered, cBuf)
    /\ cpc' = "idle"
    /\ UNCHANGED <<tail, hdr, body, producerVars, cHead, cLen, cBuf, published>>

\* try_pop: the release store of head frees the slot.
Pop ==
    /\ cpc = "copied"
    /\ head' = Advance1(cHead)
    /\ delivered' = Append(delivered, cBuf)
    /\ cpc' = "idle"
    /\ UNCHANGED <<tail, hdr, body, producerVars, cHead, cLen, cBuf, published>>

\* peek returns without storing head.
EndPeek ==
    /\ cpc = "copied"
    /\ cpc' = "idle"
    /\ UNCHANGED <<head, tail, hdr, body, producerVars, cHead, cLen, cBuf, published, delivered>>

-----------------------------------------------------------------------------
Producer == (\E b \in Batches : CallPush(b)) \/ PushCheck \/ WriteHeader \/ WritePayload \/ Publish
Consumer == PopCheck \/ ReadHeader \/ ReadPayload \/ Pop \/ EndPeek
RingNext == Producer \/ Consumer

RingSpec == RingInit /\ [][RingNext]_ringVars

\* A call that has begun runs to its end, and the matching thread pops in a
\* loop: it may peek, but it does not only ever peek.
Fairness ==
    /\ WF_ringVars(PushCheck \/ WriteHeader \/ WritePayload \/ Publish)
    /\ WF_ringVars(PopCheck) /\ WF_ringVars(ReadHeader) /\ WF_ringVars(ReadPayload)
    /\ SF_ringVars(Pop)

FairSpec == RingSpec /\ Fairness

-----------------------------------------------------------------------------
TypeOK ==
    /\ head \in Cursor
    /\ tail \in Cursor
    /\ hdr \in [SlotIndex -> Content]
    /\ body \in [SlotIndex -> Content]
    /\ ppc \in {"idle", "check", "hdr", "body", "publish"}
    /\ pTail \in Cursor
    /\ batch \in Seq(Messages)
    /\ count \in 0 .. Len(batch)
    /\ cpc \in {"idle", "hdr", "body", "copied"}
    /\ cHead \in Cursor
    /\ cLen \in Content
    /\ cBuf \in Content
    /\ published \in Seq(Messages)
    /\ delivered \in Seq(Content)

Writing == ppc \in {"hdr", "body", "publish"}
Reading == cpc \in {"hdr", "body", "copied"}

\* The unsafe slot copies of try_push and try_pop never touch one slot at the
\* same time: this is what the Send impls of Producer and Consumer claim.
NoSlotRace == Writing /\ Reading => Slot(pTail) # Slot(cHead)

\* Length header and payload handed to the caller come from one message.
NoTornMessage == cpc = "copied" => cLen = cBuf

\* The ring is a bounded FIFO queue: what Pop returns is the oldest message
\* published and not yet popped, and at most SlotCount are outstanding.
Outstanding == SubSeq(published, Len(delivered) + 1, Len(published))
Fifo == INSTANCE BoundedFifo WITH queue <- Outstanding, Capacity <- SlotCount
ImplementsFifo == Fifo!Spec

\* No published message is stranded by a stale cursor: each is popped.
EveryMessageDelivered ==
    \A n \in 1 .. MaxMessages : Len(published) >= n ~> Len(delivered) >= n
=============================================================================

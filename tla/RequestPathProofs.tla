-------------------------- MODULE RequestPathProofs --------------------------
(***************************************************************************)
(* The way of a request into the system: past the gateway's rate limiter   *)
(* and id generator, through the ring buffer, and what the write-ahead log *)
(* keeps of it.                                                            *)
(*                                                                         *)
(* The ring buffer is a bounded FIFO queue, for every slot count, cursor   *)
(* width and set of messages.  The cursors wrap and a slot is a cursor     *)
(* modulo SlotCount, so the argument needs a little modular arithmetic:    *)
(* it comes first.  The inductive invariant then ties the wrapped cursors  *)
(* to the lengths of the two histories.                                    *)
(*                                                                         *)
(* The gateway, for any number of handlers, any clock and any sizes:       *)
(* SnowflakeGen's ids increase within a boot, and no bucket of the rate    *)
(* limiter lets more requests through than its capacity and its refill     *)
(* allow.  Ids: the generator's state is the last id issued and no id      *)
(* issued lies above it (GeneratorInv); a handler whose compare-exchange   *)
(* succeeds has read that very state, and NextId goes up from it whatever  *)
(* the clock said.  Tokens: what a bucket has admitted and what is left in *)
(* it together do not exceed its capacity and what time has paid in        *)
(* (Paid).  A bucket's last refill only goes up, to a time the clock once  *)
(* showed: a clock set back and forth pays no time twice (TimesPassed).    *)
(*                                                                         *)
(* The log, for any payloads, segment size and number of faults: a log     *)
(* that opens is whole and has lost nothing a flush returned for, and a    *)
(* boot reads all of it.  The invariant says what holds between open()s:   *)
(* unless the log was left loose, every file but the last is on the        *)
(* platter in full and the records are numbered without a gap (Tight);     *)
(* loose or not, a file's records lie below the name of the next (Behind), *)
(* which is why a read may start with the file that its start names.       *)
(***************************************************************************)
EXTENDS RingBuffer, Gateway, Wal, CollectionLaws

-----------------------------------------------------------------------------
(* THE RING BUFFER.                                                        *)

-----------------------------------------------------------------------------
(* Modular arithmetic.                                                     *)

\* What % and \div are.
LEMMA ModDef ==
    ASSUME NEW x \in Int, NEW n \in Nat \ {0}
    PROVE  /\ x % n \in 0 .. n - 1
           /\ x \div n \in Int
           /\ x = n * (x \div n) + (x % n)
  OBVIOUS

\* Quotient and remainder are unique.
LEMMA ModUnique ==
    ASSUME NEW n \in Nat \ {0}, NEW q \in Int, NEW p \in Int,
           NEW r \in 0 .. n - 1, NEW s \in 0 .. n - 1, n * q + r = n * p + s
    PROVE  q = p /\ r = s
  <1>1. CASE q > p
    <2>1. n * (q - p) >= n BY <1>1, SMT
    <2>2. n * (q - p) = s - r BY SMT
    <2>3. QED BY <2>1, <2>2
  <1>2. CASE q < p
    <2>1. n * (p - q) >= n BY <1>2, SMT
    <2>2. n * (p - q) = r - s BY SMT
    <2>3. QED BY <2>1, <2>2
  <1>3. CASE q = p BY <1>3
  <1>4. QED BY <1>1, <1>2, <1>3

\* To compute a remainder, exhibit the quotient.
LEMMA ModOf ==
    ASSUME NEW n \in Nat \ {0}, NEW q \in Int, NEW r \in 0 .. n - 1,
           NEW x \in Int, x = n * q + r
    PROVE  x % n = r
  <1> DEFINE p == x \div n
             s == x % n
  <1>1. p \in Int /\ s \in 0 .. n - 1 /\ x = n * p + s BY ModDef
  <1> HIDE DEF p, s
  <1>2. n * q + r = n * p + s BY <1>1
  <1>3. q = p /\ r = s BY <1>1, <1>2, ModUnique, ZenonT(60)
  <1>4. QED BY <1>3 DEF s

\* A wrapped counter steps like the counter it wraps.
LEMMA ModStep ==
    ASSUME NEW n \in Nat \ {0}, NEW x \in Int
    PROVE  (x + 1) % n = ((x % n) + 1) % n
  <1> DEFINE q == x \div n
             r == x % n
  <1>1. r \in 0 .. n - 1 /\ q \in Int /\ x = n * q + r BY ModDef
  <1> HIDE DEF q, r
  <1>2. CASE r + 1 < n
    <2>1. (x + 1) % n = r + 1 BY <1>1, <1>2, ModOf
    <2>2. r + 1 = n * 0 + (r + 1) BY <1>1
    <2>3. (r + 1) % n = r + 1 BY <2>2, <1>1, <1>2, ModOf
    <2>4. QED BY <2>1, <2>3 DEF r
  <1>3. CASE r + 1 = n
    <2>1. x + 1 = n * (q + 1) + 0 BY <1>1, <1>3
    <2>2. (x + 1) % n = 0 BY <2>1, <1>1, ModOf
    <2>3. r + 1 = n * 1 + 0 BY <1>1, <1>3
    <2>4. (r + 1) % n = 0 BY <2>3, <1>1, ModOf
    <2>5. QED BY <2>2, <2>4 DEF r
  <1>4. QED BY <1>1, <1>2, <1>3

\* The wrapped distance of two wrapped counters is their distance, as long as
\* that is less than the modulus.
LEMMA ModDiff ==
    ASSUME NEW n \in Nat \ {0}, NEW x \in Int, NEW y \in Int, x - y \in 0 .. n - 1
    PROVE  ((x % n) - (y % n)) % n = x - y
  <1> DEFINE q == x \div n  r == x % n  p == y \div n  s == y % n
  <1>1. r \in 0 .. n - 1 /\ q \in Int /\ x = n * q + r BY ModDef
  <1>2. s \in 0 .. n - 1 /\ p \in Int /\ y = n * p + s BY ModDef
  <1> HIDE DEF q, r, p, s
  <1>3. r - s = n * (p - q) + (x - y) BY <1>1, <1>2
  <1>4. (r - s) % n = x - y
    <2> DEFINE d == r - s  e == x - y  f == p - q
    <2>1. d \in Int /\ f \in Int /\ e \in 0 .. n - 1 /\ d = n * f + e
      BY <1>1, <1>2, <1>3
    <2> HIDE DEF d, e, f
    <2>2. d % n = e BY <2>1, ModOf
    <2>3. QED BY <2>2 DEF d, e
  <1>5. QED BY <1>4 DEF r, s

\* Masking a wrapped counter is masking the counter.
LEMMA ModMod ==
    ASSUME NEW n \in Nat \ {0}, NEW m \in Nat \ {0}, NEW w \in Nat \ {0},
           w = m * n, NEW x \in Int
    PROVE  (x % w) % n = x % n
  <1> DEFINE q == x \div w  r == x % w  p == r \div n  s == r % n
  <1>1. r \in 0 .. w - 1 /\ q \in Int /\ x = w * q + r BY ModDef
  <1> HIDE DEF q, r
  <1>2. s \in 0 .. n - 1 /\ p \in Int /\ r = n * p + s
    <2>1. r \in Int BY <1>1
    <2>2. QED BY <2>1, ModDef
  <1> HIDE DEF p, s
  <1>3. x = n * (m * q + p) + s
    <2>1. w * q = n * (m * q) BY <1>1, SMTT(30)
    <2>2. n * (m * q + p) = n * (m * q) + n * p BY <1>1, <1>2, SMTT(30)
    <2>3. QED BY <1>1, <1>2, <2>1, <2>2
  <1>4. m * q + p \in Int BY <1>1, <1>2
  <1>5. x % n = s
    <2> DEFINE g == m * q + p
    <2>1. g \in Int /\ x = n * g + s BY <1>3, <1>4
    <2> HIDE DEF g
    <2>2. QED BY <1>2, <2>1, ModOf
  <1>6. QED BY <1>5 DEF r, s

\* Counters less than a lap apart address different slots.
LEMMA ModDistinct ==
    ASSUME NEW n \in Nat \ {0}, NEW x \in Int, NEW y \in Int, x < y, y < x + n
    PROVE  x % n # y % n
  <1>1. SUFFICES ASSUME x % n = y % n PROVE FALSE OBVIOUS
  <1>2. ((y % n) - (x % n)) % n = y - x
    <2>1. y - x \in 0 .. n - 1 OBVIOUS
    <2>2. QED BY <2>1, ModDiff
  <1>3. (y % n) - (x % n) = 0 BY <1>1, ModDef
  <1>4. 0 = n * 0 + 0 OBVIOUS
  <1>5. 0 % n = 0 BY <1>4, ModOf
  <1>6. QED BY <1>2, <1>3, <1>5

-----------------------------------------------------------------------------
(* The inductive invariant.  pushed and popped are the numbers of messages *)
(* ever published and popped; the cursors are their remainders modulo      *)
(* Wrap.                                                                   *)

pushed == Len(published)
popped == Len(delivered)

\* Never more than a ring of messages outstanding.
CursorInv ==
    /\ popped <= pushed
    /\ pushed <= popped + SlotCount
    /\ tail = pushed % Wrap
    /\ head = popped % Wrap

\* An unread message is whole, in the slot its number addresses.
SlotInv ==
    \A k \in popped .. pushed - 1 : /\ hdr[k % SlotCount] = published[k + 1]
                                    /\ body[k % SlotCount] = published[k + 1]

\* Past the check the producer holds a slot no unread message is in.
ProducerInv ==
    /\ ppc \in {"check", "hdr", "body", "publish"} => count < Len(batch)
    /\ Writing => pTail = tail /\ pushed < popped + SlotCount
    /\ ppc \in {"body", "publish"} => hdr[Slot(pTail)] = batch[count + 1]
    /\ ppc = "publish" => body[Slot(pTail)] = batch[count + 1]

\* Past the check the consumer is at the oldest unread message.
ConsumerInv ==
    /\ Reading => cHead = head /\ popped < pushed
    /\ cpc \in {"body", "copied"} => cLen = published[popped + 1]
    /\ cpc = "copied" => cBuf = published[popped + 1]

\* What has been popped is what was published, in order.
OrderInv == \A i \in 1 .. popped : delivered[i] = published[i]

RingInv == TypeOK /\ CursorInv /\ SlotInv /\ ProducerInv /\ ConsumerInv /\ OrderInv

-----------------------------------------------------------------------------
(* The cursors say what the histories say.                                 *)

LEMMA HistoryLengths == TypeOK => pushed \in Nat /\ popped \in Nat
  BY DEF TypeOK, pushed, popped

\* What the cursors say of the slots in use.
LEMMA CursorFacts ==
    ASSUME TypeOK, CursorInv
    PROVE  /\ Slot(tail) = pushed % SlotCount
           /\ Slot(head) = popped % SlotCount
           /\ Distance(tail, head) = pushed - popped
           /\ head = tail => pushed = popped
           /\ Advance1(tail) = (pushed + 1) % Wrap
           /\ Advance1(head) = (popped + 1) % Wrap
  <1>1. pushed \in Int /\ popped \in Int BY HistoryLengths
  <1>2. PICK m \in 1 .. Wrap : Wrap = m * SlotCount BY SlotsAssumption
  <1>3. m \in Nat \ {0} /\ SlotCount \in Nat \ {0} /\ Wrap \in Nat \ {0}
    BY SlotsAssumption
  <1>4. \A x \in Int : (x % Wrap) % SlotCount = x % SlotCount
    BY <1>2, <1>3, ModMod
  <1>5. \A x \in Int : (x + 1) % Wrap = ((x % Wrap) + 1) % Wrap
    BY <1>3, ModStep
  <1>6. pushed - popped \in 0 .. Wrap - 1
    BY <1>1, SlotsAssumption DEF CursorInv
  <1>7. ((pushed % Wrap) - (popped % Wrap)) % Wrap = pushed - popped
    BY <1>1, <1>3, <1>6, ModDiff
  <1>8. tail = pushed % Wrap /\ head = popped % Wrap BY DEF CursorInv
  <1>9. ASSUME head = tail PROVE pushed = popped
    <2>1. (pushed % Wrap) - (popped % Wrap) = 0 BY <1>8, <1>9, <1>1, <1>3, ModDef
    <2>2. 0 = Wrap * 0 + 0 /\ 0 \in 0 .. Wrap - 1 BY <1>3
    <2>3. 0 % Wrap = 0 BY <1>3, <2>2, ModOf
    <2>4. pushed - popped = 0 BY <1>7, <2>1, <2>3
    <2>5. QED BY <1>1, <2>4
  <1> HIDE DEF pushed, popped
  <1>10. QED BY <1>1, <1>4, <1>5, <1>7, <1>8, <1>9 DEF Slot, Distance, Advance1

\* Cursors and slots stay in range.
LEMMA Ranges ==
    /\ \A x \in Cursor : Advance1(x) \in Cursor /\ Slot(x) \in SlotIndex
    /\ 0 \in Cursor
  <1>1. SlotCount \in Nat \ {0} /\ Wrap \in Nat \ {0} BY SlotsAssumption
  <1>2. QED BY <1>1, ModDef DEF Advance1, Slot, Cursor, SlotIndex

\* A new buffer satisfies the invariant.
LEMMA InitRingInv == RingInit => RingInv
  <1> SUFFICES ASSUME RingInit PROVE RingInv OBVIOUS
  <1>1. SlotCount \in Nat \ {0} /\ Wrap \in Nat \ {0} BY SlotsAssumption
  <1>2. pushed = 0 /\ popped = 0 BY DEF RingInit, pushed, popped
  <1>3. 0 = Wrap * 0 + 0 BY <1>1
  <1>4. 0 % Wrap = 0 BY <1>1, <1>3, ModOf
  <1>5. TypeOK
    BY Ranges DEF RingInit, TypeOK, Content
  <1>6. CursorInv BY <1>1, <1>2, <1>4 DEF RingInit, CursorInv
  <1>7. SlotInv /\ OrderInv BY <1>2 DEF SlotInv, OrderInv
  <1>8. ProducerInv /\ ConsumerInv
    BY DEF RingInit, ProducerInv, ConsumerInv, Writing, Reading
  <1>9. QED BY <1>5, <1>6, <1>7, <1>8 DEF RingInv

-----------------------------------------------------------------------------
(* Preservation, one step per action.                                      *)

LEMMA TypePreserved == TypeOK /\ ProducerInv /\ [RingNext]_ringVars => TypeOK'
  <1> SUFFICES ASSUME TypeOK, ProducerInv, [RingNext]_ringVars PROVE TypeOK' OBVIOUS
  <1>1. ppc \in {"hdr", "body", "publish"} => batch[count + 1] \in Messages
    BY DEF ProducerInv, TypeOK
  <1> USE DEF TypeOK
  <1>2. ASSUME NEW b \in Batches, CallPush(b) PROVE TypeOK'
    BY <1>2, MessagesAssumption DEF CallPush, consumerVars
  <1>3. CASE PushCheck BY <1>3 DEF PushCheck, consumerVars
  <1>4. CASE WriteHeader BY <1>1, <1>4 DEF WriteHeader, consumerVars, Content
  <1>5. CASE WritePayload BY <1>1, <1>5 DEF WritePayload, consumerVars, Content
  <1>6. CASE Publish
    <2>1. count + 1 \in 0 .. Len(batch) BY <1>6 DEF Publish, ProducerInv
    <2>2. tail' \in Cursor BY <1>6, Ranges DEF Publish
    <2>3. published' \in Seq(Messages) BY <1>1, <1>6 DEF Publish
    <2>4. QED BY <1>6, <2>1, <2>2, <2>3 DEF Publish, consumerVars
  <1>7. CASE PopCheck BY <1>7 DEF PopCheck, producerVars
  <1>8. CASE ReadHeader
    <2>1. hdr[Slot(cHead)] \in Content BY Ranges
    <2>2. QED BY <1>8, <2>1 DEF ReadHeader, producerVars
  <1>9. CASE ReadPayload
    <2>1. body[Slot(cHead)] \in Content BY Ranges
    <2>2. QED BY <1>9, <2>1 DEF ReadPayload, producerVars
  <1>10. CASE Pop
    <2>1. head' \in Cursor BY <1>10, Ranges DEF Pop
    <2>2. delivered' \in Seq(Content) BY <1>10 DEF Pop
    <2>3. QED BY <1>10, <2>1, <2>2 DEF Pop, producerVars
  <1>11. CASE EndPeek BY <1>11 DEF EndPeek, producerVars
  <1>12. CASE UNCHANGED ringVars BY <1>12 DEF ringVars, producerVars, consumerVars
  <1>13. QED
    BY <1>2, <1>3, <1>4, <1>5, <1>6, <1>7, <1>8, <1>9, <1>10, <1>11, <1>12
    DEF RingNext, Producer, Consumer

\* A step that moves neither cursor nor history leaves what is stored alone
\* unless it writes a slot; only the step's own thread changes its place.
LEMMA HistoriesKept ==
    ASSUME UNCHANGED <<head, tail, published, delivered>>
    PROVE  pushed' = pushed /\ popped' = popped /\ (CursorInv => CursorInv') /\ (OrderInv => OrderInv')
  BY DEF pushed, popped, CursorInv, OrderInv

\* No slot copy overlaps another: the slot being written is a ring length
\* ahead of none that is unread, the one being read is unread.
LEMMA SlotsApart ==
    ASSUME RingInv
    PROVE  /\ Writing => \A k \in popped .. pushed - 1 : Slot(pTail) # k % SlotCount
           /\ NoSlotRace
  <1> USE DEF RingInv
  <1>1. pushed \in Nat /\ popped \in Nat /\ SlotCount \in Nat \ {0}
    BY HistoryLengths, SlotsAssumption
  <1>2. ASSUME Writing PROVE \A k \in popped .. pushed - 1 : Slot(pTail) # k % SlotCount
    <2>1. Slot(pTail) = pushed % SlotCount /\ pushed < popped + SlotCount
      BY <1>2, CursorFacts DEF ProducerInv
    <2>2. TAKE k \in popped .. pushed - 1
    <2>3. k \in Int /\ k < pushed /\ pushed < k + SlotCount BY <1>1, <2>1
    <2>4. \A x \in Int, y \in Int : x < y /\ y < x + SlotCount => x % SlotCount # y % SlotCount
      BY <1>1, ModDistinct
    <2>5. pushed \in Int BY <1>1
    <2>6. QED BY <2>1, <2>3, <2>4, <2>5
  <1>3. ASSUME Writing, Reading PROVE Slot(pTail) # Slot(cHead)
    <2>1. Slot(cHead) = popped % SlotCount /\ popped < pushed
      BY <1>3, CursorFacts DEF ConsumerInv
    <2>2. popped \in popped .. pushed - 1 BY <1>1, <2>1
    <2>3. QED BY <1>2, <1>3, <2>1, <2>2
  <1>4. QED BY <1>2, <1>3 DEF NoSlotRace

\* Every step of the producers and of the consumer keeps the invariant.
LEMMA StepPreserved == RingInv /\ [RingNext]_ringVars => RingInv'
  <1> SUFFICES ASSUME RingInv, [RingNext]_ringVars PROVE RingInv' OBVIOUS
  <1>1. TypeOK' BY TypePreserved DEF RingInv
  <1>2. pushed \in Nat /\ popped \in Nat /\ SlotCount \in Nat \ {0} /\ Wrap \in Nat \ {0}
    BY HistoryLengths, SlotsAssumption DEF RingInv
  <1>3. /\ TypeOK /\ CursorInv /\ SlotInv /\ ProducerInv /\ ConsumerInv /\ OrderInv
    BY DEF RingInv
  <1> SUFFICES CursorInv' /\ SlotInv' /\ ProducerInv' /\ ConsumerInv' /\ OrderInv'
    BY <1>1 DEF RingInv
  <1>4. ASSUME NEW b \in Batches, CallPush(b)
        PROVE  CursorInv' /\ SlotInv' /\ ProducerInv' /\ ConsumerInv' /\ OrderInv'
    <2> USE <1>4 DEF CallPush, consumerVars
    <2>1. pushed' = pushed /\ popped' = popped /\ CursorInv' /\ OrderInv' BY <1>3, HistoriesKept
    <2>2. SlotInv' BY <1>3, <2>1 DEF SlotInv
    <2>3. b \in Seq(Messages) /\ b # << >> BY MessagesAssumption
    <2>4. ProducerInv' BY <2>3 DEF ProducerInv, Writing
    <2>5. ConsumerInv' BY <1>3, <2>1 DEF ConsumerInv, Reading
    <2>6. QED BY <2>1, <2>2, <2>4, <2>5
  <1>5. ASSUME PushCheck
        PROVE  CursorInv' /\ SlotInv' /\ ProducerInv' /\ ConsumerInv' /\ OrderInv'
    <2> USE <1>5 DEF PushCheck, consumerVars
    <2>1. pushed' = pushed /\ popped' = popped /\ CursorInv' /\ OrderInv' BY <1>3, HistoriesKept
    <2>2. SlotInv' BY <1>3, <2>1 DEF SlotInv
    <2>3. ~Full(tail, head) => pushed < popped + SlotCount
      BY <1>2, <1>3, CursorFacts DEF Full
    <2>4. ProducerInv' BY <1>3, <2>1, <2>3 DEF ProducerInv, Writing
    <2>5. ConsumerInv' BY <1>3, <2>1 DEF ConsumerInv, Reading
    <2>6. QED BY <2>1, <2>2, <2>4, <2>5
  <1>6. ASSUME WriteHeader
        PROVE  CursorInv' /\ SlotInv' /\ ProducerInv' /\ ConsumerInv' /\ OrderInv'
    <2> USE <1>6 DEF WriteHeader, consumerVars
    <2>1. pushed' = pushed /\ popped' = popped /\ CursorInv' /\ OrderInv' BY <1>3, HistoriesKept
    <2>2. \A k \in popped .. pushed - 1 : Slot(pTail) # k % SlotCount
      BY SlotsApart DEF Writing
    <2>3. SlotInv' BY <1>3, <2>1, <2>2 DEF SlotInv, TypeOK
    <2>4. Slot(pTail) \in SlotIndex BY <1>3, Ranges DEF TypeOK
    <2>5. ProducerInv' BY <1>3, <2>1, <2>4 DEF ProducerInv, Writing, TypeOK
    <2>6. ConsumerInv' BY <1>3, <2>1 DEF ConsumerInv, Reading
    <2>7. QED BY <2>1, <2>3, <2>5, <2>6
  <1>7. ASSUME WritePayload
        PROVE  CursorInv' /\ SlotInv' /\ ProducerInv' /\ ConsumerInv' /\ OrderInv'
    <2> USE <1>7 DEF WritePayload, consumerVars
    <2>1. pushed' = pushed /\ popped' = popped /\ CursorInv' /\ OrderInv' BY <1>3, HistoriesKept
    <2>2. \A k \in popped .. pushed - 1 : Slot(pTail) # k % SlotCount
      BY SlotsApart DEF Writing
    <2>3. SlotInv' BY <1>3, <2>1, <2>2 DEF SlotInv, TypeOK
    <2>4. Slot(pTail) \in SlotIndex BY <1>3, Ranges DEF TypeOK
    <2>5. ProducerInv' BY <1>3, <2>1, <2>4 DEF ProducerInv, Writing, TypeOK
    <2>6. ConsumerInv' BY <1>3, <2>1 DEF ConsumerInv, Reading
    <2>7. QED BY <2>1, <2>3, <2>5, <2>6
  <1>8. ASSUME Publish
        PROVE  CursorInv' /\ SlotInv' /\ ProducerInv' /\ ConsumerInv' /\ OrderInv'
    <2> DEFINE m == batch[count + 1]
    <2>1. m \in Messages /\ count < Len(batch)
      BY <1>3, <1>8 DEF ProducerInv, TypeOK, Publish
    <2>2. published' = Append(published, m) /\ pushed' = pushed + 1 /\ popped' = popped
      BY <1>3, <1>8, <2>1 DEF pushed, popped, TypeOK, Publish
    <2>3. pushed < popped + SlotCount /\ pTail = tail BY <1>3, <1>8 DEF ProducerInv, Writing, Publish
    <2>4. Slot(pTail) = pushed % SlotCount BY <1>3, <2>3, CursorFacts
    <2>5. CursorInv' BY <1>2, <1>3, <1>8, <2>2, <2>3, CursorFacts DEF CursorInv, Publish
    <2>6. published'[pushed + 1] = m /\ \A i \in 1 .. pushed : published'[i] = published[i]
      BY <1>3, <2>1, <2>2 DEF TypeOK, pushed
    <2>7. hdr[pushed % SlotCount] = m /\ body[pushed % SlotCount] = m
      BY <1>3, <1>8, <2>4 DEF ProducerInv, Publish
    <2>8. hdr' = hdr /\ body' = body /\ cpc' = cpc /\ cHead' = cHead /\ cLen' = cLen
          /\ cBuf' = cBuf /\ head' = head /\ delivered' = delivered
      BY <1>8 DEF Publish, consumerVars
    <2> HIDE DEF m
    <2>9. SlotInv'
      <3>1. ASSUME NEW k \in popped .. pushed
            PROVE  hdr[k % SlotCount] = published'[k + 1] /\ body[k % SlotCount] = published'[k + 1]
        <4>1. CASE k = pushed BY <4>1, <2>6, <2>7
        <4>2. CASE k # pushed
          <5>1. k \in popped .. pushed - 1 /\ k + 1 \in 1 .. pushed BY <1>2, <4>2
          <5>2. QED BY <1>3, <5>1, <2>6 DEF SlotInv
        <4>3. QED BY <4>1, <4>2
      <3>2. popped .. pushed = popped' .. pushed' - 1 BY <1>2, <2>2
      <3>3. QED BY <2>8, <3>1, <3>2 DEF SlotInv
    <2>10. ProducerInv' BY <1>3, <1>8, <2>1 DEF ProducerInv, Writing, TypeOK, Publish
    <2>11. popped < pushed => published'[popped + 1] = published[popped + 1]
      BY <1>2, <2>6
    <2>12. ConsumerInv'
      <3>1. Reading => popped < pushed BY <1>3 DEF ConsumerInv
      <3>2. pushed' = pushed + 1 /\ popped' = popped BY <2>2
      <3>3. Reading => popped' < pushed' BY <1>2, <3>1, <3>2
      <3>4. QED BY <1>3, <2>8, <2>11, <3>1, <3>2, <3>3 DEF ConsumerInv, Reading
    <2>13. OrderInv'
      <3>1. \A i \in 1 .. popped : i \in 1 .. pushed BY <1>2, <1>3 DEF CursorInv
      <3>2. QED BY <1>3, <2>2, <2>6, <2>8, <3>1 DEF OrderInv
    <2>14. QED BY <2>5, <2>9, <2>10, <2>12, <2>13
  <1>9. ASSUME PopCheck
        PROVE  CursorInv' /\ SlotInv' /\ ProducerInv' /\ ConsumerInv' /\ OrderInv'
    <2> USE <1>9 DEF PopCheck, producerVars
    <2>1. pushed' = pushed /\ popped' = popped /\ CursorInv' /\ OrderInv' BY <1>3, HistoriesKept
    <2>2. SlotInv' BY <1>3, <2>1 DEF SlotInv
    <2>3. ProducerInv' BY <1>3, <2>1 DEF ProducerInv, Writing
    <2>4. pushed # popped BY <1>2, <1>3 DEF CursorInv
    <2>5. ConsumerInv' BY <1>2, <1>3, <2>1, <2>4 DEF ConsumerInv, Reading, CursorInv
    <2>6. QED BY <2>1, <2>2, <2>3, <2>5
  <1>10. ASSUME ReadHeader
        PROVE  CursorInv' /\ SlotInv' /\ ProducerInv' /\ ConsumerInv' /\ OrderInv'
    <2> USE <1>10 DEF ReadHeader, producerVars
    <2>1. pushed' = pushed /\ popped' = popped /\ CursorInv' /\ OrderInv' BY <1>3, HistoriesKept
    <2>2. SlotInv' BY <1>3, <2>1 DEF SlotInv
    <2>3. ProducerInv' BY <1>3, <2>1 DEF ProducerInv, Writing
    <2>4. Slot(cHead) = popped % SlotCount /\ popped \in popped .. pushed - 1
      BY <1>2, <1>3, CursorFacts DEF ConsumerInv, Reading
    <2>5. hdr[Slot(cHead)] = published[popped + 1] BY <1>3, <2>4 DEF SlotInv
    <2>6. ConsumerInv' BY <1>3, <2>1, <2>5 DEF ConsumerInv, Reading
    <2>7. QED BY <2>1, <2>2, <2>3, <2>6
  <1>11. ASSUME ReadPayload
        PROVE  CursorInv' /\ SlotInv' /\ ProducerInv' /\ ConsumerInv' /\ OrderInv'
    <2> USE <1>11 DEF ReadPayload, producerVars
    <2>1. pushed' = pushed /\ popped' = popped /\ CursorInv' /\ OrderInv' BY <1>3, HistoriesKept
    <2>2. SlotInv' BY <1>3, <2>1 DEF SlotInv
    <2>3. ProducerInv' BY <1>3, <2>1 DEF ProducerInv, Writing
    <2>4. Slot(cHead) = popped % SlotCount /\ popped \in popped .. pushed - 1
      BY <1>2, <1>3, CursorFacts DEF ConsumerInv, Reading
    <2>5. body[Slot(cHead)] = published[popped + 1] BY <1>3, <2>4 DEF SlotInv
    <2>6. ConsumerInv' BY <1>3, <2>1, <2>5 DEF ConsumerInv, Reading
    <2>7. QED BY <2>1, <2>2, <2>3, <2>6
  <1>12. ASSUME Pop
        PROVE  CursorInv' /\ SlotInv' /\ ProducerInv' /\ ConsumerInv' /\ OrderInv'
    <2> USE <1>12 DEF Pop, producerVars
    <2>1. delivered' = Append(delivered, cBuf) /\ pushed' = pushed /\ popped' = popped + 1
      BY <1>3 DEF pushed, popped, TypeOK
    <2>2. popped < pushed /\ cHead = head /\ cBuf = published[popped + 1]
      BY <1>3 DEF ConsumerInv, Reading
    <2>3. CursorInv' BY <1>2, <1>3, <2>1, <2>2, CursorFacts DEF CursorInv
    <2>4. SlotInv'
      <3>1. pushed \in Nat /\ popped \in Nat BY <1>3 DEF pushed, popped, TypeOK
      <3>2. \A k \in popped + 1 .. pushed - 1 : k \in popped .. pushed - 1 BY <3>1
      <3>3. /\ hdr' = hdr /\ body' = body /\ published' = published
            /\ pushed' = pushed /\ popped' = popped + 1
        BY <2>1
      <3>4. QED BY <1>3, <3>2, <3>3 DEF SlotInv
    <2>5. ProducerInv' BY <1>2, <1>3, <2>1 DEF ProducerInv, Writing
    <2>6. ConsumerInv' BY DEF ConsumerInv, Reading
    <2>7. delivered'[popped + 1] = cBuf /\ \A i \in 1 .. popped : delivered'[i] = delivered[i]
      BY <1>3, <2>1 DEF TypeOK, popped
    <2>8. OrderInv'
      <3>1. ASSUME NEW i \in 1 .. popped + 1 PROVE delivered'[i] = published[i]
        <4>1. CASE i = popped + 1 BY <4>1, <2>2, <2>7
        <4>2. CASE i # popped + 1
          <5>1. i \in 1 .. popped BY <1>2, <4>2
          <5>2. QED BY <1>3, <2>7, <5>1 DEF OrderInv
        <4>3. QED BY <4>1, <4>2
      <3>2. QED BY <2>1, <3>1 DEF OrderInv
    <2>9. QED BY <2>3, <2>4, <2>5, <2>6, <2>8
  <1>13. ASSUME EndPeek
        PROVE  CursorInv' /\ SlotInv' /\ ProducerInv' /\ ConsumerInv' /\ OrderInv'
    <2> USE <1>13 DEF EndPeek, producerVars
    <2>1. pushed' = pushed /\ popped' = popped /\ CursorInv' /\ OrderInv' BY <1>3, HistoriesKept
    <2>2. SlotInv' BY <1>3, <2>1 DEF SlotInv
    <2>3. ProducerInv' BY <1>3, <2>1 DEF ProducerInv, Writing
    <2>4. ConsumerInv' BY DEF ConsumerInv, Reading
    <2>5. QED BY <2>1, <2>2, <2>3, <2>4
  <1>14. CASE UNCHANGED ringVars
    <2> USE <1>14 DEF ringVars, producerVars, consumerVars
    <2>1. pushed' = pushed /\ popped' = popped /\ CursorInv' /\ OrderInv' BY <1>3, HistoriesKept
    <2>2. SlotInv' BY <1>3, <2>1 DEF SlotInv
    <2>3. ProducerInv' /\ ConsumerInv'
      BY <1>3, <2>1 DEF ProducerInv, Writing, ConsumerInv, Reading
    <2>4. QED BY <2>1, <2>2, <2>3
  <1>15. QED
    BY <1>4, <1>5, <1>6, <1>7, <1>8, <1>9, <1>10, <1>11, <1>12, <1>13, <1>14
    DEF RingNext, Producer, Consumer

-----------------------------------------------------------------------------
(* The theorems.                                                           *)

LEMMA Inductive == RingSpec => []RingInv
  <1>1. RingInit => RingInv BY InitRingInv
  <1>2. RingInv /\ [RingNext]_ringVars => RingInv' BY StepPreserved
  <1>3. QED BY <1>1, <1>2, PTL DEF RingSpec

\* Cursors stay within their width and slots hold whole messages.
THEOREM TypeCorrect == RingSpec => []TypeOK
  <1>1. RingInv => TypeOK BY DEF RingInv
  <1>2. QED BY <1>1, Inductive, PTL

\* try_push and try_pop never copy to and from one slot at the same time, so
\* the unsafe copies do not race whatever the interleaving.
THEOREM SlotRaceFreedom == RingSpec => []NoSlotRace
  <1>1. RingInv => NoSlotRace BY SlotsApart
  <1>2. QED BY <1>1, Inductive, PTL

\* try_pop hands out the header and the payload of one message.
THEOREM MessagesWhole == RingSpec => []NoTornMessage
  <1>1. RingInv => NoTornMessage BY DEF RingInv, ConsumerInv, NoTornMessage
  <1>2. QED BY <1>1, Inductive, PTL

\* The queue the ring represents.
QueueInv ==
    /\ Outstanding \in Seq(Messages)
    /\ Len(Outstanding) = pushed - popped
    /\ \A i \in 1 .. pushed - popped : Outstanding[i] = published[popped + i]

\* The messages outstanding are the slots between the cursors.
LEMMA OutstandingFacts == RingInv => QueueInv
  <1> SUFFICES ASSUME RingInv PROVE QueueInv OBVIOUS
  <1>1. pushed \in Nat /\ popped \in Nat /\ popped <= pushed BY HistoryLengths DEF RingInv, CursorInv
  <1>2. published \in Seq(Messages) BY DEF RingInv, TypeOK
  <1>3. \A i \in popped + 1 .. pushed : published[i] \in Messages
    BY <1>1, <1>2, ElementOfSeq DEF pushed
  <1>4. Outstanding = SubSeq(published, popped + 1, pushed) BY DEF Outstanding, pushed, popped
  <1>5. /\ SubSeq(published, popped + 1, pushed) \in Seq(Messages)
        /\ Len(SubSeq(published, popped + 1, pushed)) = IF popped + 1 <= pushed THEN pushed - (popped + 1) + 1 ELSE 0
        /\ \A i \in 1 .. pushed - (popped + 1) + 1 :
              SubSeq(published, popped + 1, pushed)[i] = published[popped + 1 + i - 1]
    BY <1>1, <1>3, SubSeqProperties
  <1>6. \A i \in 1 .. pushed - popped : published[popped + 1 + i - 1] = published[popped + i]
    BY <1>1
  <1>7. QED BY <1>1, <1>4, <1>5, <1>6 DEF QueueInv

\* Publishing appends to the queue.
LEMMA PublishEnqueues ==
    ASSUME RingInv, RingInv', Publish
    PROVE  \E m \in Messages : Fifo!Enqueue(m)
  <1> DEFINE m == batch[count + 1]
  <1>1. m \in Messages BY DEF RingInv, ProducerInv, TypeOK, Publish
  <1>2. published' = Append(published, m) BY DEF Publish
  <1>3. published \in Seq(Messages) /\ delivered' = delivered
    BY DEF RingInv, TypeOK, Publish
  <1>4. pushed \in Nat /\ popped \in Nat /\ pushed' = pushed + 1 /\ popped' = popped
    BY <1>1, <1>2, <1>3, HistoryLengths DEF RingInv, pushed, popped
  <1>5. pushed < popped + SlotCount BY DEF RingInv, ProducerInv, Writing, Publish
  <1>6. popped <= pushed BY DEF RingInv, CursorInv
  <1> HIDE DEF m
  <1>7. Outstanding' = Append(Outstanding, m)
    <2>1. /\ Outstanding \in Seq(Messages) /\ Len(Outstanding) = pushed - popped
          /\ \A i \in 1 .. pushed - popped : Outstanding[i] = published[popped + i]
      BY OutstandingFacts DEF QueueInv
    <2>2. QueueInv' BY OutstandingFacts, PTL
    <2>3. /\ Outstanding' \in Seq(Messages) /\ Len(Outstanding') = pushed + 1 - popped
          /\ \A i \in 1 .. pushed + 1 - popped : Outstanding'[i] = published'[popped + i]
      BY <1>4, <2>2 DEF QueueInv
    <2>4. /\ published'[pushed + 1] = m
          /\ \A i \in 1 .. pushed : published'[i] = published[i]
      BY <1>1, <1>2, <1>3 DEF pushed
    <2> DEFINE q == Append(Outstanding, m)
    <2>5. /\ q \in Seq(Messages) /\ Len(q) = pushed + 1 - popped
          /\ q[pushed + 1 - popped] = m
          /\ \A i \in 1 .. pushed - popped : q[i] = Outstanding[i]
      BY <1>1, <1>4, <1>6, <2>1
    <2> HIDE DEF q
    <2>6. ASSUME NEW i \in 1 .. pushed + 1 - popped PROVE Outstanding'[i] = q[i]
      <3>1. CASE i = pushed + 1 - popped
        <4>1. popped + i = pushed + 1 BY <1>4, <3>1
        <4>2. QED BY <2>3, <2>4, <2>5, <3>1, <4>1
      <3>2. CASE i # pushed + 1 - popped
        <4>1. i \in 1 .. pushed - popped /\ popped + i \in 1 .. pushed BY <1>4, <1>6, <3>2
        <4>2. QED BY <2>1, <2>3, <2>4, <2>5, <4>1
      <3>3. QED BY <3>1, <3>2
    <2>7. Outstanding' = q BY <2>3, <2>5, <2>6, SeqEqual
    <2>8. QED BY <2>7 DEF q
  <1>8. Len(Outstanding) < SlotCount BY <1>4, <1>5, OutstandingFacts, SlotsAssumption DEF QueueInv
  <1>9. QED BY <1>1, <1>3, <1>7, <1>8 DEF Fifo!Enqueue

\* Storing head dequeues the oldest message and delivers it.
LEMMA PopDequeues ==
    ASSUME RingInv, RingInv', Pop
    PROVE  Fifo!Dequeue
  <1>1. published \in Seq(Messages) /\ published' = published
    BY DEF RingInv, TypeOK, Pop, producerVars
  <1>2. pushed \in Nat /\ popped \in Nat /\ popped < pushed /\ cBuf = published[popped + 1]
    BY HistoryLengths DEF RingInv, ConsumerInv, Reading, Pop
  <1>3. delivered' = Append(delivered, cBuf) BY DEF Pop
  <1>4. pushed' = pushed /\ popped' = popped + 1 BY <1>1, <1>3 DEF pushed, popped, RingInv, TypeOK
  <1>5. Outstanding = SubSeq(published, popped + 1, pushed) BY DEF Outstanding, pushed, popped
  <1>6. Outstanding' = SubSeq(published, popped + 2, pushed)
    BY <1>1, <1>2, <1>4 DEF Outstanding, pushed, popped
  <1>7. popped + 1 \in 1 .. Len(published) /\ pushed \in popped + 1 .. Len(published)
    BY <1>2 DEF pushed
  <1>8. /\ Head(SubSeq(published, popped + 1, pushed)) = published[popped + 1]
        /\ Tail(SubSeq(published, popped + 1, pushed)) = SubSeq(published, popped + 1 + 1, pushed)
    BY <1>1, <1>7, HeadTailOfSubSeq
  <1>9. popped + 1 + 1 = popped + 2 BY <1>2
  <1>10. Head(Outstanding) = cBuf /\ Tail(Outstanding) = Outstanding'
    BY <1>2, <1>5, <1>6, <1>8, <1>9
  <1>11. Len(Outstanding) # 0 BY <1>2, OutstandingFacts DEF QueueInv
  <1>12. Outstanding # << >> BY <1>11
  <1>13. QED BY <1>3, <1>10, <1>12 DEF Fifo!Dequeue

\* The ring buffer implements the bounded FIFO queue of its slot count: no
\* message is lost, duplicated, reordered or overwritten, for every slot
\* count, cursor width, batch and interleaving.
THEOREM RingBufferIsFifo == RingSpec => ImplementsFifo
  <1>1. RingInit => Fifo!Init
    <2>1. SUFFICES ASSUME RingInit PROVE Fifo!Init OBVIOUS
    <2>2. published = << >> /\ delivered = << >> BY <2>1 DEF RingInit
    <2>3. SubSeq(published, Len(delivered) + 1, Len(published)) = << >>
      BY <2>2, SubSeqEmpty
    <2>4. QED BY <2>2, <2>3 DEF Fifo!Init, Outstanding
  <1>2. RingInv /\ RingInv' /\ [RingNext]_ringVars => [Fifo!Next]_<<Outstanding, delivered>>
    <2> SUFFICES ASSUME RingInv, RingInv', [RingNext]_ringVars
                 PROVE  [Fifo!Next]_<<Outstanding, delivered>>
      OBVIOUS
    <2>1. CASE Publish BY <2>1, PublishEnqueues DEF Fifo!Next
    <2>2. CASE Pop BY <2>2, PopDequeues DEF Fifo!Next
    <2>3. CASE ~Publish /\ ~Pop
      <3>1. UNCHANGED <<published, delivered>>
        BY <2>3 DEF RingNext, Producer, Consumer, CallPush, PushCheck, WriteHeader,
           WritePayload, PopCheck, ReadHeader, ReadPayload, EndPeek, ringVars
      <3>2. QED BY <3>1 DEF Outstanding
    <2>4. QED BY <2>1, <2>2, <2>3
  <1>3. QED BY <1>1, <1>2, Inductive, PTL DEF RingSpec, ImplementsFifo, Fifo!Spec

-----------------------------------------------------------------------------
(* THE GATEWAY.                                                            *)

Ids == [ms : Int, seq : Int]

\* The numbers next_id works with: the clock, the state, what handlers read.
ClockTypes ==
    /\ clock \in Int
    /\ generator \in Ids
    /\ now \in [Handlers -> Int]
    /\ old \in [Handlers -> Ids]

GeneratorInv ==
    /\ issued \in Seq(Ids)
    /\ \A i \in DOMAIN issued : issued[i] = generator \/ IdBelow(issued[i], generator)

IdInv == ClockTypes /\ GeneratorInv /\ IdsIncrease

-----------------------------------------------------------------------------
\* NextId goes up, whether the clock has gone on, stands still or was set back.
LEMMA NextIdAbove ==
    ASSUME NEW state \in Ids, NEW time \in Int
    PROVE  NextId(state, time) \in Ids /\ IdBelow(state, NextId(state, time))
BY DEF Ids, NextId, IdBelow

\* Later is greater, transitively.
LEMMA IdBelowTransitive ==
    ASSUME NEW a \in Ids, NEW b \in Ids, NEW c \in Ids, IdBelow(a, b), IdBelow(b, c)
    PROVE  IdBelow(a, c)
BY DEF Ids, IdBelow

\* A handler that moves on or answers keeps what others have read.
LEMMA HandlerKeepsTypes ==
    ASSUME ClockTypes, NEW h \in Handlers, NEW onward, Goes(h, onward) \/ Answers(h),
           clock' = clock, generator' \in Ids
    PROVE  ClockTypes'
BY DEF ClockTypes, Goes, Answers, Ids, Zero

-----------------------------------------------------------------------------
\* A generator that gave out nothing satisfies the invariant.
LEMMA InitIdInv == GatewayInit => IdInv
<1> SUFFICES ASSUME GatewayInit PROVE IdInv OBVIOUS
<1>1. ClockTypes
  BY GatewayAssumption DEF GatewayInit, ClockTypes, Ids, Zero
<1>2. issued = << >> BY DEF GatewayInit
<1>3. GeneratorInv /\ IdsIncrease BY <1>2 DEF GeneratorInv, IdsIncrease
<1> QED BY <1>1, <1>3 DEF IdInv

\* A successful compare-exchange issues the next id above all before it.
LEMMA SwapKeeps ==
    ASSUME IdInv, NEW h \in Handlers, SwapState(h)
    PROVE  IdInv'
<1> DEFINE id == NextId(old[h], now[h])
<1>1. CASE ~Unchanged(h)
  <2>1. Goes(h, "load") /\ UNCHANGED <<generator, issued, clock>> BY <1>1 DEF SwapState
  <2>2. ClockTypes' BY <2>1, HandlerKeepsTypes DEF IdInv, ClockTypes
  <2> QED BY <2>1, <2>2 DEF IdInv, GeneratorInv, IdsIncrease
<1>2. CASE Unchanged(h)
  <2>1. generator' = id /\ issued' = Append(issued, id) /\ clock' = clock
    BY <1>2 DEF SwapState
  <2>2. id \in Ids /\ IdBelow(generator, id)
    BY <1>2, NextIdAbove DEF IdInv, ClockTypes, Unchanged
  <2>3. ClockTypes'
    <3>1. CASE Answers(h) BY <2>1, <2>2, <3>1, HandlerKeepsTypes DEF IdInv
    <3>2. CASE old' = [old EXCEPT ![h] = id] /\ UNCHANGED now
      BY <2>1, <2>2, <3>2 DEF IdInv, ClockTypes
    <3> QED BY <1>2, <3>1, <3>2 DEF SwapState
  <2>4. /\ issued' \in Seq(Ids) /\ Len(issued') = Len(issued) + 1
        /\ DOMAIN issued' = 1 .. Len(issued) + 1 /\ DOMAIN issued = 1 .. Len(issued)
        /\ issued'[Len(issued) + 1] = id
        /\ \A i \in 1 .. Len(issued) : issued'[i] = issued[i] /\ issued[i] \in Ids
    BY <2>1, <2>2 DEF IdInv, GeneratorInv
  <2>5. \A i \in 1 .. Len(issued) : IdBelow(issued'[i], id)
    <3> SUFFICES ASSUME NEW i \in 1 .. Len(issued) PROVE IdBelow(issued[i], id)
      BY <2>4
    <3>1. issued[i] = generator \/ IdBelow(issued[i], generator)
      BY <2>4 DEF IdInv, GeneratorInv
    <3> QED BY <2>2, <2>4, <3>1, IdBelowTransitive DEF IdInv, ClockTypes
  <2>6. GeneratorInv' BY <2>1, <2>4, <2>5 DEF GeneratorInv
  <2>7. IdsIncrease'
    <3> SUFFICES ASSUME NEW i \in DOMAIN issued', NEW j \in DOMAIN issued', i < j
                 PROVE  IdBelow(issued'[i], issued'[j])
      BY DEF IdsIncrease
    <3>1. CASE j = Len(issued) + 1 BY <2>4, <2>5, <3>1
    <3>2. CASE j # Len(issued) + 1 BY <2>4, <3>2 DEF IdInv, IdsIncrease
    <3> QED BY <3>1, <3>2
  <2> QED BY <2>3, <2>6, <2>7 DEF IdInv
<1> QED BY <1>1, <1>2

\* Every step of the generator keeps the ids increasing.
LEMMA NextIdInv == IdInv /\ [GatewayNext]_gatewayVars => IdInv'
<1> SUFFICES ASSUME IdInv, [GatewayNext]_gatewayVars PROVE IdInv' OBVIOUS
<1>1. ASSUME UNCHANGED <<generator, issued>>, ClockTypes' PROVE IdInv'
  BY <1>1 DEF IdInv, GeneratorInv, IdsIncrease
<1>2. ASSUME NEW h \in Handlers, Arrive(h) PROVE IdInv'
  <2>1. ClockTypes' BY <1>2 DEF IdInv, ClockTypes, Arrive, shared
  <2> QED BY <1>1, <1>2, <2>1 DEF Arrive, shared, history
<1>3. ASSUME NEW h \in Handlers, NEW email \in Emails, NEW ip \in IPs,
             Register(h, email, ip) \/ Login(h, email, ip)
      PROVE  IdInv'
  BY <1>2, <1>3 DEF Register, Login
<1>4. ASSUME NEW h \in Handlers, NEW token \in tokens,
             PlaceOrder(h, token) \/ ChangeOrder(h, token)
      PROVE  IdInv'
  BY <1>2, <1>4 DEF PlaceOrder, ChangeOrder
<1>5. ASSUME NEW h \in Handlers, NEW onward, Goes(h, onward) \/ Answers(h),
             UNCHANGED <<generator, issued, clock>>
      PROVE  IdInv'
  <2>1. ClockTypes' BY <1>5, HandlerKeepsTypes DEF IdInv, ClockTypes
  <2> QED BY <1>1, <1>5, <2>1
<1>6. ASSUME NEW h \in Handlers, ChargeBuckets(h) PROVE IdInv'
  <2>1. UNCHANGED <<generator, issued, clock>> BY <1>6 DEF ChargeBuckets
  <2>2. Goes(h, "select") \/ Goes(h, "load") \/ Answers(h) BY <1>6 DEF ChargeBuckets
  <2> QED BY <1>5, <2>1, <2>2
<1>7. ASSUME NEW h \in Handlers, LoadState(h) PROVE IdInv'
  <2>1. ClockTypes' BY <1>7 DEF IdInv, ClockTypes, LoadState, shared
  <2> QED BY <1>1, <1>7, <2>1 DEF LoadState, shared, history
<1>8. ASSUME NEW h \in Handlers, InsertUser(h) \/ SelectUser(h) PROVE IdInv'
  BY <1>5, <1>8 DEF InsertUser, SelectUser, shared, history
<1>9. CASE Tick \/ StepBack
  <2>1. ClockTypes' BY <1>9 DEF IdInv, ClockTypes, Tick, StepBack, shared, handlerVars
  <2> QED BY <1>1, <1>9, <2>1 DEF Tick, StepBack, shared, history
<1>10. CASE Restart
  <2>1. ClockTypes' BY <1>10 DEF IdInv, ClockTypes, Restart, Ids, Zero
  <2>2. issued' = << >> BY <1>10 DEF Restart
  <2> QED BY <2>1, <2>2 DEF IdInv, GeneratorInv, IdsIncrease
<1>11. CASE UNCHANGED gatewayVars
  BY <1>11 DEF IdInv, ClockTypes, GeneratorInv, IdsIncrease, gatewayVars, shared, handlerVars, history
<1> QED BY <1>3, <1>4, <1>6, <1>7, <1>8, <1>9, <1>10, <1>11, SwapKeeps DEF GatewayNext

\* SnowflakeGen::next_id (exg-common/src/ids.rs): whatever handlers race for
\* it and whatever the clock does, the ids of a boot only go up, so none is
\* handed out twice.
THEOREM IdsAlwaysIncrease == GatewaySpec => []IdsIncrease
<1>1. IdInv => IdsIncrease BY DEF IdInv
<1> QED BY InitIdInv, NextIdInv, <1>1, PTL DEF GatewaySpec

-----------------------------------------------------------------------------
(* The rate limiter.  What a bucket holds and what its key was let in for  *)
(* were there at first or came with the time up to its last refill, which  *)
(* no clock has shown before it passed.                                    *)

\* The times handlers have read have all been on the clock.
TimesPassed ==
    /\ clock \in Int /\ latest \in Nat /\ clock <= latest
    /\ now \in [Handlers -> Int]
    /\ \A h \in Handlers : now[h] <= latest

\* Of one key: its bucket and its history.
Paid(bucket, let) ==
    /\ bucket \in [tokens : Nat, last : Int]
    /\ let \in [count : Nat, since : Int]
    /\ let.since <= bucket.last /\ bucket.last <= latest
    /\ let.count * TokenCost + bucket.tokens
          <= MaxTokens * TokenCost + (bucket.last - let.since) * RefillPerTick

LimiterInv ==
    /\ TimesPassed
    /\ DOMAIN buckets = DOMAIN admitted
    /\ \A key \in DOMAIN admitted : Paid(buckets[key], admitted[key])

\* The bucket's parameters are numbers.
LEMMA ConstantTypes ==
    /\ RefillPerTick \in Nat /\ TokenCost \in Nat /\ MaxTokens \in Nat
    /\ MaxTokens * TokenCost \in Nat
BY GatewayAssumption

\* refill adds no more than the time it moves the bucket on by.
LEMMA RefillBounded ==
    ASSUME NEW bucket \in [tokens : Nat, last : Int], NEW time \in Int,
           time <= latest, bucket.last <= latest
    PROVE  /\ Refill(bucket, time) \in [tokens : Nat, last : Int]
           /\ bucket.last <= Refill(bucket, time).last
           /\ Refill(bucket, time).last <= latest
           /\ Refill(bucket, time).tokens
                 <= bucket.tokens + (Refill(bucket, time).last - bucket.last) * RefillPerTick
<1>1. CASE time <= bucket.last
  <2>1. Refill(bucket, time) = bucket BY <1>1 DEF Refill
  <2>2. (bucket.last - bucket.last) * RefillPerTick = 0 BY ConstantTypes
  <2> QED BY <2>1, <2>2
<1>2. CASE ~(time <= bucket.last)
  <2> DEFINE gain == (time - bucket.last) * RefillPerTick
             full == MaxTokens * TokenCost
  <2>1. gain \in Nat
    <3>1. time - bucket.last \in Nat BY <1>2
    <3> QED BY <3>1, ConstantTypes
  <2>2. full \in Nat BY ConstantTypes
  <2>3. Refill(bucket, time)
          = [tokens |-> IF bucket.tokens + gain > full THEN full ELSE bucket.tokens + gain,
             last |-> time]
    BY <1>2 DEF Refill
  <2> HIDE DEF full
  <2>4. Refill(bucket, time).last = time BY <2>3
  <2>5. /\ Refill(bucket, time) \in [tokens : Nat, last : Int]
        /\ Refill(bucket, time).tokens <= bucket.tokens + gain
    <3> HIDE DEF gain
    <3> QED BY <2>1, <2>2, <2>3
  <2> QED BY <1>2, <2>4, <2>5
<1> QED BY <1>1, <1>2

\* A bucket refilled and charged for one more request, or not, is still paid.
LEMMA RefillPaid ==
    ASSUME NEW bucket, NEW let, NEW time \in Int, time <= latest, latest \in Nat,
           Paid(bucket, let)
    PROVE  Paid(Refill(bucket, time), let)
<1> DEFINE refilled == Refill(bucket, time)
<1>1. /\ refilled \in [tokens : Nat, last : Int]
      /\ bucket.last <= refilled.last /\ refilled.last <= latest
      /\ refilled.tokens <= bucket.tokens + (refilled.last - bucket.last) * RefillPerTick
  BY RefillBounded DEF Paid
<1> HIDE DEF refilled
<1>2. (bucket.last - let.since) * RefillPerTick + (refilled.last - bucket.last) * RefillPerTick
        = (refilled.last - let.since) * RefillPerTick
  BY <1>1, ConstantTypes DEF Paid
<1>3. /\ (bucket.last - let.since) * RefillPerTick \in Int
      /\ (refilled.last - bucket.last) * RefillPerTick \in Int
      /\ let.count * TokenCost \in Int
  BY <1>1, ConstantTypes DEF Paid
<1>4. let.count * TokenCost + refilled.tokens
        <= MaxTokens * TokenCost + (refilled.last - let.since) * RefillPerTick
  BY <1>1, <1>2, <1>3, ConstantTypes DEF Paid
<1>5. Paid(refilled, let) BY <1>1, <1>4 DEF Paid
<1> QED BY <1>5 DEF refilled

\* A request that is admitted has paid one token.
LEMMA ChargePaid ==
    ASSUME NEW bucket, NEW let, Paid(bucket, let), bucket.tokens >= TokenCost
    PROVE  Paid([bucket EXCEPT !.tokens = @ - TokenCost], [let EXCEPT !.count = @ + 1])
<1> DEFINE charged == [bucket EXCEPT !.tokens = @ - TokenCost]
           counted == [let EXCEPT !.count = @ + 1]
<1>1. /\ charged = [tokens |-> bucket.tokens - TokenCost, last |-> bucket.last]
      /\ charged.tokens = bucket.tokens - TokenCost /\ charged.last = bucket.last
  BY DEF Paid
<1>2. /\ counted = [count |-> let.count + 1, since |-> let.since]
      /\ counted.count = let.count + 1 /\ counted.since = let.since
  BY DEF Paid
<1>3. counted.count * TokenCost = let.count * TokenCost + TokenCost
  BY <1>2, ConstantTypes DEF Paid
<1>4. let.count * TokenCost \in Int /\ (bucket.last - let.since) * RefillPerTick \in Int
  BY ConstantTypes DEF Paid
<1> HIDE DEF charged, counted
<1>5. counted.count * TokenCost + charged.tokens = let.count * TokenCost + bucket.tokens
  BY <1>1, <1>3, <1>4, ConstantTypes DEF Paid
<1>6. charged \in [tokens : Nat, last : Int] /\ counted \in [count : Nat, since : Int]
  BY <1>1, <1>2, ConstantTypes DEF Paid
<1>7. Paid(charged, counted) BY <1>1, <1>2, <1>5, <1>6 DEF Paid
<1> QED BY <1>7 DEF charged, counted

-----------------------------------------------------------------------------
\* A limiter without buckets satisfies the invariant.
LEMMA InitLimiterInv == GatewayInit => LimiterInv
<1> SUFFICES ASSUME GatewayInit PROVE LimiterInv OBVIOUS
<1>1. TimesPassed BY GatewayAssumption DEF GatewayInit, TimesPassed
<1>2. DOMAIN buckets = {} /\ DOMAIN admitted = {} BY DEF GatewayInit
<1> QED BY <1>1, <1>2 DEF LimiterInv

\* What Charge makes of one of its keys.
LEMMA ChargeKeepsKey ==
    ASSUME LimiterInv, NEW keys, NEW time \in Int, time <= latest, Charge(keys, time),
           latest' = latest, NEW key \in keys
    PROVE  Paid(buckets'[key], admitted'[key])
<1> DEFINE bucket == Refill(BucketOf(key, time), time)
           let == IF key \in DOMAIN admitted THEN admitted[key] ELSE [count |-> 0, since |-> time]
<1>1. Paid(BucketOf(key, time), let)
  <2>1. CASE key \in DOMAIN admitted
    BY <2>1 DEF LimiterInv, BucketOf
  <2>2. CASE key \notin DOMAIN admitted
    <3>1. BucketOf(key, time) = [tokens |-> MaxTokens * TokenCost, last |-> time]
      BY <2>2 DEF LimiterInv, BucketOf
    <3>2. 0 * TokenCost = 0 /\ (time - time) * RefillPerTick = 0 BY ConstantTypes
    <3>3. Paid([tokens |-> MaxTokens * TokenCost, last |-> time],
               [count |-> 0, since |-> time])
      BY <3>2, ConstantTypes DEF Paid
    <3> QED BY <2>2, <3>1, <3>3
  <2> QED BY <2>1, <2>2
<1>2. Paid(bucket, let) BY <1>1, RefillPaid DEF LimiterInv, TimesPassed
<1>3. /\ buckets'[key] = IF bucket.tokens >= TokenCost
                         THEN [bucket EXCEPT !.tokens = @ - TokenCost] ELSE bucket
      /\ admitted'[key] = IF bucket.tokens >= TokenCost
                          THEN [let EXCEPT !.count = @ + 1] ELSE let
  BY DEF Charge, Allows
<1> HIDE DEF bucket, let
<1> QED BY <1>2, <1>3, ChargePaid

\* Charging the buckets of a request keeps every bucket's account
\* (rate_limit_middleware).
LEMMA ChargeKeeps ==
    ASSUME LimiterInv, NEW keys, NEW time \in Int, time <= latest, Charge(keys, time),
           latest' = latest, TimesPassed'
    PROVE  LimiterInv'
<1>1. DOMAIN buckets' = keys \cup DOMAIN buckets /\ DOMAIN admitted' = keys \cup DOMAIN admitted
  BY DEF Charge
<1>2. ASSUME NEW key \in DOMAIN admitted', key \notin keys
      PROVE  Paid(buckets'[key], admitted'[key])
  <2>1. buckets'[key] = buckets[key] /\ admitted'[key] = admitted[key]
    BY <1>1, <1>2 DEF Charge, LimiterInv
  <2> QED BY <1>1, <1>2, <2>1 DEF LimiterInv
<1>3. \A key \in DOMAIN admitted' : Paid(buckets'[key], admitted'[key])
  BY <1>2, ChargeKeepsKey
<1>4. \A key \in DOMAIN admitted' : Paid(buckets[key], admitted[key])'
  BY <1>3 DEF Paid
<1> QED BY <1>1, <1>4 DEF LimiterInv

\* A handler that goes on or answers, and leaves the limiter alone.
LEMMA HandlerKeepsLimiter ==
    ASSUME LimiterInv, NEW h \in Handlers, NEW onward, Goes(h, onward) \/ Answers(h),
           UNCHANGED <<buckets, admitted, clock, latest>>
    PROVE  LimiterInv'
BY DEF LimiterInv, TimesPassed, Paid, Goes, Answers

\* Every step keeps every bucket's account.
LEMMA NextLimiterInv == LimiterInv /\ [GatewayNext]_gatewayVars => LimiterInv'
<1> SUFFICES ASSUME LimiterInv, [GatewayNext]_gatewayVars PROVE LimiterInv' OBVIOUS
<1>1. ASSUME UNCHANGED <<buckets, admitted, latest>>, TimesPassed' PROVE LimiterInv'
  BY <1>1 DEF LimiterInv, Paid
<1>2. ASSUME NEW h \in Handlers, Arrive(h) PROVE LimiterInv'
  <2>1. TimesPassed' BY <1>2 DEF LimiterInv, TimesPassed, Arrive, history
  <2> QED BY <1>1, <1>2, <2>1 DEF Arrive, shared, history
<1>3. ASSUME NEW h \in Handlers, NEW email \in Emails, NEW ip \in IPs,
             Register(h, email, ip) \/ Login(h, email, ip)
      PROVE  LimiterInv'
  BY <1>2, <1>3 DEF Register, Login
<1>4. ASSUME NEW h \in Handlers, NEW token \in tokens,
             PlaceOrder(h, token) \/ ChangeOrder(h, token)
      PROVE  LimiterInv'
  BY <1>2, <1>4 DEF PlaceOrder, ChangeOrder
<1>5. ASSUME NEW h \in Handlers, ChargeBuckets(h) PROVE LimiterInv'
  <2>1. Charge(KeysOf(request[h]), now[h]) /\ UNCHANGED <<clock, latest>>
    BY <1>5 DEF ChargeBuckets
  <2>2. Goes(h, "select") \/ Goes(h, "load") \/ Answers(h) BY <1>5 DEF ChargeBuckets
  <2>3. TimesPassed' BY <2>1, <2>2 DEF LimiterInv, TimesPassed, Goes, Answers
  <2>4. now[h] \in Int /\ now[h] <= latest BY DEF LimiterInv, TimesPassed
  <2> QED BY <2>1, <2>3, <2>4, ChargeKeeps
<1>6. ASSUME NEW h \in Handlers, LoadState(h) PROVE LimiterInv'
  <2>1. TimesPassed' BY <1>6 DEF LimiterInv, TimesPassed, LoadState, history
  <2> QED BY <1>1, <1>6, <2>1 DEF LoadState, shared, history
<1>7. ASSUME NEW h \in Handlers, SwapState(h) PROVE LimiterInv'
  <2>1. UNCHANGED <<clock, buckets, latest, admitted>> BY <1>7 DEF SwapState
  <2>2. UNCHANGED now \/ Goes(h, "load") \/ Answers(h) BY <1>7 DEF SwapState
  <2>3. TimesPassed' BY <2>1, <2>2 DEF LimiterInv, TimesPassed, Goes, Answers
  <2> QED BY <1>1, <2>1, <2>3
<1>8. ASSUME NEW h \in Handlers, InsertUser(h) \/ SelectUser(h) PROVE LimiterInv'
  BY <1>8, HandlerKeepsLimiter DEF InsertUser, SelectUser, shared, history
<1>9. CASE Tick \/ StepBack
  <2>1. clock' <= latest' /\ latest <= latest' /\ clock' \in Int /\ latest' \in Nat
    BY <1>9 DEF LimiterInv, TimesPassed, Tick, StepBack, history
  <2>2. UNCHANGED <<buckets, admitted, now>>
    BY <1>9 DEF Tick, StepBack, shared, handlerVars, history
  <2> QED BY <2>1, <2>2 DEF LimiterInv, TimesPassed, Paid
<1>10. CASE Restart
  <2>1. TimesPassed' BY <1>10 DEF LimiterInv, TimesPassed, Restart
  <2>2. DOMAIN buckets' = {} /\ DOMAIN admitted' = {} BY <1>10 DEF Restart
  <2> QED BY <2>1, <2>2 DEF LimiterInv
<1>11. CASE UNCHANGED gatewayVars
  BY <1>11 DEF LimiterInv, TimesPassed, Paid, gatewayVars, shared, handlerVars, history
<1> QED BY <1>3, <1>4, <1>5, <1>6, <1>7, <1>8, <1>9, <1>10, <1>11 DEF GatewayNext

\* What is in a bucket is not negative, and no time after its last refill has
\* been taken into account yet.
LEMMA LimiterBounded == LimiterInv => AdmissionBounded
<1> SUFFICES ASSUME LimiterInv, NEW key \in DOMAIN admitted
             PROVE  admitted[key].count * TokenCost
                      <= MaxTokens * TokenCost + (latest - admitted[key].since) * RefillPerTick
  BY DEF AdmissionBounded
<1> DEFINE bucket == buckets[key]
           let == admitted[key]
<1>1. Paid(bucket, let) /\ latest \in Nat BY DEF LimiterInv, TimesPassed
<1> HIDE DEF bucket, let
<1>2. (latest - bucket.last) * RefillPerTick >= 0
  <2>1. latest - bucket.last \in Nat BY <1>1 DEF Paid
  <2> QED BY <2>1, ConstantTypes
<1>3. (latest - let.since) * RefillPerTick
        = (bucket.last - let.since) * RefillPerTick + (latest - bucket.last) * RefillPerTick
  BY <1>1, ConstantTypes DEF Paid
<1>4. /\ (bucket.last - let.since) * RefillPerTick \in Int
      /\ (latest - bucket.last) * RefillPerTick \in Int
      /\ let.count * TokenCost \in Int
  BY <1>1, ConstantTypes DEF Paid
<1>5. let.count * TokenCost
        <= MaxTokens * TokenCost + (latest - let.since) * RefillPerTick
  BY <1>1, <1>2, <1>3, <1>4, ConstantTypes DEF Paid
<1> QED BY <1>5 DEF let

\* RateLimiter::consume (exg-api-gateway/src/middleware.rs): whatever order
\* handlers take the lock in and whatever the clock does, no key is let in
\* more often than a full bucket and the time that really passed allow.
THEOREM AdmissionAlwaysBounded == GatewaySpec => []AdmissionBounded
<1> QED BY InitLimiterInv, NextLimiterInv, LimiterBounded, PTL DEF GatewaySpec

-----------------------------------------------------------------------------
(* THE WRITE-AHEAD LOG.                                                    *)

-----------------------------------------------------------------------------
(* Files.                                                                  *)

LogRecords == [seq : Nat, size : Nat]
FileTypes ==
    [first : Nat, records : Seq(LogRecords), written : Nat, synced : Nat,
     tail : {"clean", "torn", "garbled"}]
Files == {f \in FileTypes : f.synced <= f.written /\ f.written <= Len(f.records)}

\* The sequences of one file, and the first n sequences there are.
Numbers(f) == [k \in 1 .. Len(f.records) |-> f.records[k].seq]
Upto(n) == [i \in 1 .. n |-> i - 1]

\* A file's records come before the one that gave its successor the name.
NamedBehind(f, g) == \A k \in DOMAIN f.records : f.records[k].seq < g.first

\* The records of x go on where those of F end.
Continues(F, x) ==
    \A k \in 1 .. Len(x.records) : x.records[k].seq = Len(SequencesOf(F)) + k - 1

\* y is a file in the place of x that has lost at most some of the last records.
Shortens(y, x) ==
    /\ y.first = x.first
    /\ Len(y.records) <= Len(x.records)
    /\ \A k \in 1 .. Len(y.records) : y.records[k] = x.records[k]

\* Nothing of a file can be lost any more, and it has the name of its first record.
Whole(f) ==
    /\ f.synced = Len(f.records) /\ f.written = Len(f.records) /\ f.tail = "clean"
    /\ f.records # << >> => f.first = f.records[1].seq

-----------------------------------------------------------------------------
(* Invariants.                                                             *)

\* A log of the files F and a last one, x.  Unless it was left loose, all but the last
\* are whole, its records are numbered without a gap, and what was promised is on the
\* platter.
Tight(F, x, p) ==
    /\ \A i \in DOMAIN F : Whole(F[i])
    /\ Continuous(SequencesOf(Append(F, x)))
    /\ x.first = Len(SequencesOf(F))
    /\ p <= Len(SequencesOf(F)) + x.synced
Behind(F, x) ==
    /\ \A i, j \in DOMAIN F : i < j => NamedBehind(F[i], F[j])
    /\ \A i \in DOMAIN F : NamedBehind(F[i], x)
Log(F, x, l, p) ==
    /\ F \in Seq(Files) /\ x \in Files /\ p \in Nat
    /\ Behind(F, x)
    /\ l \/ Tight(F, x, p)

\* A log that is open: n is the next sequence, b that it began with.
IsOpen(F, x, n, b) ==
    /\ \A i \in DOMAIN F : F[i].tail = "clean" /\ F[i].written = Len(F[i].records)
    /\ x.tail = "clean"
    /\ n \in Nat /\ b \in Nat /\ b <= n
    /\ SequencesOf(Append(F, x)) = Upto(n)
    /\ n = b => x.written = Len(x.records)

LogInv ==
    /\ segments \in Seq(Files) /\ loose \in BOOLEAN /\ promised \in Nat
    /\ segments = << >> => promised = 0
    /\ segments # << >> => Log(Front(segments), Last(segments), loose, promised)
PhaseInv ==
    /\ phase \in {"down", "up", "refused"}
    /\ phase = "up" => /\ segments # << >>
                       /\ IsOpen(Front(segments), Last(segments), next, booted)
    /\ phase = "down" => \A i \in DOMAIN segments : segments[i].written = Len(segments[i].records)
    /\ RefusedOnlyOverLoss

\* The newest of what a listing must show is no older than a save that returned.
SnapshotInv ==
    /\ snapshots \in SUBSET Nat /\ IsFiniteSet(snapshots)
    /\ dirSynced \in SUBSET Nat /\ IsFiniteSet(dirSynced)
    /\ saving = [step |-> saving.step, seq |-> saving.seq] /\ saving.seq \in Nat
    /\ saved \in Nat \cup {-1}
    /\ saved = -1 \/ \E s \in snapshots \cap dirSynced : s >= saved
    /\ saving.step = "renamed" => saving.seq \in snapshots
    /\ saving.step = "synced" => saving.seq \in snapshots /\ dirSynced = snapshots

WalInv == LogInv /\ PhaseInv /\ SnapshotInv

-----------------------------------------------------------------------------
(* Files and the sequences in them.                                        *)

LEMMA FilesAre ==
    ASSUME NEW f \in Files
    PROVE  /\ f = [first |-> f.first, records |-> f.records, written |-> f.written,
                   synced |-> f.synced, tail |-> f.tail]
           /\ f.first \in Nat /\ f.records \in Seq(LogRecords) /\ Len(f.records) \in Nat
           /\ f.written \in Nat /\ f.synced \in Nat
           /\ f.synced <= f.written /\ f.written <= Len(f.records)
           /\ f.tail \in {"clean", "torn", "garbled"}
  BY DEF Files, FileTypes

\* What the files of a log hold, as sequences.
LEMMA NumbersAre ==
    ASSUME NEW f \in Files
    PROVE  /\ Numbers(f) \in Seq(Nat) /\ Len(Numbers(f)) = Len(f.records) /\ Len(f.records) \in Nat
           /\ \A k \in 1 .. Len(f.records) : Numbers(f)[k] = f.records[k].seq /\ f.records[k].seq \in Nat
  <1> DEFINE n == Len(f.records)
             s == Numbers(f)
  <1>1. f.records \in Seq(LogRecords) BY FilesAre
  <1>2. n \in Nat /\ \A k \in 1 .. n : f.records[k] \in LogRecords BY <1>1
  <1>3. \A k \in 1 .. n : f.records[k].seq \in Nat BY <1>2 DEF LogRecords
  <1>4. s = [k \in 1 .. n |-> f.records[k].seq] BY DEF Numbers
  <1> HIDE DEF s, n
  <1>5. s \in [1 .. n -> Nat] BY <1>3, <1>4
  <1>6. s \in Seq(Nat) /\ Len(s) = n BY <1>2, <1>5
  <1>7. \A k \in 1 .. n : s[k] = f.records[k].seq BY <1>4
  <1>8. QED BY <1>2, <1>3, <1>6, <1>7 DEF s, n

\* No file, no sequence.
LEMMA SequencesNone == SequencesOf(<< >>) = << >>
  <1> DEFINE none == << >>
             ss == [i \in 1 .. Len(none) |-> [k \in 1 .. Len(none[i].records) |-> none[i].records[k].seq]]
  <1>1. ss = << >> OBVIOUS
  <1> HIDE DEF ss
  <1>2. FlattenSeq(ss) = << >> BY <1>1, FlattenEmpty
  <1>3. QED BY <1>2 DEF SequencesOf, ss

\* One more file brings its sequences.
LEMMA SequencesAppend ==
    ASSUME NEW F \in Seq(Files), NEW x \in Files
    PROVE  /\ SequencesOf(F) \in Seq(Nat) /\ SequencesOf(Append(F, x)) \in Seq(Nat)
           /\ SequencesOf(Append(F, x)) = SequencesOf(F) \o Numbers(x)
           /\ Len(SequencesOf(Append(F, x))) = Len(SequencesOf(F)) + Len(x.records)
  <1> DEFINE n == Len(F)
             G == Append(F, x)
             ss == [i \in 1 .. n |-> Numbers(F[i])]
             tt == [i \in 1 .. n + 1 |-> Numbers(G[i])]
             e == Numbers(x)
  <1>1. n \in Nat /\ Len(G) = n + 1 /\ G[n + 1] = x /\ \A i \in 1 .. n : G[i] = F[i] /\ F[i] \in Files
    OBVIOUS
  <1>2. SequencesOf(F) = FlattenSeq(ss) BY DEF SequencesOf, Numbers
  <1>3. SequencesOf(G) = FlattenSeq(tt)
    <2> HIDE DEF G, n
    <2>1. tt = [i \in 1 .. Len(G) |-> Numbers(G[i])] BY <1>1
    <2>2. QED BY <2>1 DEF SequencesOf, Numbers
  <1>4. e \in Seq(Nat) /\ Len(e) = Len(x.records) /\ Len(x.records) \in Nat BY NumbersAre
  <1>5. ss \in Seq(Seq(Nat)) /\ Len(ss) = n
    <2>1. \A i \in 1 .. n : Numbers(F[i]) \in Seq(Nat) BY <1>1, NumbersAre
    <2> HIDE DEF n
    <2>2. ss \in [1 .. n -> Seq(Nat)] BY <2>1
    <2> HIDE DEF ss
    <2>3. QED BY <1>1, <2>2
  <1>6. tt = Append(ss, e)
    <2>1. tt[n + 1] = e /\ \A i \in 1 .. n : tt[i] = ss[i] BY <1>1
    <2>2. tt = [i \in 1 .. n + 1 |-> tt[i]] OBVIOUS
    <2> HIDE DEF tt, ss, e, n
    <2>3. /\ Len(Append(ss, e)) = n + 1 /\ Append(ss, e)[n + 1] = e
          /\ \A i \in 1 .. n : Append(ss, e)[i] = ss[i]
          /\ Append(ss, e) \in Seq(Seq(Nat))
      BY <1>4, <1>5, AppendProperties
    <2>4. \A i \in 1 .. n + 1 : i \in 1 .. n \/ i = n + 1 BY <1>1
    <2>5. \A i \in 1 .. n + 1 : tt[i] = Append(ss, e)[i] BY <2>1, <2>3, <2>4
    <2>6. \A i \in 1 .. n + 1 : tt[i] \in Seq(Nat)
      BY <1>1, <2>3, <2>5, ElementOfSeq
    <2>7. tt \in [1 .. n + 1 -> Seq(Nat)] BY <2>2, <2>6
    <2>8. tt \in Seq(Seq(Nat)) /\ Len(tt) = n + 1
      <3>1. n + 1 \in Nat BY <1>1
      <3>2. QED BY <2>7, <3>1, SMTT(20)
    <2>9. QED BY <2>3, <2>5, <2>8, SeqEqual
  <1> HIDE DEF ss, tt, e, G
  <1>7. FlattenSeq(tt) = FlattenSeq(ss) \o e BY <1>4, <1>5, <1>6, FlattenAppend
  <1>8. FlattenSeq(ss) \in Seq(Nat) BY <1>5, FlattenType
  <1>9. FlattenSeq(ss) \o e \in Seq(Nat) /\ Len(FlattenSeq(ss) \o e) = Len(FlattenSeq(ss)) + Len(e)
    BY <1>4, <1>8, ConcatProperties
  <1>10. QED BY <1>2, <1>3, <1>4, <1>7, <1>8, <1>9 DEF G, e

\* A log without its last file, and with one more.
LEMMA LastFile ==
    /\ \A F \in Seq(Files), x \in Files :
          /\ Append(F, x) \in Seq(Files) /\ Append(F, x) # << >>
          /\ Front(Append(F, x)) = F /\ Last(Append(F, x)) = x
          /\ Len(Append(F, x)) = Len(F) + 1 /\ Len(F) \in Nat
          /\ \A i \in 1 .. Len(F) : Append(F, x)[i] = F[i]
          /\ Append(F, x)[Len(F) + 1] = x
    /\ \A s \in Seq(Files) :
          s # << >> => /\ Front(s) \in Seq(Files) /\ Last(s) \in Files /\ s = Append(Front(s), Last(s))
                       /\ Len(s) = Len(Front(s)) + 1 /\ Len(Front(s)) \in Nat
  <1>1. \A F \in Seq(Files), x \in Files :
          /\ Append(F, x) \in Seq(Files) /\ Append(F, x) # << >>
          /\ Len(Append(F, x)) = Len(F) + 1 /\ Len(F) \in Nat
          /\ \A i \in 1 .. Len(F) : Append(F, x)[i] = F[i]
          /\ Append(F, x)[Len(F) + 1] = x
    OBVIOUS
  <1>2. ASSUME NEW F \in Seq(Files), NEW x \in Files
        PROVE  Front(Append(F, x)) = F /\ Last(Append(F, x)) = x
    <2> DEFINE G == Append(F, x)
               n == Len(F)
    <2>1. n \in Nat /\ G \in Seq(Files) /\ Len(G) = n + 1 /\ G[n + 1] = x
          /\ \A i \in 1 .. n : G[i] = F[i] /\ F[i] \in Files
      BY <1>1, <1>2
    <2> HIDE DEF G
    <2>2. SubSeq(G, 1, n) \in Seq(Files) /\ Len(SubSeq(G, 1, n)) = n
          /\ \A i \in 1 .. n : SubSeq(G, 1, n)[i] = G[i]
      BY <2>1
    <2> HIDE DEF n
    <2>3. \A i \in 1 .. n : SubSeq(G, 1, n)[i] = F[i] BY <2>1, <2>2
    <2>4. Len(F) = n BY DEF n
    <2>5. SubSeq(G, 1, n) = F BY <1>2, <2>2, <2>3, <2>4, SeqEqual
    <2>6. Len(G) - 1 = n BY <2>1
    <2>7. Front(G) = F /\ Last(G) = x BY <2>1, <2>5, <2>6 DEF Front, Last
    <2>8. QED BY <2>7 DEF G
  <1>3. ASSUME NEW s \in Seq(Files), s # << >>
        PROVE  /\ Front(s) \in Seq(Files) /\ Last(s) \in Files /\ s = Append(Front(s), Last(s))
               /\ Len(s) = Len(Front(s)) + 1 /\ Len(Front(s)) \in Nat
    <2> DEFINE f == SubSeq(s, 1, Len(s) - 1)
               x == s[Len(s)]
    <2>1. Len(s) \in Nat \ {0} /\ \A i \in 1 .. Len(s) : s[i] \in Files BY <1>3
    <2>2. f \in Seq(Files) /\ Len(f) = Len(s) - 1 /\ (\A i \in 1 .. Len(s) - 1 : f[i] = s[i])
          /\ x \in Files
      <3> DEFINE m == Len(s) - 1
      <3>1. m \in Nat /\ \A i \in 1 .. m : s[i] \in Files BY <2>1
      <3> HIDE DEF m
      <3>2. SubSeq(s, 1, m) \in Seq(Files) /\ Len(SubSeq(s, 1, m)) = m
            /\ \A i \in 1 .. m : SubSeq(s, 1, m)[i] = s[i]
        BY <3>1
      <3>3. x \in Files BY <2>1
      <3>4. QED BY <3>2, <3>3 DEF m
    <2> HIDE DEF f, x
    <2>3. Append(f, x) \in Seq(Files) /\ Len(Append(f, x)) = Len(s)
      BY <1>1, <2>1, <2>2
    <2>4. \A i \in 1 .. Len(s) : Append(f, x)[i] = s[i]
      <3>1. \A i \in 1 .. Len(f) : Append(f, x)[i] = f[i] BY <1>1, <2>2
      <3>2. Append(f, x)[Len(f) + 1] = x BY <1>1, <2>2
      <3>3. \A i \in 1 .. Len(s) : i \in 1 .. Len(s) - 1 \/ i = Len(s) BY <2>1
      <3>4. Len(f) + 1 = Len(s) BY <2>1, <2>2
      <3>5. x = s[Len(s)] BY DEF x
      <3>6. QED BY <2>2, <3>1, <3>2, <3>3, <3>4, <3>5
    <2>5. Append(f, x) = s BY <1>3, <2>3, <2>4, SeqEqual
    <2>6. Front(s) = f /\ Last(s) = x BY DEF Front, Last, f, x
    <2>7. QED BY <2>1, <2>2, <2>5, <2>6
  <1>4. QED BY <1>1, <1>2, <1>3

-----------------------------------------------------------------------------
(* Sequences without a gap.                                                *)

\* The first n sequences are n, in order from 0.
LEMMA UptoIs ==
    ASSUME NEW n \in Nat
    PROVE  /\ Upto(n) \in Seq(Nat) /\ Len(Upto(n)) = n /\ Continuous(Upto(n))
           /\ \A i \in 1 .. n : Upto(n)[i] = i - 1
  <1> DEFINE u == Upto(n)
  <1>1. \A i \in 1 .. n : i - 1 \in Nat OBVIOUS
  <1>2. u = [i \in 1 .. n |-> i - 1] BY DEF Upto
  <1> HIDE DEF u
  <1>3. u \in [1 .. n -> Nat] BY <1>1, <1>2
  <1>4. u \in Seq(Nat) /\ Len(u) = n BY <1>3
  <1>5. \A i \in 1 .. n : u[i] = i - 1 BY <1>2
  <1>6. Continuous(u) BY <1>4, <1>5 DEF Continuous
  <1>7. QED BY <1>4, <1>5, <1>6 DEF u

\* Nothing else has no gap.
LEMMA ContinuousIs ==
    ASSUME NEW q \in Seq(Nat), Continuous(q)
    PROVE  q = Upto(Len(q)) /\ Len(q) \in Nat
  <1>1. Len(q) \in Nat OBVIOUS
  <1>2. \A i \in 1 .. Len(q) : q[i] = Upto(Len(q))[i] BY <1>1, UptoIs DEF Continuous
  <1>3. Upto(Len(q)) \in Seq(Nat) /\ Len(Upto(Len(q))) = Len(q) BY <1>1, UptoIs
  <1>4. QED BY <1>1, <1>2, <1>3, SeqEqual

\* The next sequence after the last is their number.
LEMMA ContinuousEnd ==
    ASSUME NEW q \in Seq(Nat), Continuous(q)
    PROVE  Len(q) = (IF q = << >> THEN 0 ELSE Last(q) + 1) /\ Len(q) \in Nat
  <1>1. Len(q) \in Nat OBVIOUS
  <1>2. CASE q = << >> BY <1>2
  <1>3. CASE q # << >>
    <2>1. Len(q) \in Nat \ {0} BY <1>3
    <2>2. q[Len(q)] = Len(q) - 1 BY <2>1 DEF Continuous
    <2>3. Last(q) = q[Len(q)] BY DEF Last
    <2>4. QED BY <1>3, <2>1, <2>2, <2>3
  <1>4. QED BY <1>1, <1>2, <1>3

\* A log has no gap if the files before the last have none and it continues them.
LEMMA ContinuousAppend ==
    ASSUME NEW F \in Seq(Files), NEW x \in Files
    PROVE  Continuous(SequencesOf(Append(F, x))) <=> Continuous(SequencesOf(F)) /\ Continues(F, x)
  <1> DEFINE q == SequencesOf(F)
             r == SequencesOf(Append(F, x))
             e == Numbers(x)
             n == Len(q)
             m == Len(x.records)
  <1>1. q \in Seq(Nat) /\ r = q \o e /\ r \in Seq(Nat) BY SequencesAppend
  <1>2. e \in Seq(Nat) /\ Len(e) = m /\ m \in Nat /\ \A k \in 1 .. m : e[k] = x.records[k].seq
    BY NumbersAre
  <1>3. Continues(F, x) <=> \A k \in 1 .. m : e[k] = n + k - 1 BY <1>2 DEF Continues
  <1> HIDE DEF q, r, e
  <1>4. n \in Nat /\ Len(r) = n + m
        /\ \A i \in 1 .. n + m : r[i] = IF i <= n THEN q[i] ELSE e[i - n]
    <2>1. /\ Len(q \o e) = Len(q) + Len(e)
          /\ \A i \in 1 .. Len(q) + Len(e) :
                (q \o e)[i] = IF i <= Len(q) THEN q[i] ELSE e[i - Len(q)]
      BY <1>1, <1>2, ConcatProperties
    <2>2. Len(q) \in Nat BY <1>1
    <2> HIDE DEF m
    <2>3. QED BY <1>1, <1>2, <2>1, <2>2
  <1> HIDE DEF n, m
  <1>5. \A i \in 1 .. n : i \in 1 .. n + m /\ r[i] = q[i] BY <1>2, <1>4
  <1>6. \A k \in 1 .. m : n + k \in 1 .. n + m /\ r[n + k] = e[k]
    <2> TAKE k \in 1 .. m
    <2>1. n + k \in 1 .. n + m /\ ~(n + k <= n) /\ n + k - n = k BY <1>2, <1>4
    <2>2. r[n + k] = e[n + k - n] BY <1>4, <2>1
    <2>3. QED BY <2>1, <2>2
  <1>7. ASSUME Continuous(r) PROVE Continuous(q) /\ \A k \in 1 .. m : e[k] = n + k - 1
    <2>1. \A i \in 1 .. n + m : r[i] = i - 1 BY <1>4, <1>7 DEF Continuous
    <2>2. \A i \in 1 .. n : q[i] = i - 1 BY <1>5, <2>1
    <2>3. ASSUME NEW k \in 1 .. m PROVE e[k] = n + k - 1
      <3>1. n + k \in 1 .. n + m /\ r[n + k] = e[k] BY <1>6
      <3>2. r[n + k] = (n + k) - 1 BY <2>1, <3>1
      <3>3. QED BY <1>4, <3>1, <3>2
    <2>4. QED BY <2>2, <2>3 DEF Continuous, n
  <1>8. ASSUME Continuous(q), \A k \in 1 .. m : e[k] = n + k - 1 PROVE Continuous(r)
    <2>1. \A i \in 1 .. n : q[i] = i - 1 BY <1>8 DEF Continuous, n
    <2>2. ASSUME NEW i \in 1 .. n + m PROVE r[i] = i - 1
      <3>1. CASE i <= n
        <4>1. i \in 1 .. n BY <1>4, <2>2, <3>1
        <4>2. QED BY <1>5, <2>1, <4>1
      <3>2. CASE ~(i <= n)
        <4>1. i - n \in 1 .. m /\ n + (i - n) = i BY <1>2, <1>4, <2>2, <3>2
        <4> DEFINE k == i - n
        <4>2. n + k = i /\ n + k - 1 = i - 1 BY <1>4, <4>1
        <4>3. k \in 1 .. m BY <4>1
        <4> HIDE DEF k
        <4>4. r[n + k] = e[k] /\ e[k] = n + k - 1 BY <1>6, <1>8, <4>3
        <4>5. QED BY <4>2, <4>4
      <3>3. QED BY <3>1, <3>2
    <2>3. QED BY <1>4, <2>2 DEF Continuous
  <1>9. QED BY <1>3, <1>7, <1>8 DEF q, r

\* A log that holds the sequences up to n: where its last file begins, and that none is
\* in it that is not below n.
LEMMA LogHolds ==
    ASSUME NEW F \in Seq(Files), NEW x \in Files, NEW n \in Nat,
           SequencesOf(Append(F, x)) = Upto(n)
    PROVE  /\ Continuous(SequencesOf(Append(F, x))) /\ Continues(F, x)
           /\ n = Len(SequencesOf(F)) + Len(x.records)
           /\ Len(SequencesOf(F)) \in Nat /\ Len(x.records) \in Nat
  <1>1. Continuous(Upto(n)) /\ Len(Upto(n)) = n BY UptoIs
  <1>2. Continuous(SequencesOf(Append(F, x))) BY <1>1
  <1>3. /\ Len(SequencesOf(Append(F, x))) = Len(SequencesOf(F)) + Len(x.records)
        /\ SequencesOf(F) \in Seq(Nat)
    BY SequencesAppend
  <1>4. Len(x.records) \in Nat BY FilesAre
  <1>5. Len(SequencesOf(F)) \in Nat BY <1>3
  <1>6. QED BY <1>1, <1>2, <1>3, <1>4, <1>5, ContinuousAppend

\* What a file of the log holds the log holds.
LEMMA HeldByLog ==
    ASSUME NEW G \in Seq(Files), NEW n \in Nat, SequencesOf(G) = Upto(n),
           NEW i \in 1 .. Len(G), NEW k \in 1 .. Len(G[i].records)
    PROVE  G[i].records[k].seq < n
  <1> DEFINE m == Len(G)
             ss == [j \in 1 .. m |-> Numbers(G[j])]
  <1>1. m \in Nat /\ \A j \in 1 .. m : G[j] \in Files OBVIOUS
  <1>2. FlattenSeq(ss) = Upto(n) BY DEF SequencesOf, Numbers
  <1>3. \A j \in 1 .. m : Numbers(G[j]) \in Seq(Nat) BY <1>1, NumbersAre
  <1>4. ss[i] = Numbers(G[i]) /\ i \in 1 .. m OBVIOUS
  <1>5. Numbers(G[i])[k] = G[i].records[k].seq /\ k \in 1 .. Len(Numbers(G[i]))
        /\ Numbers(G[i]) \in Seq(Nat)
    BY <1>1, NumbersAre
  <1>6. ss \in Seq(Seq(Nat)) /\ DOMAIN ss = 1 .. m
    <2>1. DOMAIN ss = 1 .. m OBVIOUS
    <2> HIDE DEF m
    <2>2. ss \in [1 .. m -> Seq(Nat)] BY <1>3
    <2> HIDE DEF ss
    <2>3. QED BY <1>1, <2>1, <2>2
  <1> HIDE DEF ss, m
  <1>7. Range(FlattenSeq(ss)) = Held(ss) BY <1>6, FlattenMembers
  <1>8. G[i].records[k].seq \in Range(ss[i])
    <2>1. k \in DOMAIN Numbers(G[i]) BY <1>5
    <2>2. QED BY <1>4, <1>5, <2>1 DEF Range
  <1>9. G[i].records[k].seq \in Held(ss) BY <1>4, <1>6, <1>8 DEF Held
  <1>10. G[i].records[k].seq \in Range(Upto(n)) BY <1>2, <1>7, <1>9
  <1>11. PICK j \in 1 .. n : G[i].records[k].seq = j - 1
    BY <1>10 DEF Range, Upto
  <1>12. QED BY <1>11

-----------------------------------------------------------------------------
(* What a fault leaves of a file.                                          *)

\* A file that was cut after k records.
LEMMA CutIs ==
    ASSUME NEW f \in Files, NEW k \in Nat, k <= Len(f.records), f.synced <= k,
           NEW ending \in {"clean", "torn", "garbled"}
    PROVE  /\ Cut(f, k, ending) = [first |-> f.first, records |-> SubSeq(f.records, 1, k),
                                 written |-> k, synced |-> f.synced, tail |-> ending]
           /\ Cut(f, k, ending) \in Files
           /\ Len(SubSeq(f.records, 1, k)) = k
           /\ Shortens(Cut(f, k, ending), f)
  <1> DEFINE s == SubSeq(f.records, 1, k)
             r == [first |-> f.first, records |-> s, written |-> k, synced |-> f.synced, tail |-> ending]
  <1>1. f.records \in Seq(LogRecords) /\ f.synced \in Nat /\ f.first \in Nat BY FilesAre
  <1>2. Min({k, f.synced}) = f.synced BY <1>1, MinOfTwo
  <1>3. s \in Seq(LogRecords) /\ Len(s) = k /\ \A i \in 1 .. k : s[i] = f.records[i]
    <2>1. Len(f.records) \in Nat /\ \A i \in 1 .. k : f.records[i] \in LogRecords BY <1>1
    <2>2. QED BY <2>1
  <1>4. Cut(f, k, ending) = r
    <2> DEFINE u == Min({k, f.synced})
               g == [f EXCEPT !.records = s, !.written = k, !.synced = u, !.tail = ending]
               R == Seq(LogRecords)
               T == {"clean", "torn", "garbled"}
               A == [first : Nat, records : R, written : Nat, synced : Nat, tail : T]
    <2>1. f \in A BY DEF Files, FileTypes
    <2>2. u \in Nat /\ s \in R /\ ending \in T BY <1>1, <1>2, <1>3
    <2>3. Cut(f, k, ending) = g BY DEF Cut
    <2>4. u = f.synced BY <1>2
    <2> HIDE DEF u, s, R, T
    <2>5. g \in A /\ g.first = f.first /\ g.records = s /\ g.written = k /\ g.synced = u /\ g.tail = ending
      BY <2>1, <2>2
    <2> HIDE DEF g
    <2>6. g = [first |-> g.first, records |-> g.records, written |-> g.written,
               synced |-> g.synced, tail |-> g.tail]
      BY <2>5
    <2>7. QED BY <2>3, <2>4, <2>5, <2>6
  <1> HIDE DEF s
  <1>5. r \in Files BY <1>1, <1>3 DEF Files, FileTypes
  <1>6. Shortens(r, f) BY <1>3 DEF Shortens
  <1>7. QED BY <1>3, <1>4, <1>5, <1>6 DEF s

\* Whatever is left is a file cut short: what was fsynced is in it, and it is on disk
\* whole.
LEMMA RemainsAre ==
    ASSUME NEW f \in Files, NEW n \in Nat, f.synced <= n,
           NEW tails \in SUBSET {"torn", "garbled"}, NEW r \in Remains(f, n, tails)
    PROVE  /\ r \in Files /\ Shortens(r, f)
           /\ r.written = Len(r.records) /\ r.synced = f.synced
           /\ r.tail = "clean" \/ (r.tail \in tails /\ n < Len(f.records))
           /\ n = Len(f.records) => r.records = f.records /\ r.tail = "clean"
  <1>1. f.records \in Seq(LogRecords) /\ Len(f.records) \in Nat BY FilesAre
  <1>2. PICK k \in n .. Len(f.records), ending \in {"clean"} \cup tails :
           r = Cut(f, k, ending) /\ (ending = "clean" \/ k \in n .. Len(f.records) - 1)
    <2>1. CASE r \in {Cut(f, k, "clean") : k \in n .. Len(f.records)} BY <2>1
    <2>2. CASE r \in {Cut(f, k, ending) : k \in n .. Len(f.records) - 1, ending \in tails}
      <3>1. PICK k \in n .. Len(f.records) - 1, ending \in tails : r = Cut(f, k, ending) BY <2>2
      <3>2. k \in n .. Len(f.records) BY <1>1
      <3>3. QED BY <3>1, <3>2
    <2>3. QED BY <2>1, <2>2 DEF Remains
  <1>3. k \in Nat /\ k <= Len(f.records) /\ f.synced <= k /\ ending \in {"clean", "torn", "garbled"}
    BY <1>1, <1>2, FilesAre
  <1>4. /\ r \in Files /\ Shortens(r, f)
        /\ r = [first |-> f.first, records |-> SubSeq(f.records, 1, k),
                written |-> k, synced |-> f.synced, tail |-> ending]
        /\ Len(SubSeq(f.records, 1, k)) = k
    BY <1>2, <1>3, CutIs
  <1>5. r.written = Len(r.records) /\ r.synced = f.synced /\ r.tail = ending
        /\ r.records = SubSeq(f.records, 1, k)
    BY <1>4
  <1>6. r.tail = "clean" \/ (r.tail \in tails /\ n < Len(f.records)) BY <1>1, <1>2, <1>5
  <1>7. ASSUME n = Len(f.records) PROVE r.records = f.records
    <2>1. k = Len(f.records) BY <1>1, <1>2, <1>7
    <2>2. SubSeq(f.records, 1, Len(f.records)) = f.records BY <1>1, SubSeqFull
    <2>3. QED BY <1>5, <2>1, <2>2
  <1>8. QED BY <1>4, <1>5, <1>6, <1>7

\* A whole file is left as it is.
LEMMA WholeRemains ==
    ASSUME NEW f \in Files, Whole(f),
           NEW tails \in SUBSET {"torn", "garbled"}, NEW r \in Remains(f, f.synced, tails)
    PROVE  r = f
  <1>1. f.synced \in Nat /\ f.synced = Len(f.records) /\ f.written = Len(f.records) /\ f.tail = "clean"
    BY FilesAre DEF Whole
  <1>2. f.synced <= f.synced BY <1>1
  <1>3. /\ r \in Files /\ Shortens(r, f) /\ r.written = Len(r.records) /\ r.synced = f.synced
        /\ r.records = f.records /\ r.tail = "clean"
    BY <1>1, <1>2, RemainsAre
  <1>4. r.first = f.first BY <1>3 DEF Shortens
  <1>5. r = [first |-> r.first, records |-> r.records, written |-> r.written,
             synced |-> r.synced, tail |-> r.tail]
    BY <1>3, FilesAre
  <1>6. f = [first |-> f.first, records |-> f.records, written |-> f.written,
             synced |-> f.synced, tail |-> f.tail]
    BY FilesAre
  <1>7. QED BY <1>1, <1>3, <1>4, <1>5, <1>6

-----------------------------------------------------------------------------
(* What keeps a log.                                                       *)

\* The last file may lose records as long as what was promised is on the platter.
LEMMA ShorterKept ==
    ASSUME NEW F, NEW x, NEW l \in BOOLEAN, NEW p, Log(F, x, l, p),
           NEW y \in Files, Shortens(y, x), NEW q \in Nat,
           l \/ q <= Len(SequencesOf(F)) + y.synced
    PROVE  Log(F, y, l, q)
  <1>1. F \in Seq(Files) /\ x \in Files /\ Behind(F, x) /\ (l \/ Tight(F, x, p)) BY DEF Log
  <1>2. Behind(F, y) BY <1>1 DEF Behind, NamedBehind, Shortens
  <1>3. ASSUME ~l PROVE Tight(F, y, q)
    <2>1. /\ \A i \in DOMAIN F : Whole(F[i])
          /\ Continuous(SequencesOf(Append(F, x))) /\ x.first = Len(SequencesOf(F))
      BY <1>1, <1>3 DEF Tight
    <2>2. Continuous(SequencesOf(F)) /\ Continues(F, x) BY <1>1, <2>1, ContinuousAppend
    <2>3. Continues(F, y)
      <3>1. Len(y.records) \in Nat /\ Len(x.records) \in Nat BY <1>1, FilesAre
      <3>2. \A k \in 1 .. Len(y.records) : k \in 1 .. Len(x.records) /\ y.records[k] = x.records[k]
        BY <3>1 DEF Shortens
      <3>3. QED BY <2>2, <3>2 DEF Continues
    <2>4. Continuous(SequencesOf(Append(F, y))) BY <1>1, <2>2, <2>3, ContinuousAppend
    <2>5. y.first = x.first BY DEF Shortens
    <2>6. QED BY <1>3, <2>1, <2>4, <2>5 DEF Tight
  <1>4. QED BY <1>1, <1>2, <1>3 DEF Log

-----------------------------------------------------------------------------
(* What the writer makes of a file.                                        *)

\* A new file, for the sequences from n on.
LEMMA NewIs ==
    ASSUME NEW n \in Nat
    PROVE  /\ NewSegment(n) \in Files /\ NewSegment(n).first = n
           /\ NewSegment(n).records = << >> /\ Len(NewSegment(n).records) = 0
           /\ NewSegment(n).written = 0 /\ NewSegment(n).synced = 0
           /\ NewSegment(n).tail = "clean"
  <1> DEFINE none == << >>
  <1>1. none \in Seq(LogRecords) /\ Len(none) = 0 OBVIOUS
  <1>2. NewSegment(n) = [first |-> n, records |-> none, written |-> 0, synced |-> 0, tail |-> "clean"]
    BY DEF NewSegment
  <1> HIDE DEF none
  <1>3. NewSegment(n) \in Files BY <1>1, <1>2 DEF Files, FileTypes
  <1>4. QED BY <1>1, <1>2, <1>3 DEF none

\* All of the file on the platter.
LEMMA FlushedIs ==
    ASSUME NEW f \in Files
    PROVE  /\ Flushed(f) \in Files /\ Shortens(Flushed(f), f)
           /\ Flushed(f).first = f.first /\ Flushed(f).records = f.records
           /\ Flushed(f).written = Len(f.records) /\ Flushed(f).synced = Len(f.records)
           /\ Flushed(f).tail = f.tail
  <1> DEFINE n == Len(f.records)
             g == [f EXCEPT !.written = n, !.synced = n]
  <1>1. f \in FileTypes /\ n \in Nat BY FilesAre DEF Files, FileTypes
  <1>2. Flushed(f) = g BY DEF Flushed
  <1>3. n <= n /\ f.records = f.records BY <1>1
  <1>4. Len(f.records) = n OBVIOUS
  <1> HIDE DEF n
  <1>5. /\ g \in FileTypes /\ g.first = f.first /\ g.records = f.records
        /\ g.written = n /\ g.synced = n /\ g.tail = f.tail
    BY <1>1 DEF FileTypes
  <1> HIDE DEF g
  <1>6. g \in Files BY <1>3, <1>4, <1>5 DEF Files, FileTypes
  <1>7. Shortens(g, f) BY <1>3, <1>4, <1>5 DEF Shortens
  <1>8. QED BY <1>2, <1>4, <1>5, <1>6, <1>7

\* A file after what is behind its records was cut off.
LEMMA TruncatedIs ==
    ASSUME NEW f \in Files
    PROVE  /\ Truncated(f) \in Files /\ Shortens(Truncated(f), f)
           /\ Truncated(f).records = f.records /\ Truncated(f).tail = "clean"
           /\ f.synced <= Truncated(f).synced
           /\ f.written = Len(f.records) => Truncated(f).written = Len(f.records)
  <1>1. /\ Flushed(f) \in Files /\ Shortens(Flushed(f), f)
        /\ Flushed(f).first = f.first /\ Flushed(f).records = f.records
        /\ Flushed(f).written = Len(f.records) /\ Flushed(f).synced = Len(f.records)
    BY FlushedIs
  <1>2. f.synced <= Len(f.records) /\ Len(f.records) \in Nat /\ f.synced <= f.synced
        /\ \A k \in 1 .. Len(f.records) : f.records[k] = f.records[k]
    <2>1. f.synced \in Nat /\ f.written \in Nat /\ f.synced <= f.written /\ f.written <= Len(f.records)
          /\ Len(f.records) \in Nat
      BY FilesAre
    <2>2. QED BY <2>1
  <1>3. CASE f.tail = "clean"
    <2>1. Truncated(f) = f BY <1>3 DEF Truncated
    <2>2. Shortens(f, f) BY <1>2 DEF Shortens
    <2>3. QED BY <1>2, <1>3, <2>1, <2>2
  <1>4. CASE f.tail # "clean"
    <2> DEFINE h == Flushed(f)
               g == [h EXCEPT !.tail = "clean"]
    <2>1. Truncated(f) = g BY <1>4 DEF Truncated
    <2>2. h \in FileTypes /\ h \in Files BY <1>1 DEF Files, FileTypes
    <2>3. h.synced <= h.written /\ h.written <= Len(h.records) BY <2>2, FilesAre
    <2>4. Shortens(h, f) /\ h.records = f.records /\ h.written = Len(f.records) /\ h.synced = Len(f.records)
      BY <1>1
    <2> HIDE DEF h
    <2>5. /\ g \in FileTypes /\ g.first = h.first /\ g.records = h.records
          /\ g.written = h.written /\ g.synced = h.synced /\ g.tail = "clean"
      BY <2>2 DEF FileTypes
    <2> HIDE DEF g
    <2>6. g \in Files BY <2>3, <2>5 DEF Files, FileTypes
    <2>7. Shortens(g, f) BY <2>4, <2>5 DEF Shortens
    <2>8. QED BY <1>2, <2>1, <2>4, <2>5, <2>6, <2>7
  <1>5. QED BY <1>3, <1>4

\* A file with one record more.
LEMMA WithRecordIs ==
    ASSUME NEW f \in Files, NEW r \in LogRecords, NEW g, g = [f EXCEPT !.records = Append(@, r)]
    PROVE  /\ g \in Files /\ g.first = f.first /\ g.records = Append(f.records, r)
           /\ g.written = f.written /\ g.synced = f.synced /\ g.tail = f.tail
           /\ Len(g.records) = Len(f.records) + 1 /\ Len(f.records) \in Nat
           /\ g.records[Len(f.records) + 1] = r
           /\ \A k \in 1 .. Len(f.records) : g.records[k] = f.records[k]
  <1> DEFINE s == Append(f.records, r)
  <1>1. f.records \in Seq(LogRecords) /\ Len(f.records) \in Nat BY FilesAre
  <1>2. /\ s \in Seq(LogRecords) /\ Len(s) = Len(f.records) + 1 /\ s[Len(f.records) + 1] = r
        /\ \A k \in 1 .. Len(f.records) : s[k] = f.records[k]
    BY <1>1, AppendProperties
  <1>3. g = [f EXCEPT !.records = s] OBVIOUS
  <1>4. f \in FileTypes /\ f.synced \in Nat /\ f.written \in Nat /\ f.synced <= f.written
        /\ f.written <= Len(f.records)
    BY FilesAre DEF Files, FileTypes
  <1> HIDE DEF s
  <1>5. /\ g \in FileTypes /\ g.first = f.first /\ g.records = s
        /\ g.written = f.written /\ g.synced = f.synced /\ g.tail = f.tail
    BY <1>2, <1>3, <1>4 DEF FileTypes
  <1>6. g.synced <= g.written /\ g.written <= Len(g.records) BY <1>1, <1>2, <1>4, <1>5
  <1>7. g \in Files BY <1>5, <1>6 DEF Files, FileTypes
  <1>8. QED BY <1>1, <1>2, <1>5, <1>7 DEF s

-----------------------------------------------------------------------------
(* Writing.                                                                *)

\* One record more leaves a log, and an open one open.
LEMMA RecordAdded ==
    ASSUME NEW F, NEW x, NEW l \in BOOLEAN, NEW p, Log(F, x, l, p),
           NEW n, NEW b, IsOpen(F, x, n, b), NEW s \in Nat,
           NEW y, y = [x EXCEPT !.records = Append(@, [seq |-> n, size |-> s])]
    PROVE  Log(F, y, l, p) /\ IsOpen(F, y, n + 1, b) /\ y \in Files
  <1> DEFINE r == [seq |-> n, size |-> s]
             q == Len(SequencesOf(F))
             m == Len(x.records)
  <1>1. F \in Seq(Files) /\ x \in Files /\ p \in Nat /\ Behind(F, x) /\ (l \/ Tight(F, x, p)) BY DEF Log
  <1>2. /\ \A i \in DOMAIN F : F[i].tail = "clean" /\ F[i].written = Len(F[i].records)
        /\ x.tail = "clean" /\ n \in Nat /\ b \in Nat /\ b <= n
        /\ SequencesOf(Append(F, x)) = Upto(n)
    BY DEF IsOpen
  <1>3. r \in LogRecords /\ r.seq = n BY <1>2 DEF LogRecords
  <1> HIDE DEF r
  <1>4. /\ y \in Files /\ y.first = x.first /\ y.written = x.written /\ y.synced = x.synced
        /\ y.tail = x.tail /\ Len(y.records) = m + 1 /\ m \in Nat
        /\ y.records[m + 1] = r /\ \A k \in 1 .. m : y.records[k] = x.records[k]
    <2>1. y = [x EXCEPT !.records = Append(@, r)] BY DEF r
    <2>2. QED BY <1>1, <1>3, <2>1, WithRecordIs
  <1>5. /\ Continuous(SequencesOf(F)) /\ Continues(F, x) /\ n = q + m /\ q \in Nat
    BY <1>1, <1>2, LogHolds, ContinuousAppend
  <1> HIDE DEF m
  <1>6. Continues(F, y)
    <2>1. \A k \in 1 .. m : x.records[k].seq = q + k - 1 BY <1>5 DEF Continues, m
    <2>2. ASSUME NEW k \in 1 .. m + 1 PROVE y.records[k].seq = q + k - 1
      <3>1. CASE k \in 1 .. m BY <1>4, <2>1, <3>1
      <3>2. CASE k = m + 1
        <4>1. y.records[k].seq = n BY <1>3, <1>4, <3>2
        <4> HIDE DEF q
        <4>2. n = q + (m + 1) - 1 BY <1>4, <1>5
        <4>3. QED BY <3>2, <4>1, <4>2
      <3>3. k \in 1 .. m \/ k = m + 1 BY <1>4
      <3>4. QED BY <3>1, <3>2, <3>3
    <2>3. QED BY <1>4, <2>2 DEF Continues
  <1>7. Continuous(SequencesOf(Append(F, y))) BY <1>1, <1>4, <1>5, <1>6, ContinuousAppend
  <1>8. SequencesOf(Append(F, y)) = Upto(n + 1)
    <2>1. SequencesOf(Append(F, y)) \in Seq(Nat) /\ Len(SequencesOf(Append(F, y))) = q + (m + 1)
      BY <1>1, <1>4, SequencesAppend
    <2>2. q + (m + 1) = n + 1 BY <1>4, <1>5
    <2>3. QED BY <1>7, <2>1, <2>2, ContinuousIs
  <1>9. Behind(F, y) BY <1>1, <1>4 DEF Behind, NamedBehind
  <1>10. l \/ Tight(F, y, p) BY <1>1, <1>4, <1>7 DEF Tight
  <1>11. Log(F, y, l, p) BY <1>1, <1>4, <1>9, <1>10 DEF Log
  <1>12. n + 1 \in Nat /\ b <= n + 1 /\ n + 1 # b BY <1>2
  <1>13. y.tail = "clean" BY <1>2, <1>4
  <1>14. IsOpen(F, y, n + 1, b) BY <1>2, <1>8, <1>12, <1>13 DEF IsOpen
  <1>15. QED BY <1>4, <1>11, <1>14

\* A new file behind one that is on disk: it is loose, or the one before is whole.
LEMMA FileAdded ==
    ASSUME NEW F, NEW x, NEW l \in BOOLEAN, NEW p, Log(F, x, l, p),
           NEW n, NEW b, IsOpen(F, x, n, b), x.written = Len(x.records),
           NEW k \in BOOLEAN, k \/ (~l /\ x.synced = Len(x.records)),
           NEW o \in Nat, k \/ o <= n
    PROVE  Log(Append(F, x), NewSegment(n), k, o) /\ IsOpen(Append(F, x), NewSegment(n), n, b)
  <1> DEFINE G == Append(F, x)
             y == NewSegment(n)
  <1>1. F \in Seq(Files) /\ x \in Files /\ Behind(F, x) /\ (l \/ Tight(F, x, p)) BY DEF Log
  <1>2. /\ \A i \in DOMAIN F : F[i].tail = "clean" /\ F[i].written = Len(F[i].records)
        /\ x.tail = "clean" /\ n \in Nat /\ b \in Nat /\ b <= n
        /\ SequencesOf(G) = Upto(n)
    BY DEF IsOpen
  <1>3. /\ y \in Files /\ y.first = n /\ Len(y.records) = 0 /\ y.written = 0 /\ y.synced = 0
        /\ y.tail = "clean"
    BY <1>2, NewIs
  <1>4. /\ G \in Seq(Files) /\ Len(G) = Len(F) + 1 /\ Len(F) \in Nat /\ G[Len(F) + 1] = x
        /\ (\A i \in 1 .. Len(F) : G[i] = F[i]) /\ DOMAIN F = 1 .. Len(F) /\ DOMAIN G = 1 .. Len(G)
    BY <1>1, LastFile
  <1>5. Upto(n) \in Seq(Nat) /\ Len(Upto(n)) = n /\ Continuous(Upto(n)) BY <1>2, UptoIs
  <1>6. Continues(F, x) /\ n = Len(SequencesOf(F)) + Len(x.records)
        /\ Len(SequencesOf(F)) \in Nat /\ Len(x.records) \in Nat
    BY <1>1, <1>2, LogHolds
  <1>7. \A i \in 1 .. Len(G) : \A j \in 1 .. Len(G[i].records) : G[i].records[j].seq < n
    BY <1>2, <1>4, HeldByLog
  <1> HIDE DEF G, y
  <1>8. \A i \in 1 .. Len(G) : i \in 1 .. Len(F) \/ i = Len(F) + 1 BY <1>4
  <1>9. \A i \in DOMAIN G : G[i].tail = "clean" /\ G[i].written = Len(G[i].records)
    BY <1>2, <1>4, <1>8
  <1>10. Continuous(SequencesOf(Append(G, y))) /\ SequencesOf(Append(G, y)) = Upto(n)
    <2>1. Continues(G, y) BY <1>3 DEF Continues
    <2>2. Continuous(SequencesOf(Append(G, y))) BY <1>2, <1>3, <1>4, <1>5, <2>1, ContinuousAppend
    <2>3. SequencesOf(Append(G, y)) \in Seq(Nat) /\ Len(SequencesOf(Append(G, y))) = n + 0
      BY <1>2, <1>3, <1>4, <1>5, SequencesAppend
    <2>4. n + 0 = n BY <1>2
    <2>5. QED BY <2>2, <2>3, <2>4, ContinuousIs
  <1>11. Behind(G, y)
    <2>1. ASSUME NEW i \in DOMAIN G PROVE NamedBehind(G[i], y)
      <3>1. G[i] \in Files BY <1>4
      <3>2. DOMAIN G[i].records = 1 .. Len(G[i].records)
        <4>1. G[i].records \in Seq(LogRecords) BY <3>1, FilesAre
        <4>2. QED BY <4>1
      <3>3. QED BY <1>3, <1>4, <1>7, <3>2 DEF NamedBehind
    <2>2. ASSUME NEW i \in DOMAIN G, NEW j \in DOMAIN G, i < j PROVE NamedBehind(G[i], G[j])
      <3>1. i \in 1 .. Len(F) BY <1>4, <2>2
      <3>2. CASE j \in 1 .. Len(F) BY <1>1, <1>4, <2>2, <3>1, <3>2 DEF Behind
      <3>3. CASE j = Len(F) + 1 BY <1>1, <1>4, <3>1, <3>3 DEF Behind
      <3>4. QED BY <1>4, <1>8, <3>2, <3>3
    <2>3. QED BY <2>1, <2>2 DEF Behind
  <1>12. ASSUME ~k PROVE Tight(G, y, o)
    <2>1. /\ \A i \in DOMAIN F : Whole(F[i])
          /\ x.first = Len(SequencesOf(F))
      BY <1>1, <1>12 DEF Tight
    <2>2. Whole(x)
      <3>1. ASSUME x.records # << >> PROVE x.first = x.records[1].seq
        <4>1. x.records \in Seq(LogRecords) BY <1>1, FilesAre
        <4>2. 1 \in 1 .. Len(x.records) BY <3>1, <4>1
        <4>3. x.records[1].seq = Len(SequencesOf(F)) + 1 - 1 BY <1>6, <4>2 DEF Continues
        <4>4. QED BY <1>6, <2>1, <4>3
      <3>2. QED BY <1>2, <1>12, <3>1 DEF Whole
    <2>3. \A i \in DOMAIN G : Whole(G[i]) BY <1>4, <1>8, <2>1, <2>2
    <2>4. Len(SequencesOf(G)) = n BY <1>2, <1>5
    <2>5. o <= n + 0 BY <1>2, <1>12
    <2>6. QED BY <1>3, <1>10, <2>3, <2>4, <2>5 DEF Tight
  <1>13. Log(G, y, k, o) BY <1>3, <1>4, <1>11, <1>12 DEF Log
  <1>14. IsOpen(G, y, n, b) BY <1>2, <1>3, <1>9, <1>10 DEF IsOpen
  <1>15. QED BY <1>13, <1>14 DEF G, y

\* A flush puts all there is on the platter.
LEMMA FlushKept ==
    ASSUME NEW F, NEW x, NEW l \in BOOLEAN, NEW p, Log(F, x, l, p),
           NEW n, NEW b, IsOpen(F, x, n, b)
    PROVE  /\ Log(F, Flushed(x), l, n) /\ IsOpen(F, Flushed(x), n, b)
           /\ Flushed(x).written = Len(Flushed(x).records)
           /\ Flushed(x).synced = Len(Flushed(x).records)
  <1> DEFINE y == Flushed(x)
  <1>1. F \in Seq(Files) /\ x \in Files /\ p \in Nat BY DEF Log
  <1>2. /\ \A i \in DOMAIN F : F[i].tail = "clean" /\ F[i].written = Len(F[i].records)
        /\ x.tail = "clean" /\ n \in Nat /\ b \in Nat /\ b <= n
        /\ SequencesOf(Append(F, x)) = Upto(n)
    BY DEF IsOpen
  <1>3. /\ y \in Files /\ Shortens(y, x) /\ y.records = x.records
        /\ y.written = Len(x.records) /\ y.synced = Len(x.records) /\ y.tail = x.tail
    BY <1>1, FlushedIs
  <1>4. /\ n = Len(SequencesOf(F)) + Len(x.records)
        /\ Len(SequencesOf(F)) \in Nat /\ Len(x.records) \in Nat
    BY <1>1, <1>2, LogHolds
  <1> HIDE DEF y
  <1>5. n <= Len(SequencesOf(F)) + y.synced BY <1>3, <1>4
  <1>6. Log(F, y, l, n) BY <1>2, <1>3, <1>5, ShorterKept
  <1>7. SequencesOf(Append(F, y)) = Upto(n)
    <2>1. Numbers(y) = Numbers(x) BY <1>3 DEF Numbers
    <2>2. QED BY <1>1, <1>2, <1>3, <2>1, SequencesAppend
  <1>8. IsOpen(F, y, n, b) BY <1>2, <1>3, <1>7 DEF IsOpen
  <1>9. QED BY <1>3, <1>6, <1>8 DEF y

\* The state after a step that leaves the log open, and after one that leaves it closed.
LEMMA LeftOpen ==
    ASSUME NEW F, NEW x, loose' \in BOOLEAN, Log(F, x, loose', promised'),
           IsOpen(F, x, next', booted'), segments' = Append(F, x), phase' = "up"
    PROVE  LogInv' /\ PhaseInv'
  <1>1. F \in Seq(Files) /\ x \in Files /\ promised' \in Nat BY DEF Log
  <1>2. /\ segments' \in Seq(Files) /\ segments' # << >>
        /\ Front(segments') = F /\ Last(segments') = x
    BY <1>1, LastFile
  <1>3. LogInv' BY <1>1, <1>2 DEF LogInv
  <1>4. PhaseInv' BY <1>2 DEF PhaseInv, RefusedOnlyOverLoss
  <1>5. QED BY <1>3, <1>4

\* A step that leaves the files F and x behind a process that ended.
LEMMA LeftDown ==
    ASSUME NEW F, NEW x, loose' \in BOOLEAN, Log(F, x, loose', promised'),
           \A i \in DOMAIN F : F[i].written = Len(F[i].records), x.written = Len(x.records),
           segments' = Append(F, x), phase' = "down"
    PROVE  LogInv' /\ PhaseInv'
  <1>1. F \in Seq(Files) /\ x \in Files /\ promised' \in Nat BY DEF Log
  <1>2. /\ segments' \in Seq(Files) /\ segments' # << >>
        /\ Front(segments') = F /\ Last(segments') = x
        /\ Len(segments') = Len(F) + 1 /\ Len(F) \in Nat
        /\ \A i \in 1 .. Len(F) : segments'[i] = F[i]
        /\ segments'[Len(F) + 1] = x
    BY <1>1, LastFile
  <1>3. LogInv' BY <1>1, <1>2 DEF LogInv
  <1>4. \A i \in DOMAIN segments' : segments'[i].written = Len(segments'[i].records)
    <2>1. DOMAIN segments' = 1 .. Len(F) + 1 /\ DOMAIN F = 1 .. Len(F) BY <1>1, <1>2
    <2>2. \A i \in 1 .. Len(F) + 1 : i \in 1 .. Len(F) \/ i = Len(F) + 1 BY <1>2
    <2>3. QED BY <1>2, <2>1, <2>2
  <1>5. PhaseInv' BY <1>4 DEF PhaseInv, RefusedOnlyOverLoss
  <1>6. QED BY <1>3, <1>5

\* The files of a log that is open.
LEMMA UpIs ==
    ASSUME WalInv, phase = "up"
    PROVE  /\ segments # << >> /\ loose \in BOOLEAN /\ promised \in Nat
           /\ segments = Append(Front(segments), Last(segments))
           /\ Front(segments) \in Seq(Files) /\ Last(segments) \in Files
           /\ Log(Front(segments), Last(segments), loose, promised)
           /\ IsOpen(Front(segments), Last(segments), next, booted)
           /\ next \in Nat /\ booted \in Nat
  <1>1. LogInv /\ PhaseInv BY DEF WalInv
  <1>2. /\ segments # << >> /\ loose \in BOOLEAN /\ promised \in Nat /\ segments \in Seq(Files)
        /\ Log(Front(segments), Last(segments), loose, promised)
        /\ IsOpen(Front(segments), Last(segments), next, booted)
    BY <1>1 DEF LogInv, PhaseInv
  <1>3. next \in Nat /\ booted \in Nat BY <1>2 DEF IsOpen
  <1>4. QED BY <1>2, <1>3, LastFile

-----------------------------------------------------------------------------
(* The steps of the log.                                                   *)

\* flush.
LEMMA FlushStep ==
    ASSUME WalInv, Flush
    PROVE  LogInv' /\ PhaseInv'
  <1> DEFINE F == Front(segments)
             x == Last(segments)
             y == Flushed(x)
  <1>1. /\ phase = "up" /\ segments' = Append(F, y) /\ promised' = next
        /\ next' = next /\ booted' = booted /\ loose' = loose /\ phase' = "up"
    BY DEF Flush
  <1>2. loose \in BOOLEAN /\ Log(F, x, loose, promised) /\ IsOpen(F, x, next, booted) BY <1>1, UpIs
  <1> HIDE DEF F, x
  <1>3. Log(F, y, loose, next) /\ IsOpen(F, y, next, booted) BY <1>2, FlushKept
  <1> HIDE DEF y
  <1>4. loose' \in BOOLEAN /\ Log(F, y, loose', promised') /\ IsOpen(F, y, next', booted')
    BY <1>1, <1>2, <1>3
  <1>5. QED BY <1>1, <1>4, LeftOpen

\* A log before a record goes in: the files are there, and what was promised is on the
\* platter.
Ready(segs, p) ==
    \E F, x : Log(F, x, loose, p) /\ IsOpen(F, x, next, booted) /\ segs = Append(F, x)

\* A rotation begins a new file behind one that it flushed.
LEMMA RotationReady ==
    ASSUME WalInv, phase = "up"
    PROVE  /\ Ready(Rotated, next) /\ Ready(segments, promised)
           /\ \E F, x : /\ Log(F, x, loose, next) /\ IsOpen(F, x, next, booted)
                        /\ Rotated = Append(F, x)
                        /\ x.written = Len(x.records)
  <1> DEFINE F == Front(segments)
             x == Last(segments)
             y == Flushed(x)
             z == NewSegment(next)
  <1>1. /\ loose \in BOOLEAN /\ Log(F, x, loose, promised) /\ IsOpen(F, x, next, booted)
        /\ segments = Append(F, x) /\ next \in Nat
    BY UpIs
  <1>2. Rotated = Append(Append(F, y), z) BY DEF Rotated
  <1> HIDE DEF F, x
  <1>3. /\ Log(F, y, loose, next) /\ IsOpen(F, y, next, booted)
        /\ y.written = Len(y.records) /\ y.synced = Len(y.records)
    BY <1>1, FlushKept
  <1>4. z.written = Len(z.records) BY <1>1, NewIs
  <1> HIDE DEF y
  <1>5. next <= next BY <1>1
  <1>6. loose \/ (~loose /\ y.synced = Len(y.records)) BY <1>1, <1>3
  <1>7. Log(Append(F, y), z, loose, next) /\ IsOpen(Append(F, y), z, next, booted)
    <2> DEFINE k == loose
               n == next
    <2>1. k \in BOOLEAN /\ n \in Nat /\ (k \/ n <= n) /\ (k \/ (~k /\ y.synced = Len(y.records)))
      BY <1>1, <1>5, <1>6
    <2>2. Log(F, y, k, n) /\ IsOpen(F, y, n, booted) BY <1>3
    <2>3. z = NewSegment(n) OBVIOUS
    <2> HIDE DEF k, n, z
    <2>4. Log(Append(F, y), NewSegment(n), k, n) /\ IsOpen(Append(F, y), NewSegment(n), n, booted)
      BY <1>3, <2>1, <2>2, FileAdded
    <2>5. QED BY <2>3, <2>4 DEF k, n
  <1> HIDE DEF z
  <1>8. Ready(Rotated, next) BY <1>2, <1>7 DEF Ready
  <1>9. Ready(segments, promised) BY <1>1 DEF Ready
  <1>10. QED BY <1>2, <1>4, <1>7, <1>8, <1>9

\* append: the record goes into the last file, after a rotation or not, and is flushed
\* with it or not.
LEMMA AppendStep ==
    ASSUME WalInv, NEW payload \in Payloads, AppendRecord(payload)
    PROVE  LogInv' /\ PhaseInv'
  <1> DEFINE size == RecordSize(payload)
             rotates == NeedsRotation(size)
             segs == IF rotates THEN Rotated ELSE segments
             extended == WithRecord(segs, size)
             buffered == (IF rotates THEN 0 ELSE unflushed) + 1
             flushes == buffered >= FlushEvery
             p == IF rotates THEN next ELSE promised
  <1>1. /\ phase = "up" /\ next' = next + 1 /\ booted' = booted /\ loose' = loose /\ phase' = "up"
        /\ segments' = IF flushes THEN Append(Front(extended), Flushed(Last(extended))) ELSE extended
        /\ promised' = IF flushes THEN next + 1 ELSE p
    BY DEF AppendRecord
  <1>2. size \in Nat BY WalAssumption DEF RecordSize, RecordOverhead
  <1>3. loose \in BOOLEAN BY <1>1, UpIs
  <1> HIDE DEF size, rotates, flushes
  <1>4. Ready(segs, p)
    <2>1. Ready(Rotated, next) /\ Ready(segments, promised) BY <1>1, RotationReady
    <2>2. CASE rotates BY <2>1, <2>2
    <2>3. CASE ~rotates BY <2>1, <2>3
    <2>4. QED BY <2>2, <2>3
  <1> HIDE DEF segs, p
  <1>5. PICK F, x : Log(F, x, loose, p) /\ IsOpen(F, x, next, booted) /\ segs = Append(F, x)
    BY <1>4 DEF Ready
  <1> DEFINE y == [x EXCEPT !.records = Append(@, [seq |-> next, size |-> size])]
  <1>6. Log(F, y, loose, p) /\ IsOpen(F, y, next + 1, booted) /\ y \in Files
    <2> DEFINE z == y
    <2>1. z = [x EXCEPT !.records = Append(@, [seq |-> next, size |-> size])] OBVIOUS
    <2> HIDE DEF y
    <2>2. QED BY <1>2, <1>3, <1>5, <2>1, RecordAdded
  <1>7. F \in Seq(Files) /\ x \in Files BY <1>5 DEF Log
  <1>8. extended = Append(F, y)
    <2>1. Front(segs) = F /\ Last(segs) = x BY <1>5, <1>7, LastFile
    <2>2. QED BY <2>1 DEF WithRecord
  <1> HIDE DEF extended, y
  <1>9. CASE ~flushes
    <2>1. /\ loose' \in BOOLEAN /\ Log(F, y, loose', promised') /\ IsOpen(F, y, next', booted')
          /\ segments' = Append(F, y)
      BY <1>1, <1>3, <1>6, <1>8, <1>9
    <2>2. QED BY <1>1, <2>1, LeftOpen
  <1>10. CASE flushes
    <2> DEFINE z == Flushed(y)
               n == next + 1
    <2>1. F \in Seq(Files) BY <1>7
    <2>2. Front(extended) = F /\ Last(extended) = y BY <1>6, <1>8, <2>1, LastFile
    <2>3. segments' = Append(F, z) /\ next' = n /\ promised' = n BY <1>1, <1>10, <2>2
    <2>4. IsOpen(F, y, n, booted) BY <1>6
    <2> HIDE DEF n
    <2>5. Log(F, z, loose, n) /\ IsOpen(F, z, n, booted) BY <1>3, <1>6, <2>4, FlushKept
    <2> HIDE DEF z
    <2>6. loose' \in BOOLEAN /\ Log(F, z, loose', promised') /\ IsOpen(F, z, next', booted')
      BY <1>1, <1>3, <2>3, <2>5
    <2>7. QED BY <1>1, <2>3, <2>6, LeftOpen
  <1>11. QED BY <1>9, <1>10

\* open() of a log nothing is in yet.
LEMMA FirstFile ==
    ASSUME NEW l \in BOOLEAN
    PROVE  Log(<< >>, NewSegment(0), l, 0) /\ IsOpen(<< >>, NewSegment(0), 0, 0)
  <1> DEFINE F == << >>
             x == NewSegment(0)
             o == 0
  <1>1. F \in Seq(Files) /\ DOMAIN F = {} /\ o \in Nat /\ o <= o OBVIOUS
  <1>2. x \in Files /\ x.first = o /\ Len(x.records) = o /\ x.written = o /\ x.synced = o
        /\ x.tail = "clean"
    BY NewIs
  <1>3. SequencesOf(F) = << >> /\ Len(SequencesOf(F)) = o BY SequencesNone
  <1> HIDE DEF F, x
  <1>4. SequencesOf(Append(F, x)) \in Seq(Nat) /\ Len(SequencesOf(Append(F, x))) = o
    <2>1. SequencesOf(Append(F, x)) \in Seq(Nat) /\ Len(SequencesOf(Append(F, x))) = o + o
      BY <1>1, <1>2, <1>3, SequencesAppend
    <2>2. QED BY <2>1
  <1>5. Continuous(SequencesOf(Append(F, x))) BY <1>4 DEF Continuous
  <1>6. SequencesOf(Append(F, x)) = Upto(o) BY <1>4, <1>5, ContinuousIs
  <1>7. Behind(F, x) BY <1>1 DEF Behind
  <1>8. o <= o + o BY DEF o
  <1> HIDE DEF o
  <1>9. Tight(F, x, o) BY <1>1, <1>2, <1>3, <1>5, <1>8 DEF Tight
  <1>10. Log(F, x, l, o) BY <1>1, <1>2, <1>7, <1>9 DEF Log
  <1>11. IsOpen(F, x, o, o) BY <1>1, <1>2, <1>6 DEF IsOpen
  <1>12. QED BY <1>10, <1>11 DEF F, x, o

\* The log an open() keeps: what is behind the last record of the last file is cut off.
LEMMA KeptIs ==
    ASSUME WalInv, phase = "down", segments # << >>, ~RecoverStateFails(segments),
           NEW F, NEW x, F = Front(segments), x = Last(segments),
           NEW y, y = Truncated(x), NEW n, n = Last(SequencesOf(segments)) + 1,
           NEW m, m = IF SequencesOf(segments) = << >> THEN 0 ELSE n
    PROVE  /\ Log(F, y, loose, promised) /\ IsOpen(F, y, m, m)
           /\ y.written = Len(y.records) /\ m \in Nat
           /\ loose \/ promised <= m
  <1>1. /\ segments \in Seq(Files) /\ loose \in BOOLEAN /\ promised \in Nat
        /\ Log(F, x, loose, promised)
        /\ \A i \in DOMAIN segments : segments[i].written = Len(segments[i].records)
    BY DEF WalInv, LogInv, PhaseInv
  <1>2. /\ F \in Seq(Files) /\ x \in Files /\ segments = Append(F, x)
        /\ Len(segments) = Len(F) + 1 /\ Len(F) \in Nat
    BY <1>1, LastFile
  <1>3. (\A i \in 1 .. Len(F) : segments[i] = F[i]) /\ segments[Len(F) + 1] = x
        /\ DOMAIN segments = 1 .. Len(F) + 1 /\ DOMAIN F = 1 .. Len(F)
    <2>1. (\A i \in 1 .. Len(F) : Append(F, x)[i] = F[i]) /\ Append(F, x)[Len(F) + 1] = x
      BY <1>2, LastFile
    <2>2. DOMAIN segments = 1 .. Len(segments) /\ DOMAIN F = 1 .. Len(F) BY <1>1, <1>2, LenProperties
    <2>3. QED BY <1>2, <2>1, <2>2
  <1>4. /\ \A i \in 1 .. Len(segments) : segments[i].tail # "garbled"
        /\ \A i \in 1 .. Len(segments) - 1 : segments[i].tail # "torn"
        /\ Continuous(SequencesOf(segments))
    BY DEF RecoverStateFails
  <1>5. \A i \in DOMAIN F : F[i].tail = "clean" /\ F[i].written = Len(F[i].records)
    <2>1. \A i \in 1 .. Len(F) : i \in 1 .. Len(segments) /\ i \in 1 .. Len(segments) - 1 /\ F[i] \in Files
      BY <1>2
    <2>2. \A i \in 1 .. Len(F) : F[i].tail \in {"clean", "torn", "garbled"} BY <2>1, FilesAre
    <2>3. \A i \in 1 .. Len(F) : F[i].tail # "garbled" /\ F[i].tail # "torn" BY <1>3, <1>4, <2>1
    <2>4. \A i \in 1 .. Len(F) : i \in DOMAIN segments BY <1>3, <1>2
    <2>5. \A i \in 1 .. Len(F) : F[i].written = Len(F[i].records) BY <1>1, <1>3, <2>4
    <2>6. QED BY <1>3, <2>2, <2>3, <2>5
  <1>6. x.written = Len(x.records)
    <2>1. Len(F) + 1 \in DOMAIN segments BY <1>2, <1>3
    <2>2. QED BY <1>1, <1>3, <2>1
  <1>7. /\ y \in Files /\ Shortens(y, x) /\ y.records = x.records /\ y.tail = "clean"
        /\ x.synced <= y.synced /\ y.written = Len(x.records)
    BY <1>2, <1>6, TruncatedIs
  <1>8. /\ SequencesOf(F) \in Seq(Nat) /\ SequencesOf(segments) \in Seq(Nat)
        /\ Len(SequencesOf(segments)) = Len(SequencesOf(F)) + Len(x.records)
        /\ SequencesOf(segments) = SequencesOf(F) \o Numbers(x)
        /\ SequencesOf(Append(F, y)) = SequencesOf(F) \o Numbers(y)
    BY <1>2, <1>7, SequencesAppend
  <1>9. SequencesOf(Append(F, y)) = SequencesOf(segments)
    <2>1. Numbers(y) = Numbers(x) BY <1>7 DEF Numbers
    <2>2. QED BY <1>8, <2>1
  <1>10. m = Len(SequencesOf(segments)) /\ m \in Nat
    BY <1>4, <1>8, ContinuousEnd
  <1>11. SequencesOf(Append(F, y)) = Upto(m) BY <1>4, <1>8, <1>9, <1>10, ContinuousIs
  <1>12. m <= m BY <1>10
  <1>13. IsOpen(F, y, m, m) BY <1>5, <1>7, <1>10, <1>11, <1>12 DEF IsOpen
  <1>14. loose \/ promised <= Len(SequencesOf(F)) + x.synced BY <1>1 DEF Log, Tight
  <1>15. x.synced \in Nat /\ x.written \in Nat /\ x.synced <= x.written /\ y.synced \in Nat
         /\ Len(SequencesOf(F)) \in Nat /\ Len(x.records) \in Nat
    <2>1. x \in Files /\ y \in Files BY <1>2, <1>7
    <2>2. SequencesOf(F) \in Seq(Nat) BY <1>8
    <2>3. x.synced \in Nat /\ x.written \in Nat /\ x.synced <= x.written /\ Len(x.records) \in Nat
      BY <2>1, FilesAre
    <2>4. y.synced \in Nat BY <2>1, FilesAre
    <2>5. Len(SequencesOf(F)) \in Nat BY <2>2
    <2>6. QED BY <2>3, <2>4, <2>5
  <1>16. loose \/ promised <= Len(SequencesOf(F)) + y.synced BY <1>1, <1>7, <1>14, <1>15
  <1>17. loose \/ promised <= m BY <1>1, <1>6, <1>8, <1>10, <1>14, <1>15
  <1>18. Log(F, y, loose, promised) BY <1>1, <1>7, <1>16, ShorterKept
  <1>19. QED BY <1>7, <1>10, <1>13, <1>17, <1>18

\* open(): it refuses over data that is gone, or leaves a log that is open.
LEMMA OpenStep ==
    ASSUME WalInv, Open
    PROVE  LogInv' /\ PhaseInv'
  <1> DEFINE sequences == SequencesOf(segments)
             found == IF sequences = << >> THEN 0 ELSE Last(sequences) + 1
             kept == IF segments = << >> THEN << >>
                     ELSE Append(Front(segments), Truncated(Last(segments)))
             full == kept # << >> /\ Bytes(Last(kept)) >= SegmentSize
             slack == full /\ Last(kept).synced < Len(Last(kept).records)
  <1>1. /\ segments \in Seq(Files) /\ loose \in BOOLEAN /\ promised \in Nat
        /\ segments = << >> => promised = 0
        /\ segments # << >> => Log(Front(segments), Last(segments), loose, promised)
        /\ phase = "down"
    BY DEF WalInv, LogInv, Open
  <1>2. CASE RecoverStateFails(segments)
    <2>1. /\ phase' = "refused" /\ segments' = segments /\ loose' = loose /\ promised' = promised
      BY <1>2 DEF Open, logVars
    <2>2. LogInv' BY <1>1, <2>1 DEF LogInv
    <2>3. loose \/ \E i \in 1 .. Len(segments) : segments[i].tail = "garbled"
      <3> SUFFICES ASSUME ~loose, \A i \in 1 .. Len(segments) : segments[i].tail # "garbled"
                   PROVE  FALSE
        OBVIOUS
      <3>1. CASE segments = << >>
        <4>1. Len(segments) = 0 /\ SequencesOf(segments) = << >> BY <3>1, SequencesNone
        <4>2. Continuous(SequencesOf(segments)) BY <4>1 DEF Continuous
        <4>3. QED BY <1>2, <4>1, <4>2 DEF RecoverStateFails
      <3>2. CASE segments # << >>
        <4> DEFINE F == Front(segments)
                   x == Last(segments)
        <4>1. /\ F \in Seq(Files) /\ x \in Files /\ segments = Append(F, x)
              /\ Len(segments) = Len(F) + 1 /\ Len(F) \in Nat
          BY <1>1, <3>2, LastFile
        <4>2. \A i \in 1 .. Len(F) : segments[i] = F[i]
          <5> HIDE DEF F, x
          <5>1. \A i \in 1 .. Len(F) : Append(F, x)[i] = F[i] BY <4>1, LastFile
          <5>2. QED BY <4>1, <5>1
        <4>3. Tight(F, x, promised) BY <1>1, <3>2 DEF Log
        <4> HIDE DEF F, x
        <4>4. Continuous(SequencesOf(segments)) /\ \A i \in DOMAIN F : F[i].tail = "clean"
          BY <4>1, <4>3 DEF Tight, Whole
        <4>5. \A i \in 1 .. Len(segments) - 1 : i \in 1 .. Len(F) /\ i \in DOMAIN F BY <4>1
        <4>6. \A i \in 1 .. Len(segments) - 1 : segments[i].tail = "clean" BY <4>2, <4>4, <4>5
        <4>7. QED BY <1>2, <4>4, <4>6 DEF RecoverStateFails
      <3>3. QED BY <3>1, <3>2
    <2>4. PhaseInv' BY <2>1, <2>3 DEF PhaseInv, RefusedOnlyOverLoss
    <2>5. QED BY <2>2, <2>4
  <1>3. CASE ~RecoverStateFails(segments)
    <2>1. /\ phase' = "up" /\ next' = found /\ booted' = found
          /\ segments' = IF kept = << >> \/ full THEN Append(kept, NewSegment(found)) ELSE kept
          /\ loose' = (loose \/ slack) /\ promised' = promised
      BY <1>3 DEF Open
    <2>2. CASE segments = << >>
      <3>1. kept = << >> /\ ~full /\ ~slack BY <2>2
      <3>2. found = 0 BY <2>2, SequencesNone
      <3>3. promised = 0 BY <1>1, <2>2
      <3> HIDE DEF kept, full, slack, found
      <3>4. segments' = Append(<< >>, NewSegment(0)) BY <2>1, <3>1, <3>2
      <3>5. loose' \in BOOLEAN /\ promised' = 0 /\ next' = 0 /\ booted' = 0 BY <1>1, <2>1, <3>1, <3>2, <3>3
      <3> DEFINE F == << >>
                 x == NewSegment(0)
      <3>6. Log(F, x, loose', promised') /\ IsOpen(F, x, next', booted') BY <3>5, FirstFile
      <3>7. segments' = Append(F, x) BY <3>4
      <3> HIDE DEF F, x
      <3>8. QED BY <2>1, <3>5, <3>6, <3>7, LeftOpen
    <2>3. CASE segments # << >>
      <3> DEFINE F == Front(segments)
                 x == Last(segments)
                 y == Truncated(x)
                 n == Last(SequencesOf(segments)) + 1
      <3>1. /\ Log(F, y, loose, promised) /\ IsOpen(F, y, found, found)
            /\ y.written = Len(y.records) /\ found \in Nat
            /\ loose \/ promised <= found
        BY <1>1, <1>3, <2>3, KeptIs
      <3>2. F \in Seq(Files) /\ y \in Files BY <3>1 DEF Log
      <3>3. kept = Append(F, y) BY <2>3
      <3> HIDE DEF F, y, kept
      <3>4. kept # << >> /\ Last(kept) = y BY <3>2, <3>3, LastFile
      <3>5. slack <=> full /\ y.synced < Len(y.records) BY <3>4
      <3> HIDE DEF found, slack, full
      <3>6. slack \in BOOLEAN /\ full \in BOOLEAN BY DEF slack, full
      <3>7. CASE ~full
        <4>1. segments' = Append(F, y) /\ loose' = loose BY <1>1, <2>1, <3>3, <3>4, <3>5, <3>6, <3>7
        <4>2. Log(F, y, loose', promised') /\ IsOpen(F, y, next', booted') /\ loose' \in BOOLEAN
          BY <1>1, <2>1, <3>1, <4>1
        <4>3. QED BY <2>1, <4>1, <4>2, LeftOpen
      <3>8. CASE full
        <4> DEFINE G == Append(F, y)
                   z == NewSegment(found)
                   k == loose \/ slack
        <4>1. segments' = Append(G, z) BY <2>1, <3>3, <3>8
        <4>2. k \in BOOLEAN /\ (k \/ promised <= found) BY <1>1, <3>1, <3>6
        <4>3. k \/ (~loose /\ y.synced = Len(y.records))
          <5>1. y.synced \in Nat /\ y.written \in Nat /\ y.synced <= y.written /\ Len(y.records) \in Nat
            BY <3>2, FilesAre
          <5>2. QED BY <3>1, <3>5, <3>8, <5>1
        <4>4. loose' = k BY <2>1
        <4> HIDE DEF k
        <4>5. Log(G, z, k, promised) /\ IsOpen(G, z, found, found)
          <5> DEFINE l == loose
                     p == promised
          <5>1. l \in BOOLEAN /\ p \in Nat /\ Log(F, y, l, p) BY <1>1, <3>1
          <5>2. (k \/ (~l /\ y.synced = Len(y.records))) /\ (k \/ p <= found) BY <4>2, <4>3
          <5> HIDE DEF l, p
          <5>3. Log(Append(F, y), NewSegment(found), k, p)
                /\ IsOpen(Append(F, y), NewSegment(found), found, found)
            BY <3>1, <4>2, <5>1, <5>2, FileAdded
          <5>4. QED BY <5>3 DEF p
        <4> HIDE DEF G, z
        <4>6. Log(G, z, loose', promised') /\ IsOpen(G, z, next', booted') /\ loose' \in BOOLEAN
          BY <2>1, <4>2, <4>4, <4>5
        <4>7. QED BY <2>1, <4>1, <4>6, LeftOpen
      <3>9. QED BY <3>7, <3>8
    <2>4. QED BY <2>2, <2>3
  <1>4. QED BY <1>2, <1>3

-----------------------------------------------------------------------------
(* The faults.                                                             *)

\* The process is killed: part of the last file's buffer is on disk, or a rotation had
\* just begun a new file.
LEMMA KillStep ==
    ASSUME WalInv, Kill
    PROVE  LogInv' /\ PhaseInv'
  <1> DEFINE F == Front(segments)
             x == Last(segments)
  <1>1. phase = "up" /\ phase' = "down" /\ loose' = loose BY DEF Kill
  <1>2. /\ loose \in BOOLEAN /\ promised \in Nat /\ next \in Nat
        /\ F \in Seq(Files) /\ x \in Files
        /\ Log(F, x, loose, promised) /\ IsOpen(F, x, next, booted)
    BY <1>1, UpIs
  <1>3. \/ \E last \in Remains(x, x.written, {"torn"}) :
              segments' = Append(F, last) /\ promised' = promised
        \/ segments' = Rotated /\ promised' = next
    BY DEF Kill
  <1>4. ASSUME NEW last \in Remains(x, x.written, {"torn"}),
               segments' = Append(F, last), promised' = promised
        PROVE  LogInv' /\ PhaseInv'
    <2> DEFINE n == x.written
               tails == {"torn"}
    <2>1. n \in Nat /\ x.synced <= n /\ x.synced \in Nat BY <1>2, FilesAre
    <2>2. tails \in SUBSET {"torn", "garbled"} /\ last \in Remains(x, n, tails) BY <1>4
    <2> HIDE DEF F, x, n, tails
    <2>3. /\ last \in Files /\ Shortens(last, x)
          /\ last.written = Len(last.records) /\ last.synced = x.synced
      BY <1>2, <2>1, <2>2, RemainsAre
    <2>4. loose \/ promised <= Len(SequencesOf(F)) + last.synced BY <1>2, <2>3 DEF Log, Tight
    <2>5. Log(F, last, loose, promised) BY <1>2, <2>3, <2>4, ShorterKept
    <2>6. \A i \in DOMAIN F : F[i].written = Len(F[i].records) BY <1>2 DEF IsOpen
    <2>7. Log(F, last, loose', promised') /\ loose' \in BOOLEAN BY <1>1, <1>2, <1>4, <2>5
    <2>8. QED BY <1>1, <1>4, <2>3, <2>6, <2>7, LeftDown
  <1>5. ASSUME segments' = Rotated, promised' = next
        PROVE  LogInv' /\ PhaseInv'
    <2>1. PICK G, y : /\ Log(G, y, loose, next) /\ IsOpen(G, y, next, booted)
                      /\ Rotated = Append(G, y) /\ y.written = Len(y.records)
      BY <1>1, RotationReady
    <2>2. \A i \in DOMAIN G : G[i].written = Len(G[i].records) BY <2>1 DEF IsOpen
    <2>3. Log(G, y, loose', promised') /\ loose' \in BOOLEAN /\ segments' = Append(G, y)
      BY <1>1, <1>2, <1>5, <2>1
    <2>4. QED BY <1>1, <2>1, <2>2, <2>3, LeftDown
  <1>6. QED BY <1>3, <1>4, <1>5

Powers == INSTANCE CollectionLaws WITH op <- WithRemains
Reads == INSTANCE CollectionLaws WITH op <- Delivered

\* What the model folds is what the instances fold.
LEMMA LogFolds ==
    /\ \A base, s : FoldLeft(WithRemains, base, s) = Powers!Fold(base, s)
    /\ \A base, s : FoldLeft(Delivered, base, s) = Reads!Fold(base, s)
  <1>1. \A base, s : FoldLeft(WithRemains, base, s) = Powers!Fold(base, s)
    BY DEF Powers!Fold, FoldLeft, MapThenFoldSet, Max,
           Powers!FoldLeft, Powers!MapThenFoldSet, Powers!Max
  <1>2. \A base, s : FoldLeft(Delivered, base, s) = Reads!Fold(base, s)
    BY DEF Reads!Fold, FoldLeft, MapThenFoldSet, Max,
           Reads!FoldLeft, Reads!MapThenFoldSet, Reads!Max
  <1>3. QED BY <1>1, <1>2

\* Some of what a power failure leaves of each of the first i files.
Leftovers(s, i) ==
    {r \in Seq(Files) :
        Len(r) = i /\ \A j \in 1 .. i : r[j] \in Remains(s[j], s[j].synced, {"torn", "garbled"})}

\* One more file is what was left before with something of that file behind it.
LEMMA WithRemainsAre ==
    ASSUME NEW before, NEW segment, NEW w \in WithRemains(before, segment)
    PROVE  \E u \in before : \E e \in Remains(segment, segment.synced, {"torn", "garbled"}) :
              w = Append(u, e)
  BY DEF WithRemains

\* A power failure leaves something of each file.
LEMMA PowerLeaves ==
    ASSUME NEW s \in Seq(Files), NEW r \in FoldLeft(WithRemains, {<< >>}, s)
    PROVE  r \in Leftovers(s, Len(s))
  <1> DEFINE G == [i \in Nat |-> SUBSET Leftovers(s, i)]
             base == {<< >>}
             tails == {"torn", "garbled"}
  <1>1. base \in G[0]
    <2> DEFINE none == << >>
               o == 0
    <2>1. none \in Seq(Files) /\ Len(none) = o /\ \A j \in 1 .. o : FALSE OBVIOUS
    <2> HIDE DEF none, o
    <2>2. none \in Leftovers(s, o) BY <2>1 DEF Leftovers
    <2>3. {none} \in SUBSET Leftovers(s, o) BY <2>2
    <2>4. {none} \in G[o] BY <2>3 DEF o
    <2>5. QED BY <2>4 DEF none, o
  <1>2. ASSUME NEW i \in 1 .. Len(s), NEW v \in G[i - 1] PROVE WithRemains(v, s[i]) \in G[i]
    <2> DEFINE f == s[i]
               k == i - 1
    <2>1. i \in Nat /\ k \in Nat /\ k + 1 = i /\ f \in Files BY <1>2
    <2>2. v \in SUBSET Leftovers(s, k) BY <2>1
    <2>3. \A w \in WithRemains(v, f) : \E u \in v : \E e \in Remains(f, f.synced, tails) : w = Append(u, e)
      BY WithRemainsAre
    <2>4. f.synced \in Nat /\ f.synced <= f.synced /\ tails \in SUBSET {"torn", "garbled"}
      <3>1. f.synced \in Nat BY <2>1, FilesAre
      <3>2. QED BY <3>1
    <2> HIDE DEF G, k, tails
    <2>5. ASSUME NEW u \in v, NEW e \in Remains(f, f.synced, tails)
          PROVE  Append(u, e) \in Leftovers(s, i)
      <3>1. /\ u \in Seq(Files) /\ Len(u) = k
            /\ \A j \in 1 .. k : u[j] \in Remains(s[j], s[j].synced, tails)
        BY <2>2, <2>5 DEF Leftovers, tails
      <3> HIDE DEF f
      <3>2. e \in Files BY <2>1, <2>4, <2>5, RemainsAre
      <3> DEFINE w == Append(u, e)
      <3>3. /\ w \in Seq(Files) /\ Len(w) = k + 1 /\ w[k + 1] = e
            /\ \A j \in 1 .. k : w[j] = u[j]
        BY <3>1, <3>2, LastFile
      <3> HIDE DEF w
      <3>4. \A j \in 1 .. i : j \in 1 .. k \/ j = k + 1 BY <2>1
      <3>5. w[k + 1] \in Remains(s[k + 1], s[k + 1].synced, tails) BY <2>1, <2>5, <3>3 DEF f
      <3>6. \A j \in 1 .. i : w[j] \in Remains(s[j], s[j].synced, tails) BY <3>1, <3>3, <3>4, <3>5
      <3>7. Len(w) = i BY <2>1, <3>3
      <3>8. w \in Leftovers(s, i) BY <3>3, <3>6, <3>7 DEF Leftovers, tails
      <3>9. QED BY <3>8 DEF w
    <2>6. WithRemains(v, f) \in SUBSET Leftovers(s, i) BY <2>3, <2>5
    <2>7. QED BY <2>1, <2>6 DEF G
  <1> HIDE DEF G, base
  <1>3. Powers!Leads(G, s) BY <1>2 DEF Powers!Leads
  <1>4. Powers!Fold(base, s) \in G[Len(s)] BY <1>1, <1>3, Powers!FoldAlong
  <1>5. r \in Powers!Fold(base, s) BY LogFolds DEF base
  <1>6. Len(s) \in Nat OBVIOUS
  <1>7. G[Len(s)] = SUBSET Leftovers(s, Len(s)) BY <1>6 DEF G
  <1>8. QED BY <1>4, <1>5, <1>7

\* Power is lost: what was fsynced of each file is kept, and any part of the rest.
LEMMA PowerFailureStep ==
    ASSUME WalInv, PowerFailure
    PROVE  LogInv' /\ PhaseInv'
  <1> DEFINE tails == {"torn", "garbled"}
             r == segments'
  <1>1. /\ segments \in Seq(Files) /\ loose \in BOOLEAN /\ promised \in Nat
        /\ segments = << >> => promised = 0
        /\ segments # << >> => Log(Front(segments), Last(segments), loose, promised)
    BY DEF WalInv, LogInv
  <1>2. /\ phase' = "down" /\ loose' = loose /\ promised' = promised
        /\ r \in FoldLeft(WithRemains, {<< >>}, segments)
    BY DEF PowerFailure
  <1>3. r \in Leftovers(segments, Len(segments)) BY <1>1, <1>2, PowerLeaves
  <1>4. /\ r \in Seq(Files) /\ Len(r) = Len(segments) /\ Len(segments) \in Nat
        /\ \A j \in 1 .. Len(segments) : r[j] \in Remains(segments[j], segments[j].synced, tails)
    BY <1>1, <1>3 DEF Leftovers
  <1>5. ASSUME NEW j \in 1 .. Len(segments)
        PROVE  /\ r[j] \in Files /\ Shortens(r[j], segments[j])
               /\ r[j].written = Len(r[j].records) /\ r[j].synced = segments[j].synced
               /\ Whole(segments[j]) => r[j] = segments[j]
    <2> DEFINE f == segments[j]
    <2>1. f \in Files /\ r[j] \in Remains(f, f.synced, tails) BY <1>1, <1>4
    <2>2. f.synced \in Nat BY <2>1, FilesAre
    <2>3. f.synced <= f.synced /\ tails \in SUBSET tails BY <2>2
    <2>4. tails \in SUBSET {"torn", "garbled"} OBVIOUS
    <2> HIDE DEF f, tails, r
    <2>5. /\ r[j] \in Files /\ Shortens(r[j], f)
          /\ r[j].written = Len(r[j].records) /\ r[j].synced = f.synced
      BY <2>1, <2>2, <2>3, <2>4, RemainsAre
    <2>6. Whole(f) => r[j] = f BY <2>1, <2>4, WholeRemains
    <2>7. QED BY <2>5, <2>6 DEF f
  <1> HIDE DEF r, tails
  <1>6. CASE segments = << >>
    <2>1. r = << >> /\ DOMAIN r = {}
      <3>1. Len(segments) = 0 BY <1>6
      <3>2. QED BY <1>4, <3>1
    <2>2. LogInv' BY <1>1, <1>2, <1>6, <2>1 DEF LogInv, r
    <2>3. PhaseInv' BY <1>2, <2>1 DEF PhaseInv, RefusedOnlyOverLoss, r
    <2>4. QED BY <2>2, <2>3
  <1>7. CASE segments # << >>
    <2> DEFINE F == Front(segments)
               x == Last(segments)
               G == Front(r)
               y == Last(r)
               n == Len(F)
    <2>1. /\ F \in Seq(Files) /\ x \in Files /\ segments = Append(F, x)
          /\ Len(segments) = n + 1 /\ n \in Nat
      BY <1>1, <1>7, LastFile
    <2>2. r # << >> BY <1>4, <2>1
    <2>3. /\ G \in Seq(Files) /\ y \in Files /\ r = Append(G, y)
          /\ Len(r) = Len(G) + 1 /\ Len(G) \in Nat
      BY <1>4, <2>2, LastFile
    <2>4. Log(F, x, loose, promised) BY <1>1, <1>7
    <2> HIDE DEF F, x, G, y
    <2>5. Len(G) = n BY <1>4, <2>1, <2>3
    <2>6. segments[n + 1] = x /\ \A j \in 1 .. n : segments[j] = F[j]
      <3>1. Append(F, x)[n + 1] = x /\ \A j \in 1 .. n : Append(F, x)[j] = F[j] BY <2>1, LastFile
      <3>2. QED BY <2>1, <3>1
    <2>7. r[n + 1] = y /\ \A j \in 1 .. n : r[j] = G[j]
      <3>1. Append(G, y)[n + 1] = y /\ \A j \in 1 .. n : Append(G, y)[j] = G[j]
        BY <2>3, <2>5, LastFile
      <3>2. QED BY <2>3, <3>1
    <2> HIDE DEF n
    <2>8. n + 1 \in 1 .. Len(segments) /\ \A j \in 1 .. n : j \in 1 .. Len(segments) BY <2>1
    <2>9. Shortens(y, x) /\ y.written = Len(y.records) /\ y.synced = x.synced
      BY <1>5, <2>6, <2>7, <2>8
    <2>10. \A j \in 1 .. n : /\ Shortens(G[j], F[j]) /\ G[j].written = Len(G[j].records)
                             /\ Whole(F[j]) => G[j] = F[j]
      BY <1>5, <2>6, <2>7, <2>8
    <2>11. DOMAIN F = 1 .. n /\ DOMAIN G = 1 .. n BY <2>1, <2>3, <2>5, LenProperties DEF n
    <2>12. loose \/ promised <= Len(SequencesOf(F)) + y.synced BY <2>4, <2>9 DEF Log, Tight
    <2>13. Log(F, y, loose, promised) BY <1>1, <2>3, <2>4, <2>9, <2>12, ShorterKept
    <2>14. Log(G, y, loose, promised)
      <3>1. Behind(F, y) BY <2>13 DEF Log
      <3>2. \A i \in DOMAIN G : \A g : NamedBehind(F[i], g) => NamedBehind(G[i], g)
        <4> SUFFICES ASSUME NEW i \in DOMAIN G, NEW g, NamedBehind(F[i], g),
                            NEW k \in DOMAIN G[i].records
                     PROVE  G[i].records[k].seq < g.first
          BY DEF NamedBehind
        <4> DEFINE u == G[i]
                   v == F[i]
        <4>1. Shortens(u, v) /\ u \in Files /\ v \in Files BY <2>1, <2>3, <2>10, <2>11
        <4>2. NamedBehind(v, g) /\ k \in DOMAIN u.records OBVIOUS
        <4> HIDE DEF u, v
        <4>3. u.records \in Seq(LogRecords) /\ v.records \in Seq(LogRecords) BY <4>1, FilesAre
        <4>4. DOMAIN u.records = 1 .. Len(u.records) /\ DOMAIN v.records = 1 .. Len(v.records)
              /\ Len(u.records) \in Nat /\ Len(v.records) \in Nat
          BY <4>3, LenProperties
        <4>5. k \in DOMAIN v.records /\ u.records[k] = v.records[k]
          BY <4>1, <4>2, <4>4 DEF Shortens
        <4>6. u.records[k].seq < g.first BY <4>2, <4>5 DEF NamedBehind
        <4>7. QED BY <4>6 DEF u
      <3>3. \A i \in DOMAIN G : G[i].first = F[i].first BY <2>10, <2>11 DEF Shortens
      <3>4. \A i \in DOMAIN G : NamedBehind(G[i], y) BY <2>11, <3>1, <3>2 DEF Behind
      <3>5. \A i, j \in DOMAIN G : i < j => NamedBehind(G[i], G[j])
        <4>1. \A i, j \in DOMAIN G : i < j => NamedBehind(G[i], F[j]) BY <2>11, <3>1, <3>2 DEF Behind
        <4>2. QED BY <3>3, <4>1 DEF NamedBehind
      <3>6. Behind(G, y) BY <3>4, <3>5 DEF Behind
      <3>7. ASSUME ~loose PROVE Tight(G, y, promised)
        <4>1. Tight(F, y, promised) BY <2>13, <3>7 DEF Log
        <4>2. \A i \in 1 .. n : G[i] = F[i] BY <2>10, <2>11, <4>1 DEF Tight
        <4>3. Len(G) = n /\ Len(F) = n BY <2>5 DEF n
        <4>4. \A i \in 1 .. Len(G) : G[i] = F[i] BY <4>2, <4>3
        <4>5. G = F BY <2>1, <2>3, <4>3, <4>4, SeqEqual
        <4>6. QED BY <4>1, <4>5
      <3>8. QED BY <1>1, <2>3, <3>6, <3>7 DEF Log
    <2>15. \A i \in DOMAIN G : G[i].written = Len(G[i].records) BY <2>10, <2>11
    <2>16. Log(G, y, loose', promised') /\ loose' \in BOOLEAN /\ segments' = Append(G, y)
      BY <1>1, <1>2, <2>3, <2>14 DEF r
    <2>17. QED BY <1>2, <2>9, <2>15, <2>16, LeftDown
  <1>8. QED BY <1>6, <1>7

-----------------------------------------------------------------------------
(* The snapshots.                                                          *)

\* A finite set of integers has a greatest, which is its maximum.
LEMMA GreatestIs ==
    ASSUME NEW S \in SUBSET Int, IsFiniteSet(S), S # {}
    PROVE  Max(S) \in S /\ \A x \in S : x <= Max(S)
  <1> DEFINE T == {X \in SUBSET S : X = {} \/ \E m \in X : \A x \in X : x <= m}
  <1>1. {} \in T OBVIOUS
  <1>2. ASSUME NEW X \in SUBSET S, NEW e \in S \ X, X \in T PROVE X \cup {e} \in T
    <2>1. X \cup {e} \in SUBSET S OBVIOUS
    <2>2. CASE X = {}
      <3>1. e \in X \cup {e} /\ \A x \in X \cup {e} : x <= e BY <2>2
      <3>2. QED BY <2>1, <3>1
    <2>3. CASE X # {}
      <3>1. PICK m \in X : \A x \in X : x <= m BY <1>2, <2>3
      <3>2. m \in Int /\ e \in Int /\ \A x \in X : x \in Int OBVIOUS
      <3>3. CASE m <= e
        <4>1. \A x \in X \cup {e} : x <= e BY <3>1, <3>2, <3>3
        <4>2. QED BY <2>1, <4>1
      <3>4. CASE ~(m <= e)
        <4>1. \A x \in X \cup {e} : x <= m BY <3>1, <3>2, <3>4
        <4>2. QED BY <2>1, <4>1
      <3>5. QED BY <3>3, <3>4
    <2>4. QED BY <2>2, <2>3
  <1> HIDE DEF T
  <1>3. S \in T BY <1>1, <1>2, SetInduction
  <1>4. PICK m \in S : \A x \in S : x <= m BY <1>3 DEF T
  <1>5. \A x \in S : m >= x BY <1>4
  <1>6. Max(S) \in S /\ \A x \in S : Max(S) >= x BY <1>4, <1>5 DEF Max
  <1>7. \A x \in S : x \in Int /\ Max(S) \in Int BY <1>6
  <1>8. QED BY <1>6, <1>7

\* The newest snapshot survives cleanup_old_snapshots.
LEMMA NewestKept ==
    ASSUME snapshots \in SUBSET Nat, IsFiniteSet(snapshots), snapshots # {}
    PROVE  /\ Newest(SnapshotsKept) \in SUBSET snapshots
           /\ \E m \in Newest(SnapshotsKept) : \A s \in snapshots : s <= m
  <1> DEFINE m == Max(snapshots)
  <1>1. snapshots \in SUBSET Int OBVIOUS
  <1>2. m \in snapshots /\ \A s \in snapshots : s <= m BY <1>1, GreatestIs
  <1> HIDE DEF m
  <1>3. {t \in snapshots : t > m} = {}
    <2>1. \A t \in snapshots : ~(t > m)
      <3> TAKE t \in snapshots
      <3>1. t \in Nat /\ m \in Nat /\ t <= m BY <1>2
      <3>2. QED BY <3>1
    <2>2. QED BY <2>1
  <1>4. Cardinality({t \in snapshots : t > m}) < SnapshotsKept
    <2> DEFINE none == {}
    <2>1. Cardinality(none) = 0 BY FS_EmptySet
    <2>2. SnapshotsKept \in Nat \ {0} BY WalAssumption
    <2>3. 0 < SnapshotsKept BY <2>2
    <2>4. {t \in snapshots : t > m} = none BY <1>3
    <2> HIDE DEF none
    <2>5. QED BY <2>1, <2>3, <2>4
  <1>5. m \in Newest(SnapshotsKept) BY <1>2, <1>4 DEF Newest
  <1>6. Newest(SnapshotsKept) \in SUBSET snapshots BY DEF Newest
  <1>7. QED BY <1>2, <1>5, <1>6

\* The newest of what a listing must show is no older than a save that returned.
LEMMA SnapshotsStep ==
    ASSUME WalInv, [WalNext]_walVars
    PROVE  SnapshotInv'
  <1>1. SnapshotInv BY DEF WalInv
  <1> USE DEF SnapshotInv
  <1> DEFINE none == [step |-> "none", seq |-> 0]
  <1>2. none.seq \in Nat /\ none = [step |-> none.step, seq |-> none.seq]
        /\ none.step # "renamed" /\ none.step # "synced"
    OBVIOUS
  <1>3. ASSUME UNCHANGED snapshotVars PROVE SnapshotInv' BY <1>1, <1>3 DEF snapshotVars
  <1>4. CASE Open \/ Flush \/ \E payload \in Payloads : AppendRecord(payload)
    BY <1>3, <1>4 DEF Open, Flush, AppendRecord
  <1>5. CASE Kill
    <2>1. saving' = none /\ UNCHANGED <<snapshots, dirSynced, saved>> BY <1>5 DEF Kill, Forgotten
    <2> HIDE DEF none
    <2>2. QED BY <1>1, <1>2, <2>1
  <1>6. CASE PowerFailure
    <2>1. /\ saving' = none /\ saved' = saved /\ dirSynced' = snapshots'
          /\ snapshots' \in SUBSET (snapshots \cup dirSynced)
          /\ snapshots \cap dirSynced \subseteq snapshots'
      BY <1>6 DEF PowerFailure, Forgotten
    <2>2. IsFiniteSet(snapshots \cup dirSynced) BY <1>1, FS_Union
    <2>3. IsFiniteSet(snapshots') BY <2>1, <2>2, FS_Subset
    <2>4. snapshots' \in SUBSET Nat BY <1>1, <2>1
    <2> HIDE DEF none
    <2>5. saved' = -1 \/ \E s \in snapshots' \cap dirSynced' : s >= saved' BY <1>1, <2>1
    <2>6. QED BY <1>1, <1>2, <2>1, <2>3, <2>4, <2>5
  <1>7. ASSUME NEW seq \in 0 .. MaxRecords, BeginSave(seq) PROVE SnapshotInv'
    <2> DEFINE new == [step |-> "temporary", seq |-> seq]
    <2>1. saving' = new /\ UNCHANGED <<snapshots, dirSynced, saved>> BY <1>7 DEF BeginSave
    <2>2. seq \in Nat BY WalAssumption
    <2>3. new = [step |-> new.step, seq |-> new.seq] /\ new.seq \in Nat
          /\ new.step # "renamed" /\ new.step # "synced"
      BY <2>2
    <2> HIDE DEF new
    <2>4. QED BY <1>1, <2>1, <2>3
  <1>8. CASE RenameSnapshot
    <2> DEFINE new == [saving EXCEPT !.step = "renamed"]
    <2>1. /\ saving' = new /\ snapshots' = snapshots \cup {saving.seq}
          /\ dirSynced' = dirSynced /\ saved' = saved
      BY <1>8 DEF RenameSnapshot
    <2>2. new = [step |-> "renamed", seq |-> saving.seq]
      <3> DEFINE a == saving.step
                 b == saving.seq
      <3>1. saving = [step |-> a, seq |-> b] BY <1>1
      <3> HIDE DEF a, b
      <3>2. new = [step |-> "renamed", seq |-> b] BY <3>1
      <3>3. QED BY <3>2 DEF b
    <2> HIDE DEF new
    <2>3. saving'.step = "renamed" /\ saving'.seq = saving.seq
          /\ saving' = [step |-> saving'.step, seq |-> saving'.seq]
      BY <2>1, <2>2
    <2>4. IsFiniteSet(snapshots') BY <1>1, <2>1, FS_AddElement
    <2>5. snapshots' \in SUBSET Nat BY <1>1, <2>1
    <2>6. saved' = -1 \/ \E s \in snapshots' \cap dirSynced' : s >= saved' BY <1>1, <2>1
    <2>7. QED BY <1>1, <2>1, <2>3, <2>4, <2>5, <2>6
  <1>9. CASE SyncDirectory
    <2> DEFINE new == [saving EXCEPT !.step = "synced"]
    <2>1. /\ saving' = new /\ dirSynced' = snapshots /\ snapshots' = snapshots /\ saved' = saved
          /\ saving.step = "renamed"
      BY <1>9 DEF SyncDirectory
    <2>2. new = [step |-> "synced", seq |-> saving.seq]
      <3> DEFINE a == saving.step
                 b == saving.seq
      <3>1. saving = [step |-> a, seq |-> b] BY <1>1
      <3> HIDE DEF a, b
      <3>2. new = [step |-> "synced", seq |-> b] BY <3>1
      <3>3. QED BY <3>2 DEF b
    <2> HIDE DEF new
    <2>3. saving'.step = "synced" /\ saving'.seq = saving.seq
          /\ saving' = [step |-> saving'.step, seq |-> saving'.seq]
      BY <2>1, <2>2
    <2>4. saved' = -1 \/ \E s \in snapshots' \cap dirSynced' : s >= saved' BY <1>1, <2>1
    <2>5. QED BY <1>1, <2>1, <2>3, <2>4
  <1>10. CASE CleanUp
    <2>1. /\ saving' = none /\ snapshots' = Newest(SnapshotsKept) /\ dirSynced' = dirSynced
          /\ saved' = IF saving.seq > saved THEN saving.seq ELSE saved
          /\ saving.step = "synced"
      BY <1>10 DEF CleanUp
    <2>2. saving.seq \in snapshots /\ dirSynced = snapshots /\ saving.seq \in Nat BY <1>1, <2>1
    <2>3. PICK m \in Newest(SnapshotsKept) : \A s \in snapshots : s <= m BY <1>1, <2>2, NewestKept
    <2>4. Newest(SnapshotsKept) \in SUBSET snapshots BY <1>1, <2>2, NewestKept
    <2>5. m \in Nat /\ m \in snapshots' \cap dirSynced' BY <1>1, <2>1, <2>2, <2>3, <2>4
    <2>6. saved' \in Nat \cup {-1} BY <1>1, <2>1, <2>2
    <2>7. saved' = -1 \/ m >= saved'
      <3>1. m >= saving.seq BY <2>2, <2>3, <2>5
      <3>2. saved = -1 \/ m >= saved
        <4>1. CASE saved = -1 BY <4>1
        <4>2. CASE saved # -1
          <5>1. PICK s \in snapshots : s >= saved BY <1>1, <4>2
          <5>2. s \in Nat /\ s <= m /\ saved \in Nat BY <1>1, <2>3, <4>2
          <5>3. QED BY <2>5, <5>1, <5>2
        <4>3. QED BY <4>1, <4>2
      <3>3. QED BY <2>1, <3>1, <3>2
    <2>8. saved' = -1 \/ \E s \in snapshots' \cap dirSynced' : s >= saved' BY <2>5, <2>7
    <2>9. IsFiniteSet(snapshots') BY <1>1, <2>1, <2>4, FS_Subset
    <2>10. snapshots' \in SUBSET Nat BY <1>1, <2>1, <2>4
    <2> HIDE DEF none
    <2>11. QED BY <1>1, <1>2, <2>1, <2>6, <2>8, <2>9, <2>10
  <1>11. CASE UNCHANGED walVars BY <1>3, <1>11 DEF walVars
  <1>12. QED BY <1>4, <1>5, <1>6, <1>7, <1>8, <1>9, <1>10, <1>11 DEF WalNext

-----------------------------------------------------------------------------
(* Reading.                                                                *)

\* What files hold are sequences, and files one after the other hold them one after the
\* other.
LEMMA SequencesConcat ==
    ASSUME NEW F \in Seq(Files), NEW G \in Seq(Files)
    PROVE  /\ SequencesOf(F) \in Seq(Nat) /\ SequencesOf(G) \in Seq(Nat)
           /\ SequencesOf(F \o G) = SequencesOf(F) \o SequencesOf(G)
  <1>1. \A H \in Seq(Files) : SequencesOf(H) \in Seq(Nat)
    <2> TAKE H \in Seq(Files)
    <2> DEFINE o == 0
    <2>1. o \in Nat OBVIOUS
    <2> HIDE DEF o
    <2>2. NewSegment(o) \in Files BY <2>1, NewIs
    <2>3. QED BY <2>2, SequencesAppend
  <1> DEFINE T == {H \in Seq(Files) : SequencesOf(F \o H) = SequencesOf(F) \o SequencesOf(H)}
  <1>2. << >> \in T
    <2> DEFINE none == << >>
    <2>1. F \o none = F /\ SequencesOf(F) \o none = SequencesOf(F) /\ none \in Seq(Files)
      BY <1>1, ConcatEmptySeq
    <2>2. SequencesOf(none) = none BY SequencesNone
    <2> HIDE DEF none
    <2>3. none \in T BY <2>1, <2>2
    <2>4. QED BY <2>3 DEF none
  <1>3. ASSUME NEW H \in Seq(Files), NEW x \in Files, H \in T PROVE Append(H, x) \in T
    <2> DEFINE q == SequencesOf(F)
               r == SequencesOf(H)
               e == Numbers(x)
    <2>1. SequencesOf(F \o H) = q \o r BY <1>3
    <2>2. F \o H \in Seq(Files) /\ Append(H, x) \in Seq(Files) BY ConcatProperties, AppendProperties
    <2>3. F \o Append(H, x) = Append(F \o H, x)
      <3> DEFINE e1 == <<x>>
      <3>1. e1 \in Seq(Files) OBVIOUS
      <3>2. Append(H, x) = H \o e1 /\ Append(F \o H, x) = (F \o H) \o e1 BY <2>2, AppendIsConcat
      <3> HIDE DEF e1
      <3>3. (F \o H) \o e1 = F \o (H \o e1) BY <3>1, ConcatAssociative
      <3>4. QED BY <3>2, <3>3
    <2>4. SequencesOf(Append(F \o H, x)) = SequencesOf(F \o H) \o e BY <2>2, SequencesAppend
    <2>5. SequencesOf(Append(H, x)) = r \o e BY SequencesAppend
    <2>6. q \in Seq(Nat) /\ r \in Seq(Nat) /\ e \in Seq(Nat) BY <1>1, NumbersAre
    <2> HIDE DEF q, r, e
    <2>7. (q \o r) \o e = q \o (r \o e) BY <2>6, ConcatAssociative, SMTT(20)
    <2>8. SequencesOf(F \o Append(H, x)) = q \o SequencesOf(Append(H, x))
      BY <2>1, <2>3, <2>4, <2>5, <2>7
    <2>9. QED BY <2>2, <2>8 DEF q
  <1> HIDE DEF T
  <1>4. \A H \in Seq(Files) : H \in T BY <1>2, <1>3, SequenceInduction
  <1>5. QED BY <1>1, <1>4 DEF T

\* Sequences that are all below the start deliver nothing.
LEMMA NothingDelivered ==
    ASSUME NEW start \in Nat, NEW q \in Seq(0 .. start - 1),
           NEW base, base = [start |-> start, read |-> << >>]
    PROVE  Reads!Fold(base, q) = base
  <1> DEFINE X == 0 .. start - 1
             V == {base}
  <1>1. base.start = start OBVIOUS
  <1>2. ASSUME NEW v \in V, NEW x \in X PROVE Delivered(v, x) \in V
    <2>1. v.start = start /\ x < start /\ v = base BY <1>1, <1>2
    <2>2. QED BY <2>1 DEF Delivered
  <1>3. q \in Seq(X) /\ base \in V OBVIOUS
  <1> HIDE DEF X, V
  <1>4. Reads!Fold(base, q) \in V BY <1>2, <1>3, Reads!FoldKeeps
  <1>5. QED BY <1>4 DEF V

\* Of the sequences up to n, those from the start on are delivered.
LEMMA RestDelivered ==
    ASSUME NEW n \in Nat, NEW start \in 0 .. n,
           NEW base, base = [start |-> start, read |-> << >>]
    PROVE  Reads!Fold(base, Upto(n)).read = [i \in 1 .. n - start |-> start + i - 1]
  <1> DEFINE Count(i) == IF i < start THEN 0 ELSE i - start
             Part(k) == [j \in 1 .. k |-> start + j - 1]
             ReadUpTo(i) == [start |-> start, read |-> Part(Count(i))]
             G == [i \in Nat |-> {ReadUpTo(i)}]
  <1>1. start \in Nat /\ start <= n /\ n - start \in Nat OBVIOUS
  <1>2. Upto(n) \in Seq(Nat) /\ Len(Upto(n)) = n /\ \A i \in 1 .. n : Upto(n)[i] = i - 1 BY UptoIs
  <1>3. ASSUME NEW k \in Nat
        PROVE  /\ Part(k) \in Seq(Nat) /\ Len(Part(k)) = k
               /\ Part(k + 1) = Append(Part(k), start + k)
    <2>1. \A i \in Nat : Part(i) \in Seq(Nat) /\ Len(Part(i)) = i /\ \A j \in 1 .. i : Part(i)[j] = start + j - 1
      <3> TAKE i \in Nat
      <3>1. \A j \in 1 .. i : start + j - 1 \in Nat BY <1>1
      <3> DEFINE p == Part(i)
      <3>2. p \in [1 .. i -> Nat] BY <3>1
      <3>3. \A j \in 1 .. i : p[j] = start + j - 1 OBVIOUS
      <3> HIDE DEF p
      <3>4. p \in Seq(Nat) /\ Len(p) = i BY <3>2
      <3>5. QED BY <3>3, <3>4 DEF p
    <2> DEFINE p == Part(k)
               w == Part(k + 1)
               e == start + k
    <2>2. /\ p \in Seq(Nat) /\ Len(p) = k /\ \A j \in 1 .. k : p[j] = start + j - 1
      BY <2>1
    <2>3. /\ w \in Seq(Nat) /\ Len(w) = k + 1 /\ \A j \in 1 .. k + 1 : w[j] = start + j - 1
      <3>1. k + 1 \in Nat OBVIOUS
      <3>2. QED BY <2>1, <3>1
    <2>4. e \in Nat /\ e = start + (k + 1) - 1 BY <1>1
    <2> HIDE DEF p, w, e, Part
    <2>5. /\ Append(p, e) \in Seq(Nat) /\ Len(Append(p, e)) = k + 1 /\ Append(p, e)[k + 1] = e
          /\ \A j \in 1 .. k : Append(p, e)[j] = p[j]
      BY <2>2, <2>4, AppendProperties
    <2>6. \A j \in 1 .. k + 1 : j \in 1 .. k \/ j = k + 1 OBVIOUS
    <2>7. \A j \in 1 .. k + 1 : w[j] = Append(p, e)[j] BY <2>2, <2>3, <2>4, <2>5, <2>6
    <2>8. w = Append(p, e) BY <2>3, <2>5, <2>7, SeqEqual
    <2>9. QED BY <2>2, <2>8 DEF p, w, e
  <1> HIDE DEF Part
  <1>4. Part(0) = << >>
    <2> DEFINE o == 0
    <2>1. o \in Nat OBVIOUS
    <2> HIDE DEF o
    <2>2. Part(o) \in Seq(Nat) /\ Len(Part(o)) = o BY <1>3, <2>1
    <2>3. QED BY <2>2 DEF o
  <1>5. base \in G[0]
    <2>1. Count(0) = 0 BY <1>1
    <2>2. ReadUpTo(0) = base BY <1>4, <2>1
    <2>3. QED BY <2>2
  <1>6. ASSUME NEW i \in 1 .. n, NEW v \in G[i - 1] PROVE Delivered(v, Upto(n)[i]) \in G[i]
    <2> DEFINE k == i - 1
    <2>1. k \in Nat /\ i \in Nat /\ i = k + 1 /\ Upto(n)[i] = k BY <1>2
    <2>2. v = ReadUpTo(k) BY <2>1
    <2> HIDE DEF k, G
    <2>3. v.start = start /\ v.read = Part(Count(k)) BY <2>2
    <2>4. CASE k < start
      <3>1. Delivered(v, k) = v BY <2>3, <2>4 DEF Delivered
      <3>2. Count(k) = 0 /\ Count(i) = 0 BY <1>1, <2>1, <2>4
      <3>3. ReadUpTo(i) = v BY <2>2, <3>2
      <3>4. QED BY <2>1, <3>1, <3>3 DEF G
    <2>5. CASE ~(k < start)
      <3> DEFINE c == Count(k)
      <3>1. c \in Nat /\ Count(i) = c + 1 /\ start + c = k BY <1>1, <2>1, <2>5
      <3>2. v = [start |-> start, read |-> Part(c)] BY <2>2
      <3> HIDE DEF c, Count
      <3>3. Delivered(v, k) = [v EXCEPT !.read = Append(@, k)] BY <2>3, <2>5 DEF Delivered
      <3>4. Part(c + 1) = Append(Part(c), k) BY <1>3, <3>1
      <3>5. Delivered(v, k) = [start |-> start, read |-> Append(Part(c), k)] BY <3>2, <3>3
      <3>6. Delivered(v, k) = ReadUpTo(i) BY <3>1, <3>4, <3>5
      <3>7. QED BY <2>1, <3>6 DEF G
    <2>6. QED BY <2>4, <2>5
  <1> HIDE DEF ReadUpTo
  <1>7. G[n] = {ReadUpTo(n)} OBVIOUS
  <1> HIDE DEF G
  <1>8. Reads!Leads(G, Upto(n)) BY <1>2, <1>6 DEF Reads!Leads
  <1>9. Reads!Fold(base, Upto(n)) \in G[n] BY <1>2, <1>5, <1>8, Reads!FoldAlong
  <1>10. Count(n) = n - start BY <1>1
  <1>11. ReadUpTo(n).read = Part(n - start) BY <1>10 DEF ReadUpTo
  <1>12. QED BY <1>7, <1>9, <1>11 DEF Part

\* Of a log that nothing was appended to since it was opened, all is on disk.
LEMMA AllOnDisk ==
    ASSUME WalInv, phase = "up", next = booted
    PROVE  [i \in 1 .. Len(segments) |->
               [segments[i] EXCEPT !.records = SubSeq(@, 1, segments[i].written)]] = segments
  <1> DEFINE F == Front(segments)
             x == Last(segments)
             n == Len(F)
             e == [i \in 1 .. Len(segments) |->
                      [segments[i] EXCEPT !.records = SubSeq(@, 1, segments[i].written)]]
  <1>1. /\ segments = Append(F, x) /\ F \in Seq(Files) /\ x \in Files /\ IsOpen(F, x, next, booted) BY UpIs
  <1>2. /\ \A i \in DOMAIN F : F[i].written = Len(F[i].records)
        /\ x.written = Len(x.records)
    BY <1>1 DEF IsOpen
  <1> HIDE DEF F, x
  <1>3. /\ segments \in Seq(Files) /\ Len(segments) = n + 1 /\ n \in Nat
        /\ (\A i \in 1 .. n : Append(F, x)[i] = F[i]) /\ Append(F, x)[n + 1] = x
    BY <1>1, LastFile
  <1>4. DOMAIN F = 1 .. n /\ DOMAIN segments = 1 .. n + 1 BY <1>1, <1>3, LenProperties
  <1>5. \A i \in 1 .. n + 1 : i \in 1 .. n \/ i = n + 1 BY <1>3
  <1>6. ASSUME NEW i \in 1 .. Len(segments)
        PROVE  [segments[i] EXCEPT !.records = SubSeq(@, 1, segments[i].written)] = segments[i]
    <2> DEFINE f == segments[i]
               m == f.written
               s == SubSeq(f.records, 1, m)
    <2>1. f \in Files BY <1>3
    <2>2. f.written = Len(f.records) BY <1>1, <1>2, <1>3, <1>4, <1>5
    <2>3. f.records \in Seq(LogRecords) BY <2>1, FilesAre
    <2>4. s = f.records BY <2>2, <2>3, SubSeqFull
    <2>5. f \in FileTypes BY <2>1 DEF Files
    <2> HIDE DEF f, s
    <2>6. [f EXCEPT !.records = s] = f BY <2>4, <2>5 DEF FileTypes
    <2>7. QED BY <2>6 DEF f, s
  <1>7. e = [i \in 1 .. Len(segments) |-> segments[i]] BY <1>6
  <1>8. segments = [i \in 1 .. Len(segments) |-> segments[i]] BY <1>3
  <1>9. QED BY <1>7, <1>8

\* The file a read starts with: none before it holds the start.
LEMMA StartIs ==
    ASSUME NEW F, NEW x, Behind(F, x), F \in Seq(Files), x \in Files,
           NEW s, s = Append(F, x), NEW start \in Nat
    PROVE  /\ StartSegment(s, start) \in 1 .. Len(s)
           /\ \A i \in 1 .. StartSegment(s, start) - 1 :
                 \A k \in 1 .. Len(s[i].records) : s[i].records[k].seq < start
  <1> DEFINE n == Len(F)
             S == {1} \cup {i \in 1 .. Len(s) : s[i].first <= start}
             a == Max(S)
  <1>1. /\ s \in Seq(Files) /\ Len(s) = n + 1 /\ n \in Nat
        /\ (\A i \in 1 .. n : s[i] = F[i]) /\ s[n + 1] = x
    BY LastFile
  <1>2. DOMAIN F = 1 .. n BY LenProperties
  <1>3. S \in SUBSET (1 .. n + 1) /\ 1 \in S BY <1>1
  <1>4. IsFiniteSet(S) /\ S \in SUBSET Int /\ S # {}
    <2> HIDE DEF S, n
    <2>1. n + 1 \in Nat BY <1>1
    <2>2. IsFiniteSet(1 .. n + 1) BY <2>1, FS_Interval
    <2>3. \A i \in 1 .. n + 1 : i \in Int BY <1>1
    <2> DEFINE I == 1 .. n + 1
    <2>4. IsFiniteSet(I) /\ S \in SUBSET I /\ \A i \in I : i \in Int BY <1>3, <2>2, <2>3
    <2> HIDE DEF I
    <2>5. IsFiniteSet(S) BY <2>4, FS_Subset
    <2>6. S \in SUBSET Int BY <2>4
    <2>7. QED BY <1>3, <2>5, <2>6
  <1>5. a \in S BY <1>4, GreatestIs
  <1>6. StartSegment(s, start) = a BY DEF StartSegment
  <1>7. a \in 1 .. n + 1 /\ (a = 1 \/ s[a].first <= start) BY <1>3, <1>5
  <1> HIDE DEF S, a, n
  <1>8. ASSUME NEW i \in 1 .. a - 1, NEW k \in 1 .. Len(s[i].records) PROVE s[i].records[k].seq < start
    <2> DEFINE f == s[i]
               g == s[a]
    <2>1. i \in 1 .. n /\ a \in Nat /\ i < a /\ a # 1 BY <1>1, <1>7
    <2>2. NamedBehind(f, g)
      <3>1. CASE a \in 1 .. n BY <1>1, <1>2, <2>1, <3>1 DEF Behind
      <3>2. CASE a = n + 1 BY <1>1, <1>2, <2>1, <3>2 DEF Behind
      <3>3. QED BY <1>1, <1>7, <3>1, <3>2
    <2>3. g.first <= start BY <1>7, <2>1
    <2>4. f \in Files /\ g \in Files /\ k \in 1 .. Len(f.records) BY <1>1, <1>7, <2>1
    <2> HIDE DEF f, g
    <2>5. f.records \in Seq(LogRecords) /\ g.first \in Nat BY <2>4, FilesAre
    <2>6. DOMAIN f.records = 1 .. Len(f.records) /\ f.records[k].seq \in Nat
      <3>1. DOMAIN f.records = 1 .. Len(f.records) BY <2>5, LenProperties
      <3>2. QED BY <2>4, <3>1, NumbersAre
    <2>7. f.records[k].seq < g.first BY <2>2, <2>4, <2>6 DEF NamedBehind
    <2>8. f.records[k].seq < start BY <2>3, <2>5, <2>6, <2>7
    <2>9. QED BY <2>8 DEF f
  <1>9. QED BY <1>1, <1>6, <1>7, <1>8

\* Files of which every record is below the start hold sequences that are.
LEMMA HeldBelow ==
    ASSUME NEW G \in Seq(Files), NEW start \in Nat,
           \A i \in 1 .. Len(G) : \A k \in 1 .. Len(G[i].records) : G[i].records[k].seq < start
    PROVE  SequencesOf(G) \in Seq(0 .. start - 1)
  <1> DEFINE m == Len(G)
             X == 0 .. start - 1
             ss == [j \in 1 .. m |-> Numbers(G[j])]
  <1>1. m \in Nat /\ \A j \in 1 .. m : G[j] \in Files OBVIOUS
  <1>2. FlattenSeq(ss) = SequencesOf(G) BY DEF SequencesOf, Numbers
  <1>3. ASSUME NEW j \in 1 .. m PROVE Numbers(G[j]) \in Seq(X)
    <2> DEFINE e == Numbers(G[j])
    <2>1. /\ e \in Seq(Nat) /\ Len(e) = Len(G[j].records)
          /\ \A k \in 1 .. Len(G[j].records) : e[k] = G[j].records[k].seq /\ e[k] \in Nat
      BY <1>1, NumbersAre
    <2>2. \A k \in 1 .. Len(G[j].records) : e[k] < start BY <2>1
    <2> HIDE DEF e
    <2>3. \A k \in 1 .. Len(e) : e[k] \in X BY <2>1, <2>2
    <2>4. e \in [1 .. Len(e) -> Nat] /\ Len(e) \in Nat BY <2>1
    <2>5. e \in [1 .. Len(e) -> X] BY <2>3, <2>4
    <2>6. e \in Seq(X) BY <2>4, <2>5
    <2>7. QED BY <2>6 DEF e
  <1> HIDE DEF m, X
  <1>4. ss \in [1 .. m -> Seq(X)] BY <1>3
  <1> HIDE DEF ss
  <1>5. ss \in Seq(Seq(X)) BY <1>1, <1>4
  <1>6. QED BY <1>2, <1>5, FlattenType DEF X

\* read_from of a log that was just opened gives what it holds from the start on.
LEMMA ReadsAll ==
    ASSUME WalInv, phase = "up", next = booted, NEW start \in 0 .. next
    PROVE  ReadFrom(start) = [i \in 1 .. next - start |-> start + i - 1]
  <1> DEFINE F == Front(segments)
             x == Last(segments)
             s == segments
             k == StartSegment(s, start)
             a == SubSeq(s, 1, k - 1)
             b == SubSeq(s, k, Len(s))
             base == [start |-> start, read |-> << >>]
  <1>1. /\ s # << >> /\ s = Append(F, x) /\ F \in Seq(Files) /\ x \in Files /\ next \in Nat
        /\ Log(F, x, loose, promised) /\ IsOpen(F, x, next, booted)
    BY UpIs
  <1> HIDE DEF F, x
  <1>2. Behind(F, x) /\ SequencesOf(s) = Upto(next) /\ start \in Nat
    <2>1. Behind(F, x) /\ SequencesOf(Append(F, x)) = Upto(next) BY <1>1 DEF Log, IsOpen
    <2>2. start \in Nat BY <1>1
    <2>3. QED BY <1>1, <2>1, <2>2
  <1>3. ReadFrom(start) = FoldLeft(Delivered, base, SequencesOf(b)).read
    <2> DEFINE onDisk == [i \in 1 .. Len(segments) |->
                             [segments[i] EXCEPT !.records = SubSeq(@, 1, segments[i].written)]]
    <2>1. onDisk = segments BY AllOnDisk
    <2>2. ReadFrom(start) = FoldLeft(Delivered, base, SequencesOf(SubSeq(onDisk, k, Len(segments)))).read
      BY <1>1 DEF ReadFrom
    <2> HIDE DEF onDisk
    <2>3. QED BY <2>1, <2>2
  <1> HIDE DEF s
  <1>4. /\ k \in 1 .. Len(s)
        /\ \A i \in 1 .. k - 1 : \A j \in 1 .. Len(s[i].records) : s[i].records[j].seq < start
    BY <1>1, <1>2, StartIs
  <1>5. s \in Seq(Files) /\ Len(s) \in Nat BY <1>1, LastFile
  <1> HIDE DEF k, base
  <1>6. a \in Seq(Files) /\ b \in Seq(Files) /\ a \o b = s
        /\ Len(a) = k - 1 /\ \A i \in 1 .. k - 1 : a[i] = s[i]
    <2> DEFINE c == k - 1
    <2>1. c \in Nat /\ c + 1 = k /\ c <= Len(s) /\ k \in Nat BY <1>4, <1>5
    <2>2. \A i \in 1 .. Len(s) : s[i] \in Files BY <1>5
    <2> HIDE DEF c
    <2>3. 1 \in 1 .. Len(s) + 1 /\ c \in 1 - 1 .. Len(s) /\ Len(s) \in c .. Len(s) BY <1>5, <2>1
    <2>4. SubSeq(s, 1, c) \o SubSeq(s, c + 1, Len(s)) = SubSeq(s, 1, Len(s))
      BY <1>5, <2>3, ConcatAdjacentSubSeq
    <2>5. SubSeq(s, 1, Len(s)) = s BY <1>5, SubSeqFull
    <2>6. SubSeq(s, c + 1, Len(s)) \in Seq(Files)
      <3> DEFINE d == c + 1
      <3>1. d \in Int /\ Len(s) \in Int /\ \A i \in d .. Len(s) : s[i] \in Files BY <1>5, <2>1, <2>2
      <3> HIDE DEF d
      <3>2. SubSeq(s, d, Len(s)) \in Seq(Files) BY <3>1, SubSeqProperties
      <3>3. QED BY <3>2 DEF d
    <2>7. SubSeq(s, 1, c) \in Seq(Files) /\ Len(SubSeq(s, 1, c)) = c
          /\ \A i \in 1 .. c : SubSeq(s, 1, c)[i] = s[i]
      <3>1. \A i \in 1 .. c : s[i] \in Files BY <1>5, <2>1, <2>2
      <3>2. QED BY <2>1, <3>1
    <2>8. SubSeq(s, 1, c) = a BY DEF c
    <2>9. SubSeq(s, c + 1, Len(s)) = b BY <2>1
    <2> HIDE DEF a, b
    <2>10. QED BY <2>4, <2>5, <2>6, <2>7, <2>8, <2>9 DEF c
  <1> HIDE DEF a, b
  <1>7. SequencesOf(a) \in Seq(0 .. start - 1)
    <2>1. \A i \in 1 .. Len(a) : \A j \in 1 .. Len(a[i].records) : a[i].records[j].seq < start
      BY <1>4, <1>6
    <2>2. QED BY <1>2, <1>6, <2>1, HeldBelow
  <1>8. SequencesOf(s) = SequencesOf(a) \o SequencesOf(b)
        /\ SequencesOf(a) \in Seq(Nat) /\ SequencesOf(b) \in Seq(Nat)
    BY <1>6, SequencesConcat
  <1>9. base = [start |-> start, read |-> << >>] BY DEF base
  <1>10. Reads!Fold(base, SequencesOf(a)) = base BY <1>2, <1>7, <1>9, NothingDelivered
  <1>11. Reads!Fold(base, SequencesOf(a) \o SequencesOf(b))
           = Reads!Fold(Reads!Fold(base, SequencesOf(a)), SequencesOf(b))
    BY <1>8, Reads!FoldConcat
  <1>12. Reads!Fold(base, SequencesOf(b)) = Reads!Fold(base, Upto(next))
    BY <1>2, <1>8, <1>10, <1>11
  <1>13. Reads!Fold(base, Upto(next)).read = [i \in 1 .. next - start |-> start + i - 1]
    BY <1>1, <1>9, RestDelivered
  <1>14. FoldLeft(Delivered, base, SequencesOf(b)) = Reads!Fold(base, SequencesOf(b)) BY LogFolds
  <1>15. QED BY <1>3, <1>12, <1>13, <1>14

-----------------------------------------------------------------------------
(* The theorems.                                                           *)

\* The log starts without a file.
LEMMA WalStarts == WalInit => WalInv
  <1> SUFFICES ASSUME WalInit PROVE WalInv OBVIOUS
  <1> DEFINE none == << >>
             empty == {}
             idle == [step |-> "none", seq |-> 0]
             o == 0
  <1>1. /\ segments = none /\ phase = "down" /\ loose = FALSE /\ promised = o
        /\ snapshots = empty /\ dirSynced = empty /\ saved = -1 /\ saving = idle
    BY DEF WalInit
  <1>2. none \in Seq(Files) /\ DOMAIN none = empty /\ o \in Nat OBVIOUS
  <1>3. IsFiniteSet(empty) /\ empty \in SUBSET Nat BY FS_EmptySet
  <1>4. idle = [step |-> idle.step, seq |-> idle.seq] /\ idle.seq \in Nat
        /\ idle.step # "renamed" /\ idle.step # "synced"
    OBVIOUS
  <1>5. \A i \in empty : FALSE OBVIOUS
  <1>6. -1 \in Nat \cup {-1} OBVIOUS
  <1> HIDE DEF none, empty, idle
  <1>7. LogInv
    <2>1. segments \in Seq(Files) /\ loose \in BOOLEAN /\ promised \in Nat /\ promised = 0
      BY <1>1, <1>2
    <2>2. segments = << >> BY <1>1 DEF none
    <2>3. QED BY <2>1, <2>2 DEF LogInv
  <1>8. PhaseInv BY <1>1, <1>2, <1>5 DEF PhaseInv, RefusedOnlyOverLoss
  <1>9. SnapshotInv BY <1>1, <1>3, <1>4, <1>6 DEF SnapshotInv
  <1>10. QED BY <1>7, <1>8, <1>9 DEF WalInv

\* Every step keeps the invariant of the log.
LEMMA WalKeeps == WalInv /\ [WalNext]_walVars => WalInv'
  <1> SUFFICES ASSUME WalInv, [WalNext]_walVars PROVE WalInv' OBVIOUS
  <1>1. SnapshotInv' BY SnapshotsStep
  <1>2. ASSUME UNCHANGED logVars, phase' = phase PROVE LogInv' /\ PhaseInv'
    BY <1>2 DEF WalInv, LogInv, PhaseInv, RefusedOnlyOverLoss, logVars
  <1>3. LogInv' /\ PhaseInv'
    <2>1. CASE Open BY <2>1, OpenStep
    <2>2. CASE Flush BY <2>2, FlushStep
    <2>3. CASE Kill BY <2>3, KillStep
    <2>4. CASE PowerFailure BY <2>4, PowerFailureStep
    <2>5. ASSUME NEW payload \in Payloads, AppendRecord(payload) PROVE LogInv' /\ PhaseInv'
      BY <2>5, AppendStep
    <2>6. ASSUME NEW seq \in 0 .. MaxRecords, BeginSave(seq) PROVE LogInv' /\ PhaseInv'
      BY <1>2, <2>6 DEF BeginSave
    <2>7. CASE RenameSnapshot \/ SyncDirectory \/ CleanUp
      BY <1>2, <2>7 DEF RenameSnapshot, SyncDirectory, CleanUp
    <2>8. CASE UNCHANGED walVars BY <1>2, <2>8 DEF walVars
    <2>9. QED BY <2>1, <2>2, <2>3, <2>4, <2>5, <2>6, <2>7, <2>8 DEF WalNext
  <1>4. QED BY <1>1, <1>3 DEF WalInv

\* What the invariant says of a log that is open.
LEMMA WalInvTells ==
    ASSUME WalInv
    PROVE  FlushedRecordsKept /\ RefusedOnlyOverLoss /\ BootReadsTheWholeLog
  <1>1. RefusedOnlyOverLoss BY DEF WalInv, PhaseInv
  <1>2. ASSUME phase = "up"
        PROVE  /\ SequencesOf(segments) = [i \in 1 .. next |-> i - 1]
               /\ loose \/ promised <= next
               /\ loose \/ \A i \in 1 .. Len(segments) :
                     segments[i].records # << >> => segments[i].first = segments[i].records[1].seq
    <2> DEFINE F == Front(segments)
               x == Last(segments)
               n == Len(F)
    <2>1. /\ segments = Append(F, x) /\ F \in Seq(Files) /\ x \in Files /\ next \in Nat
          /\ promised \in Nat /\ Log(F, x, loose, promised) /\ IsOpen(F, x, next, booted)
      BY <1>2, UpIs
    <2> HIDE DEF F, x
    <2>2. SequencesOf(segments) = Upto(next) BY <2>1 DEF IsOpen
    <2>3. /\ Continues(F, x) /\ next = Len(SequencesOf(F)) + Len(x.records)
          /\ Len(SequencesOf(F)) \in Nat /\ Len(x.records) \in Nat
      BY <2>1, <2>2, LogHolds
    <2>4. /\ Len(segments) = n + 1 /\ n \in Nat
          /\ (\A i \in 1 .. n : Append(F, x)[i] = F[i]) /\ Append(F, x)[n + 1] = x
      BY <2>1, LastFile
    <2>5. x.synced \in Nat /\ x.written \in Nat /\ x.synced <= x.written /\ x.written <= Len(x.records)
          /\ x.records \in Seq(LogRecords)
      BY <2>1, FilesAre
    <2>6. loose \/ promised <= next
      <3>1. loose \/ promised <= Len(SequencesOf(F)) + x.synced BY <2>1 DEF Log, Tight
      <3>2. QED BY <2>1, <2>3, <2>5, <3>1
    <2>7. ASSUME ~loose, NEW i \in 1 .. Len(segments), segments[i].records # << >>
          PROVE  segments[i].first = segments[i].records[1].seq
      <3>1. Tight(F, x, promised) BY <2>1, <2>7 DEF Log
      <3>2. DOMAIN F = 1 .. n BY <2>1, LenProperties
      <3>3. CASE i \in 1 .. n
        <4>1. Whole(F[i]) /\ segments[i] = F[i] BY <2>1, <2>4, <3>1, <3>2, <3>3 DEF Tight
        <4>2. QED BY <2>7, <4>1 DEF Whole
      <3>4. CASE i = n + 1
        <4>1. segments[i] = x BY <2>1, <2>4, <3>4
        <4>2. 1 \in 1 .. Len(x.records) BY <2>5, <2>7, <4>1
        <4>3. x.records[1].seq = Len(SequencesOf(F)) + 1 - 1 BY <2>3, <4>2 DEF Continues
        <4>4. x.first = Len(SequencesOf(F)) BY <3>1 DEF Tight
        <4>5. QED BY <2>3, <4>1, <4>3, <4>4
      <3>5. QED BY <2>4, <3>3, <3>4
    <2>8. QED BY <2>2, <2>6, <2>7 DEF Upto
  <1>3. FlushedRecordsKept BY <1>2 DEF FlushedRecordsKept
  <1>4. LoadLatestSnapshot >= saved
    <2>1. /\ snapshots \in SUBSET Nat /\ IsFiniteSet(snapshots) /\ saved \in Nat \cup {-1}
          /\ saved = -1 \/ \E s \in snapshots \cap dirSynced : s >= saved
      BY DEF WalInv, SnapshotInv
    <2> DEFINE S == {-1} \cup snapshots
    <2>2. IsFiniteSet(S)
      <3>1. S = snapshots \cup {-1} OBVIOUS
      <3> HIDE DEF S
      <3>2. QED BY <2>1, <3>1, FS_AddElement
    <2>3. S \in SUBSET Int /\ S # {} /\ -1 \in S /\ snapshots \subseteq S BY <2>1
    <2>4. LoadLatestSnapshot = Max(S) BY DEF LoadLatestSnapshot
    <2> HIDE DEF S
    <2>5. Max(S) \in S /\ \A s \in S : s <= Max(S) BY <2>2, <2>3, GreatestIs
    <2> DEFINE m == Max(S)
    <2>6. m \in Int /\ \A s \in S : s \in Int /\ s <= m BY <2>3, <2>5
    <2> HIDE DEF m
    <2>7. m >= saved
      <3>1. CASE saved = -1 BY <2>3, <2>6, <3>1
      <3>2. CASE saved # -1
        <4>1. PICK s \in snapshots : s >= saved BY <2>1, <3>2
        <4>2. s \in Int /\ s <= m /\ saved \in Int BY <2>1, <2>3, <2>6
        <4>3. QED BY <2>6, <4>1, <4>2
      <3>3. QED BY <3>1, <3>2
    <2>8. QED BY <2>4, <2>7 DEF m
  <1>5. BootReadsTheWholeLog BY <1>4, ReadsAll DEF BootReadsTheWholeLog
  <1>6. QED BY <1>1, <1>3, <1>5

\* The invariant of the log and its snapshots.
THEOREM WalInvariant == WalSpec => []WalInv
  BY WalStarts, WalKeeps, PTL DEF WalSpec

\* A log that opens is whole up to next_sequence and has lost nothing that a flush had
\* returned for, whatever was killed or lost power since (WalWriter::open,
\* recover_state, append, flush, rotate_segment).
THEOREM RecordsKept == WalSpec => []FlushedRecordsKept
  BY WalInvariant, WalInvTells, PTL

\* open() refuses to start only over data that is gone (the errors of recover_state).
THEOREM RefusedOverLoss == WalSpec => []RefusedOnlyOverLoss
  BY WalInvariant, WalInvTells, PTL

\* read_from gives a boot all of the log that the writer found, and the newest snapshot
\* is no older than one whose save returned (WalReader::read_from, snapshot.rs).
THEOREM BootReadsAll == WalSpec => []BootReadsTheWholeLog
  BY WalInvariant, WalInvTells, PTL

===============================================================================

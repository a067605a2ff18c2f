-------------------------- MODULE TranscriptProofs --------------------------
(***************************************************************************)
(* The numbered conversation, kept and shown.  First the ring of           *)
(* EventBuffer, for every capacity and every set of messages: its type     *)
(* invariant, the numbering of its live events, what a cursor is answered, *)
(* and that it implements the log of EventLog.  Then the screen of         *)
(* TranscriptSync.                                                         *)
(***************************************************************************)
EXTENDS EventBuffer, TranscriptSync, SequenceTheorems, Loops, TLAPS

(* One wrap around the ring: a slot and an offset of at most one lap.       *)
LEMMA ModWrap ==
  ASSUME NEW a \in 0..Cap - 1, NEW b \in 0..Cap
  PROVE  (a + b) % Cap = IF a + b < Cap THEN a + b ELSE a + b - Cap
  BY CapAssumption

(* Every offset names a slot of the ring.                                    *)
LEMMA SlotInRing ==
  ASSUME head \in 0..Cap - 1, NEW i \in 0..Cap
  PROVE  Slot(i) \in 0..Cap - 1
  BY CapAssumption, ModWrap DEF Slot

(* Distinct offsets of live events lie in distinct slots.                   *)
LEMMA SlotInjective ==
  ASSUME head \in 0..Cap - 1, NEW i \in 0..Cap - 1, NEW j \in 0..Cap - 1, i # j
  PROVE  Slot(i) # Slot(j)
<1>1. Slot(i) = IF head + i < Cap THEN head + i ELSE head + i - Cap
  BY CapAssumption, ModWrap DEF Slot
<1>2. Slot(j) = IF head + j < Cap THEN head + j ELSE head + j - Cap
  BY CapAssumption, ModWrap DEF Slot
<1>3. QED
  BY <1>1, <1>2, CapAssumption

(* The inductive invariant: the types and the numbering of live events.     *)
RingInv == BufferTypeOK /\ Contiguous

(* A new buffer satisfies the invariant.                                     *)
LEMMA NewEstablishes == New => RingInv
  BY CapAssumption DEF New, RingInv, BufferTypeOK, Contiguous

(* An append into a ring with room puts the event after the live ones.      *)
LEMMA StoreFills ==
  ASSUME BufferTypeOK, NEW e \in Event, Store(e), count < Cap
  PROVE  /\ count' = count + 1 /\ head' = head
         /\ buf' \in [0..Cap - 1 -> Event \cup {Zero}]
         /\ \A i \in 0..count : buf'[Slot(i)'] = IF i = count THEN e ELSE buf[Slot(i)]
<1>0. /\ head \in 0..Cap - 1 /\ count \in 0..Cap - 1 /\ Cap \in Nat \ {0}
      /\ buf \in [0..Cap - 1 -> Event \cup {Zero}]
  BY CapAssumption DEF BufferTypeOK
<1>1. /\ buf' = [buf EXCEPT ![Slot(count)] = e]
      /\ count' = count + 1 /\ head' = head
  BY DEF Store
<1>2. Slot(count) \in 0..Cap - 1
  BY <1>0, SlotInRing
<1>3. ASSUME NEW i \in 0..count
      PROVE  buf'[Slot(i)'] = IF i = count THEN e ELSE buf[Slot(i)]
  <2>1. Slot(i)' = Slot(i)
    BY <1>1 DEF Slot
  <2>2. CASE i = count
    BY <1>0, <1>1, <1>2, <2>1, <2>2
  <2>3. CASE i # count
    <3>1. i \in 0..Cap - 1
      BY <1>0
    <3>2. Slot(i) # Slot(count) /\ Slot(i) \in 0..Cap - 1
      BY <1>0, <2>3, <3>1, SlotInjective, SlotInRing
    <3> QED
      BY <1>0, <1>1, <2>1, <2>3, <3>2
  <2> QED
    BY <2>2, <2>3
<1> QED
  BY <1>0, <1>1, <1>2, <1>3

(* An append into a full ring drops the oldest event and moves the others    *)
(* one offset down, although none of them changes its slot.                  *)
LEMMA StoreShifts ==
  ASSUME BufferTypeOK, NEW e \in Event, Store(e), ~(count < Cap)
  PROVE  /\ count = Cap /\ count' = Cap /\ head' \in 0..Cap - 1
         /\ buf' \in [0..Cap - 1 -> Event \cup {Zero}]
         /\ \A i \in 0..Cap - 1 : buf'[Slot(i)'] = IF i = Cap - 1 THEN e ELSE buf[Slot(i + 1)]
<1>0. /\ head \in 0..Cap - 1 /\ count = Cap /\ Cap \in Nat \ {0}
      /\ buf \in [0..Cap - 1 -> Event \cup {Zero}]
  BY CapAssumption DEF BufferTypeOK
<1>1. /\ buf' = [buf EXCEPT ![head] = e]
      /\ count' = count /\ head' = (head + 1) % Cap
  BY DEF Store
<1>2. head' = IF head + 1 < Cap THEN head + 1 ELSE 0
  <2>1. 1 \in 0..Cap
    BY <1>0
  <2>2. (head + 1) % Cap = IF head + 1 < Cap THEN head + 1 ELSE head + 1 - Cap
    BY <1>0, <2>1, ModWrap
  <2> QED
    BY <1>0, <1>1, <2>2
<1>3. head' \in 0..Cap - 1
  BY <1>0, <1>2
<1>4. ASSUME NEW i \in 0..Cap - 1
      PROVE  buf'[Slot(i)'] = IF i = Cap - 1 THEN e ELSE buf[Slot(i + 1)]
  <2>1. Slot(i)' = IF head' + i < Cap THEN head' + i ELSE head' + i - Cap
    <3>1. i \in 0..Cap
      BY <1>0
    <3>2. (head' + i) % Cap = IF head' + i < Cap THEN head' + i ELSE head' + i - Cap
      BY <1>3, <3>1, ModWrap
    <3> QED
      BY <3>2 DEF Slot
  <2>2. CASE i = Cap - 1
    <3>1. Slot(i)' = head
      BY <1>0, <1>2, <2>1, <2>2
    <3> QED
      BY <1>0, <1>1, <2>2, <3>1
  <2>3. CASE i # Cap - 1
    <3>1. i + 1 \in 0..Cap - 1 /\ i + 1 \in 0..Cap /\ 0 \in 0..Cap - 1 /\ 0 \in 0..Cap
      BY <1>0, <2>3
    <3>2. Slot(i + 1) = IF head + (i + 1) < Cap THEN head + (i + 1)
                                                ELSE head + (i + 1) - Cap
      BY <1>0, <3>1, ModWrap DEF Slot
    <3>3. Slot(i)' = Slot(i + 1)
      BY <1>0, <1>2, <2>1, <3>1, <3>2
    <3>4. head = Slot(0)
      <4>1. (head + 0) % Cap = IF head + 0 < Cap THEN head + 0 ELSE head + 0 - Cap
        BY <1>0, <3>1, ModWrap
      <4> QED
        BY <1>0, <4>1 DEF Slot
    <3>5. Slot(i + 1) # head /\ Slot(i + 1) \in 0..Cap - 1
      <4>1. i + 1 # 0
        BY <1>0
      <4> QED
        BY <1>0, <3>1, <3>4, <4>1, SlotInjective, SlotInRing
    <3> QED
      BY <1>0, <1>1, <2>3, <3>3, <3>5
  <2> QED
    BY <2>2, <2>3
<1> QED
  BY <1>0, <1>1, <1>3, <1>4

(* Append keeps the live slots numbered without a gap.                       *)
LEMMA AppendPreserves ==
  ASSUME RingInv, NEW d \in Data, AppendEvent(d)
  PROVE  RingInv'
<1> DEFINE e == [seq |-> seq + 1, data |-> d]
<1>0. /\ seq \in Nat /\ head \in 0..Cap - 1 /\ count \in 0..Cap /\ count <= seq
      /\ Cap \in Nat \ {0}
      /\ seq' = seq + 1 /\ Store(e)
  BY CapAssumption DEF RingInv, BufferTypeOK, AppendEvent
<1>1. e \in Event /\ e.seq = seq + 1
  BY <1>0 DEF Event
<1> HIDE DEF e
<1>2. CASE count < Cap
  <2>1. /\ count' = count + 1 /\ head' = head
        /\ buf' \in [0..Cap - 1 -> Event \cup {Zero}]
        /\ \A i \in 0..count : buf'[Slot(i)'] = IF i = count THEN e ELSE buf[Slot(i)]
    BY <1>0, <1>1, <1>2, StoreFills DEF RingInv
  <2>2. BufferTypeOK'
    BY <1>0, <1>2, <2>1 DEF BufferTypeOK
  <2>3. ASSUME NEW i \in 0..count
        PROVE  buf'[Slot(i)'] \in Event /\ buf'[Slot(i)'].seq = seq' - count' + 1 + i
    <3>1. CASE i = count
      BY <1>0, <1>1, <2>1, <3>1
    <3>2. CASE i # count
      <4>1. i \in 0..count - 1
        BY <1>0, <3>2
      <4> QED
        BY <1>0, <2>1, <3>2, <4>1 DEF RingInv, Contiguous
    <3> QED
      BY <3>1, <3>2
  <2>4. Contiguous'
    <3>1. 0..count' - 1 = 0..count
      BY <1>0, <2>1
    <3> QED
      BY <2>3, <3>1 DEF Contiguous
  <2> QED
    BY <2>2, <2>4 DEF RingInv
<1>3. CASE ~(count < Cap)
  <2>1. /\ count = Cap /\ count' = Cap /\ head' \in 0..Cap - 1
        /\ buf' \in [0..Cap - 1 -> Event \cup {Zero}]
        /\ \A i \in 0..Cap - 1 : buf'[Slot(i)'] = IF i = Cap - 1 THEN e ELSE buf[Slot(i + 1)]
    BY <1>0, <1>1, <1>3, StoreShifts DEF RingInv
  <2>2. BufferTypeOK'
    BY <1>0, <2>1 DEF BufferTypeOK
  <2>3. ASSUME NEW i \in 0..Cap - 1
        PROVE  buf'[Slot(i)'] \in Event /\ buf'[Slot(i)'].seq = seq' - count' + 1 + i
    <3>1. CASE i = Cap - 1
      BY <1>0, <1>1, <2>1, <3>1
    <3>2. CASE i # Cap - 1
      <4>1. i + 1 \in 0..count - 1
        BY <1>0, <2>1, <3>2
      <4>2. buf[Slot(i + 1)] \in Event /\ buf[Slot(i + 1)].seq = seq - count + 1 + (i + 1)
        BY <4>1 DEF RingInv, Contiguous
      <4> QED
        BY <1>0, <2>1, <3>2, <4>2
    <3> QED
      BY <3>1, <3>2
  <2>4. Contiguous'
    BY <2>1, <2>3 DEF Contiguous
  <2> QED
    BY <2>2, <2>4 DEF RingInv
<1> QED
  BY <1>2, <1>3

(* Rewriting an event in place keeps its number.                             *)
LEMMA UpdatePreserves ==
  ASSUME RingInv, NEW d \in Data, UpdateInPlace(d)
  PROVE  RingInv'
<1>0. /\ seq \in Nat /\ head \in 0..Cap - 1 /\ count \in 0..Cap /\ count <= seq
      /\ buf \in [0..Cap - 1 -> Event \cup {Zero}]
      /\ Cap \in Nat \ {0}
  BY CapAssumption DEF RingInv, BufferTypeOK
<1>1. PICK k \in 0..count - 1 :
        buf' = [buf EXCEPT ![Slot(k)] = [seq |-> buf[Slot(k)].seq, data |-> d]]
  BY DEF UpdateInPlace, Holding
<1>2. UNCHANGED <<seq, head, count>>
  BY DEF UpdateInPlace
<1> DEFINE e == [seq |-> buf[Slot(k)].seq, data |-> d]
<1>3. Slot(k) \in 0..Cap - 1
  BY <1>0, SlotInRing
<1>4. e \in Event /\ e.seq = buf[Slot(k)].seq /\ buf' = [buf EXCEPT ![Slot(k)] = e]
  BY <1>1 DEF RingInv, Contiguous, Event
<1> HIDE DEF e
<1>5. BufferTypeOK'
  BY <1>0, <1>2, <1>3, <1>4 DEF BufferTypeOK
<1>6. Contiguous'
  <2> SUFFICES ASSUME NEW i \in 0..count - 1
               PROVE  buf'[Slot(i)] \in Event /\ buf'[Slot(i)].seq = seq - count + 1 + i
    BY <1>2 DEF Contiguous, Slot
  <2>1. Slot(i) \in 0..Cap - 1
    BY <1>0, SlotInRing
  <2>2. buf[Slot(i)] \in Event /\ buf[Slot(i)].seq = seq - count + 1 + i
    BY DEF RingInv, Contiguous
  <2>3. QED
    BY <1>0, <1>3, <1>4, <2>1, <2>2
<1>7. QED
  BY <1>5, <1>6 DEF RingInv

(* Every method keeps the numbering.                                         *)
LEMMA RingPreserved == RingInv /\ [BufferNext]_bufferVars => RingInv'
<1> SUFFICES ASSUME RingInv, [BufferNext]_bufferVars PROVE RingInv'
  OBVIOUS
<1>1. CASE \E d \in Data : AppendEvent(d)
  BY <1>1, AppendPreserves
<1>2. CASE \E d \in Data : UpdateOrAppend(d)
  BY <1>2, AppendPreserves, UpdatePreserves DEF UpdateOrAppend
<1>3. CASE \E k \in 0..MaxSeq : InitSeq(k)
  BY <1>3, CapAssumption, MaxSeqAssumption DEF RingInv, BufferTypeOK, Contiguous, InitSeq
<1>4. CASE Reset
  BY <1>4, CapAssumption DEF RingInv, BufferTypeOK, Contiguous, Reset
<1>5. CASE UNCHANGED bufferVars
  BY <1>5 DEF RingInv, BufferTypeOK, Contiguous, Slot, bufferVars
<1>6. QED
  BY <1>1, <1>2, <1>3, <1>4, <1>5 DEF BufferNext

(* The ring stays well-typed: head and count within the slots, and never    *)
(* more live events than sequence numbers handed out.                       *)
THEOREM RingTypes == BufferSpec => []BufferTypeOK
<1>1. RingInv => BufferTypeOK
  BY DEF RingInv
<1>2. QED
  BY <1>1, NewEstablishes, RingPreserved, PTL DEF BufferSpec

(* For every capacity, the live slots hold the last count sequence numbers  *)
(* in order: wrap-around never loses, repeats or reorders an event.         *)
THEOREM ContiguousAlways == BufferSpec => []Contiguous
<1>1. RingInv => Contiguous
  BY DEF RingInv
<1>2. QED
  BY <1>1, NewEstablishes, RingPreserved, PTL DEF BufferSpec

(* For every capacity, LastEvent is the event numbered LastSeq.             *)
THEOREM LastEventAlways == BufferSpec => []LastEventIsNewest
<1>1. RingInv => LastEventIsNewest
  <2> SUFFICES ASSUME RingInv, count # 0 PROVE LastEvent.seq = LastSeq
    BY DEF LastEventIsNewest, LastEvent
  <2>1. count - 1 \in 0..count - 1 /\ seq \in Nat /\ count \in Nat /\ head \in Nat
    BY CapAssumption DEF RingInv, BufferTypeOK
  <2>2. buf[Slot(count - 1)].seq = seq - count + 1 + (count - 1)
    BY <2>1 DEF RingInv, Contiguous
  <2>3. (head + count - 1) % Cap = Slot(count - 1)
    <3>1. head + count - 1 = head + (count - 1)
      BY <2>1
    <3>2. QED
      BY <3>1 DEF Slot
  <2>4. QED
    BY <2>1, <2>2, <2>3 DEF LastEvent, LastSeq
<1>2. QED
  BY <1>1, NewEstablishes, RingPreserved, PTL DEF BufferSpec

-----------------------------------------------------------------------------
(* What a reader that polls receives.                                        *)

IsScan(f, after) ==
    /\ f[0] = <<>>
    /\ \A i \in 1..count :
          f[i] = IF Newer(buf[Slot(i - 1)], after) THEN Append(f[i - 1], buf[Slot(i - 1)]) ELSE f[i - 1]

(* Since's loop visits the live events one after the other.                  *)
LEMMA ScannedIsScan ==
  ASSUME RingInv, NEW after
  PROVE  IsScan(Scanned(after), after)
<1> DEFINE Next1(q, i) == IF Newer(buf[Slot(i - 1)], after) THEN Append(q, buf[Slot(i - 1)]) ELSE q
           G == [i \in 1..count |-> [q \in Seq(Event) |-> Next1(q, i)]]
           Is(f) == f = [i \in 0..count |-> IF i = 0 THEN <<>> ELSE Next1(f[i - 1], i)]
           r == Scanned(after)
<1>1. count \in Nat /\ <<>> \in Seq(Event)
  BY CapAssumption DEF RingInv, BufferTypeOK
<1>2. \A i \in 1..count : buf[Slot(i - 1)] \in Event
  <2>1. \A i \in 1..count : i - 1 \in 0..count - 1
    BY <1>1
  <2> QED
    BY <2>1 DEF RingInv, Contiguous
<1>3. G \in [1..count -> [Seq(Event) -> Seq(Event)]]
  <2>1. ASSUME NEW i \in 1..count, NEW q \in Seq(Event) PROVE Next1(q, i) \in Seq(Event)
    BY <1>2
  <2> QED
    BY <2>1
<1>4. PICK f : IsLoop(f, count, Seq(Event), <<>>, G)
  <2> HIDE DEF G, Next1, Is, r
  <2> QED
    BY <1>1, <1>3, LoopExists
<1>5. Is(f)
  <2>1. ASSUME NEW i \in 1..count PROVE f[i] = Next1(f[i - 1], i)
    <3> HIDE DEF Next1
    <3>1. f[i - 1] \in Seq(Event)
      <4>1. i - 1 \in 0..count
        BY <1>1
      <4> QED
        BY <1>4, <4>1 DEF IsLoop
    <3> QED
      BY <1>4, <3>1 DEF IsLoop
  <2> HIDE DEF Next1
  <2> QED
    BY <1>1, <1>4, <2>1 DEF IsLoop
<1>6. r = CHOOSE g : Is(g)
  BY DEF Scanned
<1>7. Is(r)
  <2> HIDE DEF Is, r
  <2> QED
    BY <1>5, <1>6
<1>8. r[0] = <<>> /\ \A i \in 1..count : r[i] = Next1(r[i - 1], i)
  <2> HIDE DEF Next1, r
  <2> QED
    BY <1>1, <1>7
<1> QED
  BY <1>8 DEF IsScan

(* For every capacity and every cursor within what the ring retains, Since   *)
(* returns just the events numbered after the cursor, in order.              *)
THEOREM SinceIsGaplessAlways == BufferSpec => []SinceIsGapless
<1>1. RingInv => SinceIsGapless
  <2> SUFFICES ASSUME RingInv, NEW cursor \in (seq - count)..seq
               PROVE  /\ Len(Since(cursor)) = seq - cursor
                      /\ \A i \in 1..seq - cursor : Since(cursor)[i].seq = cursor + i
    BY DEF SinceIsGapless
  <2> DEFINE r == Scanned(cursor)
             d == cursor - (seq - count)
             T == {i \in 0..count : /\ r[i] \in Seq(Event) /\ Len(r[i]) = IF i <= d THEN 0 ELSE i - d
                                    /\ \A j \in 1..Len(r[i]) : r[i][j].seq = cursor + j}
  <2>1. /\ count \in Nat /\ seq \in Nat /\ count <= seq /\ d \in 0..count /\ cursor \in Nat
        /\ cursor = d + seq - count
    BY CapAssumption DEF RingInv, BufferTypeOK
  <2>2. IsScan(r, cursor)
    BY ScannedIsScan
  <2> HIDE DEF r, d
  <2>3. 0 \in T
    <3>1. r[0] = <<>> /\ 0 \in 0..count /\ 0 <= d
      BY <2>1, <2>2 DEF IsScan
    <3>2. r[0] \in Seq(Event) /\ Len(r[0]) = 0
      BY <3>1
    <3>3. \A j \in 1..Len(r[0]) : r[0][j].seq = cursor + j
      BY <3>2
    <3>4. Len(r[0]) = IF 0 <= d THEN 0 ELSE 0 - d
      BY <3>1, <3>2
    <3> QED
      BY <3>1, <3>2, <3>3, <3>4
  <2>4. ASSUME NEW i \in 1..count, i - 1 \in T PROVE i \in T
    <3> DEFINE e == buf[Slot(i - 1)]
               q == r[i - 1]
    <3>1. i - 1 \in 0..count - 1 /\ i \in 0..count
      BY <2>1
    <3>2. e \in Event /\ e.seq = seq - count + i
      <4>1. e \in Event /\ e.seq = seq - count + 1 + (i - 1)
        BY <3>1 DEF RingInv, Contiguous
      <4> QED
        BY <2>1, <4>1
    <3>3. r[i] = IF e.seq > cursor THEN Append(q, e) ELSE q
      BY <2>2 DEF IsScan, Newer
    <3>4. /\ q \in Seq(Event) /\ Len(q) = IF i - 1 <= d THEN 0 ELSE (i - 1) - d
          /\ \A j \in 1..Len(q) : q[j].seq = cursor + j
      BY <2>4
    <3> HIDE DEF e, q, T
    <3>5. CASE i <= d
      <4>1. r[i] = q /\ Len(q) = 0
        BY <2>1, <3>2, <3>3, <3>4, <3>5
      <4> QED
        BY <3>1, <3>4, <3>5, <4>1 DEF T
    <3>6. CASE ~(i <= d)
      <4>1. r[i] = Append(q, e) /\ Len(q) = i - 1 - d
        BY <2>1, <3>2, <3>3, <3>4, <3>6
      <4>2. /\ Append(q, e) \in Seq(Event) /\ Len(Append(q, e)) = i - d
            /\ \A j \in 1..i - d : Append(q, e)[j] = IF j = i - d THEN e ELSE q[j]
        BY <2>1, <3>2, <3>4, <4>1
      <4>3. ASSUME NEW j \in 1..i - d PROVE r[i][j].seq = cursor + j
        <5>1. CASE j = i - d
          <6>1. r[i][j] = e
            BY <4>1, <4>2, <5>1
          <6>2. seq - count + i = cursor + j
            BY <2>1, <5>1
          <6> QED
            BY <3>2, <6>1, <6>2
        <5>2. CASE j # i - d
          <6>1. j \in 1..Len(q)
            BY <2>1, <4>1, <5>2
          <6> QED
            BY <3>4, <4>1, <4>2, <5>2, <6>1
        <5> QED
          BY <5>1, <5>2
      <4> QED
        BY <3>1, <3>6, <4>1, <4>2, <4>3 DEF T
    <3> QED
      BY <3>5, <3>6
  <2>5. count \in T
    <3> HIDE DEF T
    <3>1. 0..count \subseteq T
      BY <2>1, <2>3, <2>4, Reaches
    <3> QED
      BY <2>1, <3>1
  <2>6. Len(r[count]) = seq - cursor /\ \A i \in 1..seq - cursor : r[count][i].seq = cursor + i
    <3>1. /\ Len(r[count]) = IF count <= d THEN 0 ELSE count - d
          /\ \A j \in 1..Len(r[count]) : r[count][j].seq = cursor + j
      BY <2>5
    <3>2. (IF count <= d THEN 0 ELSE count - d) = seq - cursor
      BY <2>1
    <3> HIDE DEF T
    <3>3. Len(r[count]) = seq - cursor
      BY <3>1, <3>2
    <3> QED
      BY <3>1, <3>3
  <2> QED
    BY <2>6 DEF Since, r
<1> QED
  BY <1>1, NewEstablishes, RingPreserved, PTL DEF BufferSpec

-----------------------------------------------------------------------------
(* The refinement: read from the oldest live slot on, the ring is the log.   *)

(* The live slots, oldest first, form a sequence of count events.            *)
LEMMA LiveIsSeq ==
  ASSUME RingInv
  PROVE  /\ Live \in Seq(Event) /\ Len(Live) = count
         /\ \A i \in 1..count : Live[i] = buf[Slot(i - 1)]
<1>1. count \in Nat
  BY CapAssumption DEF RingInv, BufferTypeOK
<1>2. \A i \in 1..count : i - 1 \in 0..count - 1
  BY <1>1
<1>3. \A i \in 1..count : buf[Slot(i - 1)] \in Event
  BY <1>2 DEF RingInv, Contiguous
<1>4. Live \in [1..count -> Event]
  BY <1>3 DEF Live
<1>5. Live \in Seq(Event)
  BY <1>1, <1>4, SeqDef
<1>6. Len(Live) = count
  BY <1>1, <1>4, <1>5, LenProperties
<1> QED
  BY <1>5, <1>6 DEF Live

(* Append does to the live events what a push does to the log.               *)
LEMMA AppendIsPush ==
  ASSUME RingInv, NEW d \in Data, AppendEvent(d)
  PROVE  Log!Append1(d)
<1> DEFINE e == [seq |-> seq + 1, data |-> d]
<1>0. /\ seq \in Nat /\ count \in 0..Cap /\ Cap \in Nat \ {0}
      /\ seq' = seq + 1 /\ Store(e) /\ e \in Event
  BY CapAssumption DEF RingInv, BufferTypeOK, AppendEvent, Event
<1>1. Live \in Seq(Event) /\ Len(Live) = count /\ \A i \in 1..count : Live[i] = buf[Slot(i - 1)]
  BY LiveIsSeq
<1>2. /\ Live' \in Seq(Event) /\ Len(Live') = count'
      /\ \A i \in 1..count' : Live'[i] = buf'[Slot(i - 1)']
  <2>1. RingInv'
    BY AppendPreserves
  <2>2. (Live \in Seq(Event) /\ Len(Live) = count /\ \A i \in 1..count : Live[i] = buf[Slot(i - 1)])'
    BY <2>1, LiveIsSeq, PTL
  <2> QED
    BY <2>2
<1> HIDE DEF e
<1>3. CASE count < Cap
  <2>1. /\ count' = count + 1
        /\ \A i \in 0..count : buf'[Slot(i)'] = IF i = count THEN e ELSE buf[Slot(i)]
    BY <1>0, <1>3, StoreFills DEF RingInv
  <2>2. /\ Append(Live, e) \in Seq(Event) /\ Len(Append(Live, e)) = count + 1
        /\ \A i \in 1..count + 1 : Append(Live, e)[i] = IF i = count + 1 THEN e ELSE Live[i]
    BY <1>0, <1>1
  <2>3. \A i \in 1..count + 1 : Live'[i] = Append(Live, e)[i]
    <3> SUFFICES ASSUME NEW i \in 1..count + 1 PROVE Live'[i] = Append(Live, e)[i]
      OBVIOUS
    <3>1. i - 1 \in 0..count /\ i \in 1..count'
      BY <1>0, <2>1
    <3>2. Live'[i] = IF i - 1 = count THEN e ELSE buf[Slot(i - 1)]
      BY <1>2, <2>1, <3>1
    <3>3. CASE i = count + 1
      BY <1>0, <2>2, <3>2, <3>3
    <3>4. CASE i # count + 1
      <4>1. i \in 1..count /\ i - 1 # count
        BY <1>0, <3>4
      <4> QED
        BY <1>1, <2>2, <3>2, <3>4, <4>1
    <3> QED
      BY <3>3, <3>4
  <2>4. Live' = Append(Live, e)
    BY <1>2, <2>1, <2>2, <2>3, SeqEqual
  <2> QED
    BY <1>0, <1>1, <1>3, <2>4 DEF e, Log!Append1, Log!Push
<1>4. CASE ~(count < Cap)
  <2>1. /\ count = Cap /\ count' = Cap
        /\ \A i \in 0..Cap - 1 : buf'[Slot(i)'] = IF i = Cap - 1 THEN e ELSE buf[Slot(i + 1)]
    BY <1>0, <1>4, StoreShifts DEF RingInv
  <2>2. /\ Tail(Live) \in Seq(Event) /\ Len(Tail(Live)) = Cap - 1
        /\ \A i \in 1..Cap - 1 : Tail(Live)[i] = Live[i + 1]
    <3>1. Live # <<>>
      BY <1>0, <1>1, <2>1, EmptySeq
    <3> QED
      BY <1>1, <2>1, <3>1, HeadTailProperties
  <2>3. /\ Append(Tail(Live), e) \in Seq(Event) /\ Len(Append(Tail(Live), e)) = Cap
        /\ \A i \in 1..Cap : Append(Tail(Live), e)[i] = IF i = Cap THEN e ELSE Tail(Live)[i]
    BY <1>0, <2>2
  <2>4. \A i \in 1..Cap : Live'[i] = Append(Tail(Live), e)[i]
    <3> SUFFICES ASSUME NEW i \in 1..Cap PROVE Live'[i] = Append(Tail(Live), e)[i]
      OBVIOUS
    <3>1. i - 1 \in 0..Cap - 1 /\ i \in 1..count'
      BY <1>0, <2>1
    <3>2. Live'[i] = IF i - 1 = Cap - 1 THEN e ELSE buf[Slot((i - 1) + 1)]
      BY <1>2, <2>1, <3>1
    <3>3. CASE i = Cap
      BY <1>0, <2>3, <3>2, <3>3
    <3>4. CASE i # Cap
      <4>1. i \in 1..Cap - 1 /\ i + 1 \in 1..count /\ i - 1 # Cap - 1 /\ (i - 1) + 1 = (i + 1) - 1
        BY <1>0, <2>1, <3>4
      <4> QED
        BY <1>1, <2>2, <2>3, <3>2, <3>4, <4>1
    <3> QED
      BY <3>3, <3>4
  <2>5. Live' = Append(Tail(Live), e)
    BY <1>2, <2>1, <2>3, <2>4, SeqEqual
  <2> QED
    BY <1>0, <1>1, <1>4, <2>5 DEF e, Log!Append1, Log!Push
<1> QED
  BY <1>3, <1>4

(* Offset k in the ring is position k + 1 of the log.                        *)
LEMMA HoldingIsHolding ==
  ASSUME RingInv, NEW m
  PROVE  \A k \in 0..count - 1 : k \in Holding(m) <=> k + 1 \in Log!Holding(m)
<1>1. count \in Nat /\ Len(Live) = count /\ \A i \in 1..count : Live[i] = buf[Slot(i - 1)]
  BY LiveIsSeq, CapAssumption DEF RingInv, BufferTypeOK
<1>2. ASSUME NEW k \in 0..count - 1 PROVE k \in Holding(m) <=> k + 1 \in Log!Holding(m)
  <2>1. k + 1 \in 1..count /\ (k + 1) - 1 = k
    BY <1>1
  <2>2. Live[k + 1] = buf[Slot(k)]
    BY <1>1, <2>1
  <2> QED
    BY <1>1, <2>1, <2>2 DEF Holding, Log!Holding
<1> QED
  BY <1>2

(* UpdateByMessageID does to the live events what an update does to the log. *)
LEMMA UpdateIsUpdate ==
  ASSUME RingInv, NEW d \in Data, UpdateInPlace(d)
  PROVE  Log!Update(d)
<1>0. /\ count \in 0..Cap /\ head \in 0..Cap - 1 /\ Cap \in Nat \ {0}
      /\ buf \in [0..Cap - 1 -> Event \cup {Zero}]
  BY CapAssumption DEF RingInv, BufferTypeOK
<1>1. PICK k \in Holding(d.id) :
        /\ \A j \in Holding(d.id) : j <= k
        /\ buf' = [buf EXCEPT ![Slot(k)] = [seq |-> buf[Slot(k)].seq, data |-> d]]
        /\ UNCHANGED <<seq, head, count>>
  BY DEF UpdateInPlace
<1> DEFINE e == [seq |-> buf[Slot(k)].seq, data |-> d]
<1>2. k \in 0..count - 1 /\ k + 1 \in 1..count /\ (k + 1) - 1 = k /\ k \in 0..Cap - 1
  BY <1>0 DEF Holding
<1>3. Live \in Seq(Event) /\ Len(Live) = count /\ \A i \in 1..count : Live[i] = buf[Slot(i - 1)]
  BY LiveIsSeq
<1>4. /\ Live' \in Seq(Event) /\ Len(Live') = count
      /\ \A i \in 1..count : Live'[i] = buf'[Slot(i - 1)]
  <2>1. RingInv'
    BY UpdatePreserves
  <2>2. (Live \in Seq(Event) /\ Len(Live) = count /\ \A i \in 1..count : Live[i] = buf[Slot(i - 1)])'
    BY <2>1, LiveIsSeq, PTL
  <2> QED
    BY <1>1, <2>2 DEF Slot
<1>5. Live[k + 1] = buf[Slot(k)] /\ e = [seq |-> Live[k + 1].seq, data |-> d] /\ e \in Event
  <2>1. Live[k + 1] = buf[Slot(k)]
    BY <1>2, <1>3
  <2>2. buf[Slot(k)] \in Event
    BY <1>2 DEF RingInv, Contiguous
  <2> QED
    BY <2>1, <2>2 DEF Event
<1> HIDE DEF e
<1>6. Live' = [Live EXCEPT ![k + 1] = e]
  <2>1. /\ [Live EXCEPT ![k + 1] = e] \in Seq(Event)
        /\ Len([Live EXCEPT ![k + 1] = e]) = count
        /\ \A i \in 1..count : [Live EXCEPT ![k + 1] = e][i] = IF i = k + 1 THEN e ELSE Live[i]
    BY <1>2, <1>3, <1>5, ExceptSeq
  <2>2. ASSUME NEW i \in 1..count PROVE Live'[i] = [Live EXCEPT ![k + 1] = e][i]
    <3>1. i - 1 \in 0..Cap - 1 /\ Slot(i - 1) \in 0..Cap - 1 /\ Slot(k) \in 0..Cap - 1
      BY <1>0, <1>2, SlotInRing
    <3>2. buf' = [buf EXCEPT ![Slot(k)] = e]
      BY <1>1 DEF e
    <3>3. CASE i = k + 1
      BY <1>0, <1>2, <1>4, <2>1, <3>1, <3>2, <3>3
    <3>4. CASE i # k + 1
      <4>1. i - 1 # k
        BY <1>0, <1>2, <3>4
      <4>2. Slot(i - 1) # Slot(k)
        BY <1>0, <1>2, <3>1, <4>1, SlotInjective
      <4> QED
        BY <1>0, <1>3, <1>4, <2>1, <3>1, <3>2, <3>4, <4>2
    <3> QED
      BY <3>3, <3>4
  <2> QED
    BY <1>4, <2>1, <2>2, SeqEqual
<1>7. k + 1 \in Log!Holding(d.id) /\ \A j \in Log!Holding(d.id) : j <= k + 1
  <2>1. k + 1 \in Log!Holding(d.id)
    BY <1>1, <1>2, HoldingIsHolding
  <2>2. ASSUME NEW j \in Log!Holding(d.id) PROVE j <= k + 1
    <3>1. j \in 1..count /\ j - 1 \in 0..count - 1 /\ (j - 1) + 1 = j
      BY <1>0, <1>3 DEF Log!Holding
    <3>2. j - 1 \in Holding(d.id)
      BY <3>1, HoldingIsHolding
    <3> QED
      BY <1>0, <1>1, <1>2, <3>1, <3>2
  <2> QED
    BY <2>1, <2>2
<1> QED
  BY <1>1, <1>5, <1>6, <1>7 DEF Log!Update

(* Every step of the buffer is a step of the log, or none.                   *)
LEMMA NextIsLogStep == RingInv /\ [BufferNext]_bufferVars => [Log!Next]_Log!vars
<1> SUFFICES ASSUME RingInv, [BufferNext]_bufferVars PROVE [Log!Next]_Log!vars
  OBVIOUS
<1>d. Data = Log!Data
  BY DEF Data, Log!Data
<1>c. count \in Nat /\ Len(Live) = count /\ Live \in Seq(Event)
  BY LiveIsSeq, CapAssumption DEF RingInv, BufferTypeOK
<1>1. ASSUME NEW d \in Data, AppendEvent(d) PROVE Log!Next
  BY <1>1, <1>d, AppendIsPush DEF Log!Next
<1>2. ASSUME NEW d \in Data, UpdateOrAppend(d) PROVE Log!Next
  <2>1. Holding(d.id) = {} <=> Log!Holding(d.id) = {}
    <3>1. \A j \in Log!Holding(d.id) : j - 1 \in 0..count - 1 /\ (j - 1) + 1 = j
      BY <1>c DEF Log!Holding
    <3>2. \A k \in Holding(d.id) : k \in 0..count - 1
      BY DEF Holding
    <3> QED
      BY <3>1, <3>2, HoldingIsHolding
  <2>2. CASE d.id # NoID /\ Holding(d.id) # {}
    BY <1>2, <1>d, <2>1, <2>2, UpdateIsUpdate DEF UpdateOrAppend, Log!UpdateOrAppend1, Log!Next
  <2>3. CASE ~(d.id # NoID /\ Holding(d.id) # {})
    BY <1>2, <1>d, <2>1, <2>3, AppendIsPush DEF UpdateOrAppend, Log!UpdateOrAppend1, Log!Next
  <2> QED
    BY <2>2, <2>3
<1>3. ASSUME NEW k \in 0..MaxSeq, InitSeq(k) PROVE Log!Next
  <2>1. Live = <<>>
    BY <1>3, <1>c, EmptySeq DEF InitSeq
  <2>2. Live' = Live
    BY <1>3 DEF InitSeq, Live, Slot
  <2> QED
    BY <1>3, <2>1, <2>2 DEF InitSeq, Log!InitSeq1, Log!Next
<1>4. CASE Reset
  <2>1. RingInv'
    BY <1>4, RingPreserved DEF BufferNext
  <2>2. (Live \in Seq(Event) /\ Len(Live) = count /\ \A i \in 1..count : Live[i] = buf[Slot(i - 1)])'
    BY <2>1, LiveIsSeq, PTL
  <2>3. Live' = <<>>
    BY <1>4, <2>2, EmptySeq DEF Reset
  <2> QED
    BY <1>4, <2>3 DEF Reset, Log!Reset1, Log!Next
<1>5. CASE UNCHANGED bufferVars
  <2>1. Live' = Live
    BY <1>5 DEF bufferVars, Live, Slot
  <2> QED
    BY <1>5, <2>1 DEF bufferVars, Log!vars
<1> QED
  BY <1>1, <1>2, <1>3, <1>4, <1>5 DEF BufferNext

(* For every capacity, set of messages and bound, the ring of eventbuf.go is *)
(* an implementation of the capped log its callers rely on.                  *)
THEOREM Refinement == BufferSpec => ImplementsLog
<1>1. New => Log!Init
  <2> SUFFICES ASSUME New PROVE Log!Init
    OBVIOUS
  <2>1. RingInv
    BY NewEstablishes
  <2>2. Live = <<>>
    BY <2>1, LiveIsSeq, EmptySeq DEF New
  <2> QED
    BY <2>2 DEF New, Log!Init
<1> QED
  BY <1>1, NewEstablishes, RingPreserved, NextIsLogStep, PTL DEF BufferSpec, ImplementsLog, Log!Spec

-----------------------------------------------------------------------------
(***************************************************************************)
(* The screen.  What TranscriptSync's run checks of a few events, clears,  *)
(* sessions and faults holds for any number of them.                       *)
(***************************************************************************)

-----------------------------------------------------------------------------
(* The inductive invariant.                                                  *)

Entry   == [seq : 1..MaxEvents, id : 1..MaxEvents]
Logged  == [id : 1..MaxEvents, sess : 1..MaxSessions]
Message == [kind : {"message"}, seq : 1..MaxEvents, id : 1..MaxEvents, sess : 1..MaxSessions]
Status  == [kind : {"status"}, seq : {0}, id : {0}, sess : 1..MaxSessions]
Push    == Message \cup Status \cup {ClearedPush}

OnePerSeq(es) == \A e, f \in es : e.seq = f.seq => e = f
Entries(ms)   == {[seq |-> m.seq, id |-> m.id] : m \in ms}
Pushed        == {m \in {pushes[i] : i \in DOMAIN pushes} : m.kind = "message"}

\* What is on its way to the screen has the screen's form.
Wellformed ==
    /\ spent \in [events : 0..MaxEvents, clears : Nat, faults : Nat]
    /\ log \in Seq(Logged) /\ Len(log) <= spent.events
    /\ unsent \subseteq Message /\ pushes \in Seq(Push)
    /\ poll \in Requests /\ load \in Requests
    /\ OnePerSeq(poll.events) /\ OnePerSeq(load.events)

\* Until somebody clears the conversation or its session switches, the log only grows,
\* and nothing is on its way to the screen that is not in it.
Own ==
    spent.clears = 0 /\ sess = 1 =>
        /\ phase = "none"
        /\ Entries(unsent) \subseteq Conversation /\ Entries(Pushed) \subseteq Conversation
        /\ poll.events \subseteq Conversation /\ load.events \subseteq Conversation
        /\ events \subseteq Conversation

ScreenInv == TypeOK /\ Wellformed /\ Own

-----------------------------------------------------------------------------
(* What the operators of the model do.                                       *)

\* A request to agentd is one with nothing in it, until agentd answers.
LEMMA OffShape == Off \in Requests /\ Off.events = {}
  BY BoundsAssumption DEF Off, Requests

\* A request just sent carries no events.
LEMMA AskedShape ==
  ASSUME NEW c \in 0..MaxEvents, live \in 1..MaxSessions
  PROVE  Asked(c) \in Requests /\ Asked(c).events = {}
  <1>1. Asked(c) = [Off EXCEPT !.pc = "asked", !.cursor = c, !.expected = live]
    BY DEF Asked
  <1>2. live \in 0..MaxSessions
    BY BoundsAssumption
  <1> QED
    BY <1>1, <1>2, OffShape DEF Requests

\* The events after a sequence number are well-formed, one for each number, and the
\* conversation's own.
LEMMA AfterShape ==
  ASSUME log \in Seq(Logged), Len(log) <= MaxEvents, NEW n \in Nat
  PROVE  /\ After(n) \subseteq Entry /\ OnePerSeq(After(n))
         /\ After(n) \subseteq Conversation
  <1>1. \A i \in 1..Len(log) : i \in 1..MaxEvents /\ log[i].id \in 1..MaxEvents
    <2>1. Len(log) \in Nat
      OBVIOUS
    <2>2. ASSUME NEW i \in 1..Len(log) PROVE i \in 1..MaxEvents /\ log[i] \in Logged
      BY <2>1, BoundsAssumption
    <2> QED
      BY <2>2 DEF Logged
  <1>2. \A i \in n + 1 .. Len(log) : i \in 0 + 1 .. Len(log)
    OBVIOUS
  <1> QED
    BY <1>1, <1>2 DEF After, Entry, OnePerSeq, Conversation, LatestEvents

\* What agentd reads of the conversation.
LEMMA ReadShape ==
  ASSUME log \in Seq(Logged), Len(log) <= MaxEvents, NEW r \in Requests
  PROVE  /\ Read(r) \in Requests /\ OnePerSeq(Read(r).events)
         /\ Read(r).events \subseteq Conversation
  <1>1. r.cursor \in Nat
    BY BoundsAssumption DEF Requests
  <1>2. /\ History(r.cursor) \subseteq Entry /\ OnePerSeq(History(r.cursor))
        /\ History(r.cursor) \subseteq Conversation
    BY <1>1, AfterShape DEF History, LatestEvents
  <1> DEFINE h == History(r.cursor)
  <1>3. Read(r) = [r EXCEPT !.pc = "read", !.events = h]
    BY DEF Read
  <1> HIDE DEF h
  <1>4. h \subseteq [seq : 1..MaxEvents, id : 1..MaxEvents]
    BY <1>2 DEF h, Entry
  <1>5. Read(r).events = h /\ Read(r) \in Requests
    BY <1>3, <1>4 DEF Requests
  <1> QED
    BY <1>2, <1>5 DEF h

\* An answer carries the last number and the session of the moment, and keeps its events.
LEMMA AnswerShape ==
  ASSUME log \in Seq(Logged), Len(log) <= MaxEvents, sess \in 1..MaxSessions, NEW r \in Requests
  PROVE  Answer(r) \in Requests /\ Answer(r).events = r.events
  <1> DEFINE n == Len(log)
  <1>1. n \in 0..MaxEvents /\ sess \in 0..MaxSessions
    BY BoundsAssumption
  <1> HIDE DEF n
  <1>2. Answer(r) = [r EXCEPT !.pc = "answered", !.lastSeq = n, !.sess = sess]
    BY DEF Answer, n
  <1> QED
    BY <1>1, <1>2 DEF Requests

\* Merging keeps one event for each number, and brings in nothing of its own.
LEMMA MergeShape ==
  ASSUME NEW old, NEW incoming, OnePerSeq(old), OnePerSeq(incoming)
  PROVE  OnePerSeq(Merge(old, incoming)) /\ Merge(old, incoming) \subseteq old \cup incoming
  BY DEF Merge, OnePerSeq, Seqs

\* The pushes after the first, and after one more.
LEMMA TailShape ==
  ASSUME pushes \in Seq(Push), pushes # <<>>, pushes' = Tail(pushes)
  PROVE  pushes' \in Seq(Push) /\ Pushed' \subseteq Pushed /\ Head(pushes) \in Push
         /\ (Head(pushes).kind = "message" => Head(pushes) \in Pushed)
  <1>1. \A i \in DOMAIN pushes' : i + 1 \in DOMAIN pushes /\ pushes'[i] = pushes[i + 1]
    OBVIOUS
  <1> QED
    BY <1>1 DEF Pushed

\* A push joins those on their way.
LEMMA AppendShape ==
  ASSUME pushes \in Seq(Push), NEW m \in Push, pushes' = Append(pushes, m)
  PROVE  pushes' \in Seq(Push) /\ Pushed' \subseteq Pushed \cup {x \in {m} : x.kind = "message"}
  <1>1. \A i \in DOMAIN pushes' : pushes'[i] = m \/ (i \in DOMAIN pushes /\ pushes'[i] = pushes[i])
    OBVIOUS
  <1> QED
    BY <1>1 DEF Pushed

\* A switch's two pushes are no messages.
LEMMA ToldShape ==
  ASSUME pushes \in Seq(Push), sess \in 1..MaxSessions, pushes' = pushes \o <<ClearedPush, StatusPush>>
  PROVE  pushes' \in Seq(Push) /\ Pushed' \subseteq Pushed
  <1>1. ClearedPush \in Push /\ ClearedPush.kind # "message"
    BY DEF Push, ClearedPush
  <1>2. StatusPush \in Push /\ StatusPush.kind # "message"
    BY DEF Push, StatusPush, Status
  <1> DEFINE c == ClearedPush
             t == StatusPush
  <1> HIDE DEF c, t
  <1>3. pushes' = pushes \o <<c, t>> /\ c \in Push /\ t \in Push /\ c.kind # "message" /\ t.kind # "message"
    BY <1>1, <1>2 DEF c, t
  <1>4. \A i \in DOMAIN pushes' : pushes'[i] = c \/ pushes'[i] = t \/ (i \in DOMAIN pushes /\ pushes'[i] = pushes[i])
    BY <1>3
  <1> QED
    BY <1>3, <1>4 DEF Pushed

\* A recorded event makes the conversation longer, and no longer than the events
\* recorded so far.
LEMMA RecordShape ==
  ASSUME log \in Seq(Logged), Len(log) <= spent.events,
         spent \in [events : 0..MaxEvents, clears : Nat, faults : Nat], sess \in 1..MaxSessions, Record
  PROVE  /\ log' \in Seq(Logged) /\ Len(log') = Len(log) + 1
         /\ spent' \in [events : 0..MaxEvents, clears : Nat, faults : Nat]
         /\ spent'.events = spent.events + 1 /\ spent'.clears = spent.clears
         /\ Conversation \subseteq Conversation'
         /\ \E m \in Message : /\ unsent' = unsent \cup {m}
                               /\ [seq |-> m.seq, id |-> m.id] \in Conversation'
  <1> DEFINE n == spent.events
             e == [id |-> n + 1, sess |-> sess]
             m == [kind |-> "message", seq |-> Len(log) + 1, id |-> n + 1, sess |-> sess]
  <1>1. /\ n < MaxEvents /\ log' = Append(log, e) /\ unsent' = unsent \cup {m}
        /\ spent' = [spent EXCEPT !.events = n + 1]
    BY DEF Record, Spend
  <1>2. n \in Nat /\ Len(log) \in Nat /\ n + 1 \in 1..MaxEvents /\ Len(log) + 1 \in 1..MaxEvents
    BY <1>1, BoundsAssumption
  <1>3. e \in Logged /\ m \in Message
    BY <1>2 DEF Logged, Message
  <1>4. e.id = n + 1 /\ m.seq = Len(log) + 1 /\ m.id = n + 1
    OBVIOUS
  <1>5. /\ spent' \in [events : 0..MaxEvents, clears : Nat, faults : Nat]
        /\ spent'.events = n + 1 /\ spent'.clears = spent.clears
    BY <1>1, <1>2
  <1> HIDE DEF e, m
  <1>6. /\ log' \in Seq(Logged) /\ Len(log') = Len(log) + 1 /\ log'[Len(log) + 1] = e
        /\ \A i \in 1..Len(log) : log'[i] = log[i] /\ i \in 1..Len(log')
        /\ Len(log) + 1 \in 1..Len(log')
    BY <1>1, <1>2, <1>3
  <1>7. Conversation \subseteq Conversation'
    BY <1>2, <1>6 DEF Conversation, LatestEvents, After
  <1>8. [seq |-> m.seq, id |-> m.id] \in Conversation'
    <2>1. e.id = m.id /\ Len(log) + 1 \in 0 + 1 .. Len(log')
      BY <1>2, <1>4, <1>6
    <2>2. [seq |-> Len(log) + 1, id |-> log'[Len(log) + 1].id] \in Conversation'
      BY <2>1 DEF Conversation, LatestEvents, After
    <2> QED
      BY <2>1, <2>2, <1>4, <1>6
  <1> QED
    BY <1>1, <1>3, <1>5, <1>6, <1>7, <1>8

-----------------------------------------------------------------------------
(* Types.                                                                    *)

\* Every step keeps the types, of the screen and of what is on its way to it.
LEMMA WellStep ==
  ASSUME TypeOK, Wellformed, [Next]_vars
  PROVE  TypeOK' /\ Wellformed'
  <1> USE BoundsAssumption DEF OnePerSeq
  <1>0. Len(log) \in 0..MaxEvents
    BY DEF Wellformed
  <1>1. CASE Record
    <2>1. Record
      BY <1>1
    <2> HIDE <1>1
    <2>2. Len(log') <= spent'.events
      BY <2>1, RecordShape DEF Wellformed, TypeOK
    <2>3. /\ log' \in Seq(Logged) /\ spent' \in [events : 0..MaxEvents, clears : Nat, faults : Nat]
          /\ Len(log') = Len(log) + 1 /\ spent'.events = spent.events + 1
      BY <2>1, RecordShape DEF Wellformed, TypeOK
    <2>4. unsent' \subseteq Message
      <3> DEFINE m == [kind |-> "message", seq |-> Len(log) + 1, id |-> spent.events + 1, sess |-> sess]
      <3>1. m \in Message
        BY <2>1, <1>0 DEF Record, Wellformed, TypeOK, Message
      <3>2. unsent' = unsent \cup {m}
        BY <2>1 DEF Record
      <3> HIDE DEF m
      <3> QED
        BY <3>1, <3>2 DEF Wellformed
    <2> QED
      BY <2>1, <2>2, <2>3, <2>4 DEF Record, Wellformed, TypeOK, screen
  <1>2. CASE Clear
    BY <1>2 DEF Clear, Spend, Wellformed, TypeOK, screen
  <1>3. CASE SwitchSession
    BY <1>3 DEF SwitchSession, Wellformed, TypeOK, screen
  <1>4. ASSUME NEW m \in unsent, Broadcast(m)
        PROVE  TypeOK' /\ Wellformed'
    BY <1>4, AppendShape DEF Broadcast, Wellformed, TypeOK, screen, server, Push
  <1>5. CASE ClearTold
    <2>1. ClearedPush \in Push
      BY DEF Push
    <2> QED
      BY <1>5, <2>1, AppendShape DEF ClearTold, Wellformed, TypeOK, screen
  <1>6. CASE SwitchEmpty
    BY <1>6 DEF SwitchEmpty, Wellformed, TypeOK, screen
  <1>7. CASE SwitchTold
    BY <1>7, ToldShape DEF SwitchTold, Wellformed, TypeOK, screen
  <1>8. CASE ConversationHistory
    <2>1. poll' \in Requests /\ OnePerSeq(poll'.events) /\ load' \in Requests /\ OnePerSeq(load'.events)
      BY ONLY <1>8, <1>0, TypeOK, Wellformed, ReadShape, AnswerShape
      DEF ConversationHistory, HistoryEvents, HistoryAnswer, TypeOK, Wellformed, OnePerSeq
    <2> QED
      BY <1>8, <2>1 DEF ConversationHistory, Wellformed, TypeOK, screen, server
  <1>9. CASE OnPush
    <2>1. /\ pushes # <<>>
          /\ PushCleared \/ PushStatus \/ PushMessage
          /\ pushes' = Tail(pushes)
          /\ UNCHANGED <<server, unsent, poll, load, spent>>
      BY <1>9 DEF OnPush
    <2>2. pushes' \in Seq(Push) /\ Head(pushes) \in Push
      BY <2>1, TailShape DEF Wellformed
    <2>3. Wellformed'
      BY <2>1, <2>2 DEF Wellformed, server
    <2>4. UNCHANGED <<log, sess, phase, poll, load, spent>>
      BY <2>1 DEF server
    <2>5. CASE PushCleared
      BY <2>3, <2>5, <2>4 DEF PushCleared, TypeOK
    <2>6. CASE PushStatus
      <3>1. Head(pushes).sess \in 1..MaxSessions
        BY <2>2, <2>6 DEF PushStatus, Push, Message, Status, ClearedPush
      <3> QED
        BY <2>3, <2>6, <2>4, <3>1 DEF PushStatus, TypeOK, screen
    <2>7. CASE PushMessage
      <3> DEFINE m == Head(pushes)
                 e == [seq |-> m.seq, id |-> m.id]
      <3>1. m \in Message
        BY <2>2, <2>7 DEF PushMessage, Push, Status, ClearedPush
      <3>2. e \in [seq : 1..MaxEvents, id : 1..MaxEvents] /\ e.seq = m.seq /\ m.seq \in 1..MaxEvents
        BY <3>1 DEF Message
      <3>3. \/ events' = events /\ lastSeq' = lastSeq
            \/ /\ e.seq \notin Seqs(events) /\ events' = events \cup {e}
               /\ lastSeq' \in {m.seq, lastSeq}
        BY <2>7 DEF PushMessage
      <3>4. initial' = initial /\ live' = live
        BY <2>7 DEF PushMessage
      <3> HIDE DEF e, m
      <3>5. events' \in SUBSET [seq : 1..MaxEvents, id : 1..MaxEvents] /\ OnePerSeq(events')
        BY <3>2, <3>3 DEF TypeOK, Seqs
      <3> QED
        BY <2>3, <2>4, <3>2, <3>3, <3>4, <3>5 DEF TypeOK
    <2> QED
      BY <2>1, <2>5, <2>6, <2>7
  <1>10. CASE PollTick
    <2>1. poll' \in Requests /\ OnePerSeq(poll'.events)
      BY <1>10, AskedShape DEF PollTick, TypeOK
    <2> QED
      BY <1>10, <2>1 DEF PollTick, Wellformed, TypeOK, screen, server
  <1>11. CASE OnPollResponse
    <2>1. /\ poll' = Off /\ UNCHANGED <<server, unsent, pushes, live, spent>>
          /\ PollRegressed \/ PollMerged
      BY <1>11 DEF OnPollResponse
    <2>2. CASE PollRegressed
      <3>1. load' \in Requests /\ OnePerSeq(load'.events)
        BY <2>2, AskedShape DEF PollRegressed, TypeOK, Wellformed
      <3> QED
        BY <2>1, <2>2, <3>1, OffShape DEF PollRegressed, Wellformed, TypeOK, server
    <2>3. CASE PollMerged
      <3>1. OnePerSeq(poll.events) /\ OnePerSeq(events) /\ poll \in Requests
        BY DEF Wellformed, TypeOK
      <3>2. poll.events \subseteq [seq : 1..MaxEvents, id : 1..MaxEvents] /\ poll.lastSeq \in 0..MaxEvents
        BY <3>1 DEF Requests
      <3>3. OnePerSeq(events') /\ events' \subseteq events \cup poll.events
        BY <2>3, <3>1, MergeShape DEF PollMerged
      <3> QED
        BY <2>1, <2>3, <3>2, <3>3, OffShape DEF PollMerged, Wellformed, TypeOK, server
    <2> QED
      BY <2>1, <2>2, <2>3
  <1>12. CASE OnLoadResponse
    <2>1. /\ load' = Off /\ UNCHANGED <<server, unsent, pushes, poll, live, spent>>
          /\ LoadDropped \/ LoadMerged
      BY <1>12 DEF OnLoadResponse
    <2>2. CASE LoadDropped
      BY <2>1, <2>2, OffShape DEF LoadDropped, Wellformed, TypeOK, server, screen
    <2>3. CASE LoadMerged
      <3>1. OnePerSeq(load.events) /\ OnePerSeq(events) /\ load \in Requests
        BY DEF Wellformed, TypeOK
      <3>2. load.events \subseteq [seq : 1..MaxEvents, id : 1..MaxEvents] /\ load.lastSeq \in 0..MaxEvents
        BY <3>1 DEF Requests
      <3>3. OnePerSeq(events') /\ events' \subseteq events \cup load.events
        BY <2>3, <3>1, MergeShape DEF LoadMerged
      <3> QED
        BY <2>1, <2>3, <3>2, <3>3, OffShape DEF LoadMerged, Wellformed, TypeOK, server
    <2> QED
      BY <2>1, <2>2, <2>3
  <1>13. CASE Fault
    <2>1. UNCHANGED <<server, unsent, events, lastSeq, live>> /\ spent' \in [events : 0..MaxEvents, clears : Nat, faults : Nat]
          /\ spent'.events = spent.events
      BY <1>13 DEF Fault, Spend, Wellformed
    <2>2. CASE LosePush
      BY <2>1, <2>2, TailShape DEF LosePush, Wellformed, TypeOK, server
    <2>3. CASE PollFails
      BY <2>1, <2>3, OffShape DEF PollFails, Wellformed, TypeOK, server
    <2>4. CASE LoadFails
      BY <2>1, <2>4, OffShape DEF LoadFails, Wellformed, TypeOK, server
    <2> QED
      BY <1>13, <2>2, <2>3, <2>4 DEF Fault
  <1>14. CASE UNCHANGED vars
    BY <1>14 DEF vars, Wellformed, TypeOK
  <1> QED
    BY <1>1, <1>2, <1>3, <1>4, <1>5, <1>6, <1>7, <1>8, <1>9, <1>10, <1>11, <1>12, <1>13, <1>14
    DEF Next, Daemon, App

-----------------------------------------------------------------------------
(* NothingForeign.                                                           *)

\* A conversation that is whole after a step was whole before it, and nobody is
\* emptying it.
LEMMA WholeBefore ==
  ASSUME TypeOK, Wellformed, Own, [Next]_vars, spent'.clears = 0, sess' = 1
  PROVE  spent.clears = 0 /\ sess = 1 /\ phase = "none"
  <1>1. spent.clears = 0
    BY DEF Next, Record, Clear, SwitchSession, Daemon, Broadcast, ClearTold, SwitchEmpty, SwitchTold,
           ConversationHistory, App, OnPush, PollTick, OnPollResponse, OnLoadResponse, Fault, Spend,
           Wellformed, vars
  <1>2. sess' = sess \/ sess' = sess + 1
    BY DEF Next, Record, Clear, SwitchSession, Daemon, Broadcast, ClearTold, SwitchEmpty, SwitchTold,
           ConversationHistory, App, OnPush, PollTick, OnPollResponse, OnLoadResponse, Fault, server, vars
  <1>3. sess \in Nat \ {0}
    BY BoundsAssumption DEF TypeOK
  <1>4. sess = 1
    BY <1>2, <1>3
  <1> QED
    BY <1>1, <1>4 DEF Own

\* Until then every step leaves only the conversation's own events on their way.
LEMMA OwnStep ==
  ASSUME TypeOK, Wellformed, Own, [Next]_vars
  PROVE  Own'
  <1> SUFFICES ASSUME spent'.clears = 0, sess' = 1
               PROVE  /\ phase' = "none"
                      /\ Entries(unsent') \subseteq Conversation' /\ Entries(Pushed') \subseteq Conversation'
                      /\ poll'.events \subseteq Conversation' /\ load'.events \subseteq Conversation'
                      /\ events' \subseteq Conversation'
    BY DEF Own
  <1>1. spent.clears = 0 /\ sess = 1 /\ phase = "none"
    BY WholeBefore
  <1>2. /\ Entries(unsent) \subseteq Conversation /\ Entries(Pushed) \subseteq Conversation
        /\ poll.events \subseteq Conversation /\ load.events \subseteq Conversation
        /\ events \subseteq Conversation
    BY <1>1 DEF Own
  <1>3. Len(log) \in 0..MaxEvents
    BY BoundsAssumption DEF Wellformed
  <1>4. log' = log => Conversation' = Conversation
    BY DEF Conversation, LatestEvents, After
  <1>5. CASE Record
    <2>1. UNCHANGED <<phase, pushes, poll, load, events>>
      BY <1>5 DEF Record, screen
    <2>2. Conversation \subseteq Conversation'
      BY <1>5, RecordShape DEF Wellformed, TypeOK
    <2>3. PICK m \in Message : unsent' = unsent \cup {m} /\ [seq |-> m.seq, id |-> m.id] \in Conversation'
      BY <1>5, RecordShape DEF Wellformed, TypeOK
    <2>4. Entries(unsent') \subseteq Conversation'
      BY <1>2, <2>2, <2>3 DEF Entries
    <2>5. Entries(Pushed') \subseteq Conversation'
      BY <1>2, <2>1, <2>2 DEF Pushed
    <2> QED
      BY <1>1, <1>2, <2>1, <2>2, <2>4, <2>5
  <1>6. CASE Clear
    BY <1>1, <1>6 DEF Clear, Spend, Wellformed
  <1>7. CASE SwitchSession
    BY <1>1, <1>7 DEF SwitchSession
  <1>8. ASSUME NEW m \in unsent, Broadcast(m)
        PROVE  /\ phase' = "none"
               /\ Entries(unsent') \subseteq Conversation' /\ Entries(Pushed') \subseteq Conversation'
               /\ poll'.events \subseteq Conversation' /\ load'.events \subseteq Conversation'
               /\ events' \subseteq Conversation'
    <2>1. /\ UNCHANGED <<log, phase, poll, load, events>> /\ unsent' \subseteq unsent
          /\ pushes' = Append(pushes, m)
      BY <1>8 DEF Broadcast, server, screen
    <2>2. Pushed' \subseteq Pushed \cup {m}
      BY <2>1, AppendShape DEF Wellformed, Push
    <2> QED
      BY <1>1, <1>2, <1>4, <2>1, <2>2 DEF Entries
  <1>9. CASE ClearTold \/ SwitchEmpty \/ SwitchTold
    BY <1>1, <1>9 DEF ClearTold, SwitchEmpty, SwitchTold
  <1>10. CASE ConversationHistory
    <2>1. poll'.events \subseteq Conversation /\ load'.events \subseteq Conversation
      BY <1>2, <1>3, <1>10, ReadShape, AnswerShape
      DEF ConversationHistory, HistoryEvents, HistoryAnswer, TypeOK, Wellformed
    <2>2. UNCHANGED <<log, phase, unsent, pushes, events>> /\ Pushed' = Pushed
      BY <1>10 DEF ConversationHistory, server, screen, Pushed
    <2> QED
      BY <1>1, <1>2, <1>4, <2>1, <2>2
  <1>11. CASE OnPush
    <2>1. UNCHANGED <<log, phase, unsent, poll, load>>
      BY <1>11 DEF OnPush, server
    <2>2. Pushed' \subseteq Pushed /\ (Head(pushes).kind = "message" => Head(pushes) \in Pushed)
      BY <1>11, TailShape DEF OnPush, Wellformed
    <2>3. events' \subseteq events \cup Entries(Pushed)
      <3>1. CASE PushCleared \/ PushStatus
        BY <3>1 DEF PushCleared, PushStatus, screen
      <3>2. CASE PushMessage
        BY <2>2, <3>2 DEF PushMessage, Entries
      <3> QED
        BY <1>11, <3>1, <3>2 DEF OnPush
    <2>4. Entries(Pushed') \subseteq Entries(Pushed)
      BY <2>2 DEF Entries
    <2> QED
      BY <1>1, <1>2, <1>4, <2>1, <2>3, <2>4
  <1>12. CASE PollTick
    <2>1. poll'.events = {}
      BY <1>12, AskedShape DEF PollTick, TypeOK
    <2>2. UNCHANGED <<log, phase, unsent, pushes, load, events>> /\ Pushed' = Pushed
      BY <1>12 DEF PollTick, server, screen, Pushed
    <2> QED
      BY <1>1, <1>2, <1>4, <2>1, <2>2
  <1>13. CASE OnPollResponse
    <2>1. UNCHANGED <<log, phase, unsent, pushes>> /\ Pushed' = Pushed /\ poll'.events = {}
      BY <1>13, OffShape DEF OnPollResponse, server, Pushed
    <2>2. /\ load'.events = {} \/ load' = load
          /\ events' \subseteq events \cup poll.events
      <3>1. CASE PollRegressed
        BY <3>1, AskedShape, BoundsAssumption DEF PollRegressed, TypeOK
      <3>2. CASE PollMerged
        BY <3>2, MergeShape DEF PollMerged, TypeOK, Wellformed, OnePerSeq
      <3> QED
        BY <1>13, <3>1, <3>2 DEF OnPollResponse
    <2> QED
      BY <1>1, <1>2, <1>4, <2>1, <2>2
  <1>14. CASE OnLoadResponse
    <2>1. UNCHANGED <<log, phase, unsent, pushes, poll>> /\ Pushed' = Pushed /\ load'.events = {}
      BY <1>14, OffShape DEF OnLoadResponse, server, Pushed
    <2>2. events' \subseteq events \cup load.events
      BY <1>14, MergeShape DEF OnLoadResponse, LoadDropped, LoadMerged, TypeOK, Wellformed,
         OnePerSeq, screen
    <2> QED
      BY <1>1, <1>2, <1>4, <2>1, <2>2
  <1>15. CASE Fault
    <2>1. UNCHANGED <<log, phase, unsent, events>>
      BY <1>15 DEF Fault, server
    <2>2. Pushed' \subseteq Pushed
      BY <1>15, TailShape DEF Fault, LosePush, PollFails, LoadFails, Wellformed, Pushed
    <2>3. poll'.events \subseteq poll.events /\ load'.events \subseteq load.events
      BY <1>15, OffShape DEF Fault, LosePush, PollFails, LoadFails
    <2> QED
      BY <1>1, <1>2, <1>4, <2>1, <2>2, <2>3 DEF Entries
  <1>16. CASE UNCHANGED vars
    <2>1. UNCHANGED <<log, phase, unsent, poll, load, events>> /\ Pushed' = Pushed
      BY <1>16 DEF vars, Pushed
    <2> QED
      BY <1>1, <1>2, <1>4, <2>1
  <1> QED
    BY <1>5, <1>6, <1>7, <1>8, <1>9, <1>10, <1>11, <1>12, <1>13, <1>14, <1>15, <1>16
    DEF Next, Daemon, App

-----------------------------------------------------------------------------
(* The theorems.                                                             *)

\* The invariant holds on a screen that has just opened.
LEMMA ScreenEstablished == Init => ScreenInv
  <1> SUFFICES ASSUME Init PROVE ScreenInv
    OBVIOUS
  <1>1. Len(log) = 0 /\ log \in Seq(Logged) /\ pushes \in Seq(Push) /\ Pushed = {}
    BY DEF Init, Pushed
  <1>2. load \in Requests /\ load.events = {} /\ poll \in Requests /\ poll.events = {}
    <2>1. 1 \in 0..MaxSessions
      BY BoundsAssumption
    <2>2. load = [Off EXCEPT !.pc = "asked", !.expected = 1] /\ poll = Off
      BY DEF Init
    <2> QED
      BY <2>1, <2>2, OffShape DEF Requests
  <1>3. TypeOK
    BY <1>1, <1>2, BoundsAssumption DEF Init, TypeOK
  <1>4. Wellformed
    BY <1>1, <1>2, BoundsAssumption DEF Init, Wellformed, OnePerSeq
  <1>5. Own
    BY <1>1, <1>2 DEF Init, Own, Entries
  <1> QED
    BY <1>3, <1>4, <1>5 DEF ScreenInv

\* IInv is an invariant of every screen.
THEOREM ScreenInvariance == Spec => []ScreenInv
  <1>1. ScreenInv /\ [Next]_vars => ScreenInv'
    BY WellStep, OwnStep DEF ScreenInv
  <1> QED
    BY <1>1, ScreenEstablished, PTL DEF Spec

\* Every variable keeps its type; two events on the screen never have one number.
THEOREM ScreenTypes == Spec => []TypeOK
  <1>1. ScreenInv => TypeOK
    BY DEF ScreenInv
  <1> QED
    BY <1>1, ScreenInvariance, PTL

\* NothingForeign: a conversation that was never emptied shows no event that is not its
\* own, each under its own number, however pushes, polls and loads overlap.
THEOREM ShowsItsOwn == Spec => []NothingForeign
  <1>1. ScreenInv => NothingForeign
    BY DEF ScreenInv, NothingForeign, Own
  <1> QED
    BY <1>1, ScreenInvariance, PTL
=============================================================================

----------------------------- MODULE EventBuffer -----------------------------
(***************************************************************************)
(* agentd/internal/eventbuf: the capped circular buffer that holds an      *)
(* agent's recent conversation events.  Every method runs under eb.mu, so  *)
(* every method is one atomic action.                                      *)
(***************************************************************************)
EXTENDS Naturals, Sequences

CONSTANTS
    Cap,      \* capacity of the ring
    MsgIDs,   \* ids of streaming messages
    Texts,    \* message bodies
    NoID,     \* the empty msg_id
    MaxSeq    \* bound on sequence numbers

ASSUME CapAssumption == Cap \in Nat \ {0}
ASSUME MaxSeqAssumption == MaxSeq \in Nat
ASSUME NoIDAssumption == NoID \notin MsgIDs

VARIABLES
    seq,      \* eb.seq
    buf,      \* eb.buf: the slots 0 .. Cap-1
    head,     \* eb.head: slot of the oldest event
    count     \* eb.count: number of live slots

bufferVars == <<seq, buf, head, count>>

Data  == [id : MsgIDs \cup {NoID}, text : Texts]
Event == [seq : Nat, data : Data]

\* A slot that was never written holds the zero Event, whose Data is nil.
Zero == [seq |-> 0, data |-> [id |-> NoID, text |-> NoID]]

New ==
    /\ seq = 0
    /\ buf = [s \in 0..Cap - 1 |-> Zero]
    /\ head = 0
    /\ count = 0

\* The slot of the i-th live event, counted from 0 at the oldest.
Slot(i) == (head + i) % Cap

\* The live events, oldest first: what a scan of the ring yields.
Live == [i \in 1..count |-> buf[Slot(i - 1)]]

-----------------------------------------------------------------------------
(* Mutated forms: plausible slips in the methods below.                      *)

\* The full branch overwrites the oldest event but forgets to advance head.
StoreStaleHead(e) ==
    IF count < Cap
    THEN /\ buf' = [buf EXCEPT ![Slot(count)] = e]
         /\ count' = count + 1
         /\ head' = head
    ELSE /\ buf' = [buf EXCEPT ![head] = e]
         /\ UNCHANGED <<head, count>>

\* The scan runs forwards and stops at the oldest event of the message.
UpdateOldest(d) ==
    \E i \in {k \in 0..count - 1 : buf[Slot(k)].data.id = d.id} :
        /\ \A j \in 0..i - 1 : buf[Slot(j)].data.id # d.id
        /\ buf' = [buf EXCEPT ![Slot(i)] = [seq |-> buf[Slot(i)].seq, data |-> d]]
        /\ UNCHANGED <<seq, head, count>>

\* Since compares with >= and repeats the event at the cursor.
NewerOrAt(e, after) == e.seq >= after

-----------------------------------------------------------------------------
\* Writing event e: the tail of the ring while there is room, else over the
\* oldest event, which is then no longer the oldest.
Store(e) ==
    IF count < Cap
    THEN /\ buf' = [buf EXCEPT ![Slot(count)] = e]
         /\ count' = count + 1
         /\ head' = head
    ELSE /\ buf' = [buf EXCEPT ![head] = e]
         /\ head' = (head + 1) % Cap
         /\ count' = count

AppendEvent(d) ==
    /\ seq < MaxSeq
    /\ seq' = seq + 1
    /\ Store([seq |-> seq + 1, data |-> d])

\* Offsets of the live events that carry msg_id m.
Holding(m) == {k \in 0..count - 1 : buf[Slot(k)].data.id = m}

\* The backward scan stops at the newest match and rewrites its data.
UpdateInPlace(d) ==
    \E i \in Holding(d.id) :
        /\ \A j \in Holding(d.id) : j <= i
        /\ buf' = [buf EXCEPT ![Slot(i)] = [seq |-> buf[Slot(i)].seq, data |-> d]]
        /\ UNCHANGED <<seq, head, count>>

UpdateOrAppend(d) ==
    IF d.id # NoID /\ Holding(d.id) # {} THEN UpdateInPlace(d) ELSE AppendEvent(d)

\* Called once, on the buffer of an agent that was just loaded from the store.
InitSeq(k) ==
    /\ seq = 0
    /\ count = 0
    /\ seq' = k
    /\ UNCHANGED <<buf, head, count>>

Reset ==
    /\ seq' = 0
    /\ head' = 0
    /\ count' = 0
    /\ UNCHANGED buf

\* Queries.  What a scan of the first i live events has found, and what all of it finds.
Newer(e, after) == e.seq > after
Scanned(after) ==
    LET result[i \in 0..count] ==
            IF i = 0 THEN <<>>
            ELSE IF Newer(buf[Slot(i - 1)], after) THEN Append(result[i - 1], buf[Slot(i - 1)]) ELSE result[i - 1]
    IN result
Since(after) == Scanned(after)[count]
LastSeq      == seq
LastEvent    == IF count = 0 THEN Zero ELSE buf[(head + count - 1) % Cap]

BufferNext ==
    \/ \E d \in Data : AppendEvent(d)
    \/ \E d \in Data : UpdateOrAppend(d)
    \/ \E k \in 0..MaxSeq : InitSeq(k)
    \/ Reset

BufferSpec == New /\ [][BufferNext]_bufferVars

-----------------------------------------------------------------------------
(* Properties.                                                               *)

BufferTypeOK ==
    /\ seq \in Nat
    /\ buf \in [0..Cap - 1 -> Event \cup {Zero}]
    /\ head \in 0..Cap - 1
    /\ count \in 0..Cap
    /\ count <= seq

\* The live events carry exactly the last count sequence numbers, oldest
\* first and without a gap, however often Append and UpdateOrAppend wrapped
\* around the ring, and after any Reset or InitSeq.
Contiguous ==
    \A i \in 0..count - 1 :
        buf[Slot(i)] \in Event /\ buf[Slot(i)].seq = seq - count + 1 + i

\* A reader that polls Since(cursor) with a cursor that is still within the
\* retained window receives precisely cursor+1 .. LastSeq, in order: it misses
\* nothing and sees nothing twice.
SinceIsGapless ==
    \A cursor \in (seq - count)..seq :
        /\ Len(Since(cursor)) = seq - cursor
        /\ \A i \in 1..seq - cursor : Since(cursor)[i].seq = cursor + i

\* LastEvent, which the watcher callback compares with an incoming user
\* message, is the event LastSeq numbers, or nothing in an empty buffer.
LastEventIsNewest ==
    IF count = 0 THEN LastEvent = Zero ELSE LastEvent.seq = LastSeq

\* The log this ring is meant to implement.
Log == INSTANCE EventLog WITH log <- Live

\* Whatever the interleaving of callers, the ring behaves as the capped log of
\* EventLog: Append drops only the oldest event, UpdateOrAppend rewrites only
\* the newest event of its message, and nothing survives a Reset.
ImplementsLog == Log!Spec
=============================================================================

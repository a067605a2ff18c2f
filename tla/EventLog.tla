------------------------------ MODULE EventLog ------------------------------
(***************************************************************************)
(* What an agent's event buffer promises its users: a log of the last Cap  *)
(* events, each stamped with the next sequence number, in which a          *)
(* streaming message that is still retained is rewritten in place.  There  *)
(* are no slots and no indices here; EventBuffer implements this log with  *)
(* a ring.                                                                 *)
(***************************************************************************)
EXTENDS Naturals, Sequences

CONSTANTS
    Cap,      \* how many events are retained
    MsgIDs,   \* ids of streaming messages
    Texts,    \* message bodies
    NoID,     \* the empty msg_id
    MaxSeq    \* bound on sequence numbers

VARIABLES
    seq,      \* last sequence number handed out
    log       \* the retained events, oldest first

vars == <<seq, log>>

Data  == [id : MsgIDs \cup {NoID}, text : Texts]
Event == [seq : Nat, data : Data]

Init ==
    /\ seq = 0
    /\ log = <<>>

\* The log after event e: the oldest event makes room for it when full.
Push(e) == IF Len(log) < Cap THEN Append(log, e) ELSE Append(Tail(log), e)

Append1(d) ==
    /\ seq' = seq + 1
    /\ log' = Push([seq |-> seq + 1, data |-> d])

\* Positions of the retained events that carry msg_id m.
Holding(m) == {i \in 1..Len(log) : log[i].data.id = m}

\* The newest retained event of the message gets the new data, nothing else
\* changes; with no such event the data is appended.
Update(d) ==
    \E i \in Holding(d.id) :
        /\ \A j \in Holding(d.id) : j <= i
        /\ log' = [log EXCEPT ![i] = [seq |-> log[i].seq, data |-> d]]
        /\ seq' = seq

UpdateOrAppend1(d) ==
    IF d.id # NoID /\ Holding(d.id) # {} THEN Update(d) ELSE Append1(d)

InitSeq1(k) ==
    /\ log = <<>>
    /\ seq' = k
    /\ log' = log

Reset1 ==
    /\ seq' = 0
    /\ log' = <<>>

Next ==
    \/ \E d \in Data : Append1(d) \/ UpdateOrAppend1(d)
    \/ \E k \in 0..MaxSeq : InitSeq1(k)
    \/ Reset1

Spec == Init /\ [][Next]_vars
=============================================================================

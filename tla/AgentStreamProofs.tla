------------------------- MODULE AgentStreamProofs -------------------------
(***************************************************************************)
(* For any number of clients, processes, lines and notifications: a        *)
(* permission request is answered at most once and stays listed until it   *)
(* is, an agent at rest shows working only if it was marked so too late,   *)
(* and the apps end up with its status unless a notification was           *)
(* overtaken.  Each part of the invariant has a lemma of its own, with one *)
(* step per action.                                                        *)
(***************************************************************************)
EXTENDS AgentStream, TLAPS

(* A process that is not yet started has no reader, what a reader has taken  *)
(* it is reading, and a handler that will start a reader holds a process     *)
(* that has none, and that nobody else holds.                                *)
Holds(c, p) == call[c].pc \in {"write", "set", "idle"} /\ call[c].p = p

ReaderFits(p) ==
    /\ child[p] = "unborn" => reader[p].pc = "none" /\ out[p] = <<>>
    /\ reader[p].todo # <<>> => reader[p].pc = "read"
    /\ reader[p].pc \in {"check", "unset", "settle", "keep", "done"} => child[p] = "dead"

HandlerFits(c) ==
    /\ call[c].pc \in {"write", "set", "idle"} =>
         /\ call[c].p \in Procs
         /\ child[call[c].p] # "unborn" /\ reader[call[c].p].pc = "none"
    /\ call[c].pc \in {"input", "working"} => call[c].p \in Procs

Structure ==
    /\ \A p \in Procs : ReaderFits(p)
    /\ \A c \in Clients : HandlerFits(c)
    /\ \A p \in Procs : \A c, d \in Clients : Holds(c, p) /\ Holds(d, p) => c = d

(* The agent's process has a reader that has not yet let go of it, or is     *)
(* about to get one; and an agent shown as working, not too late, has a      *)
(* process or a reader about to set it idle.                                 *)
Attended ==
    /\ process # None => \/ reader[process].pc \in {"read", "check", "unset"}
                         \/ \E c \in Clients : call[c].pc = "idle" /\ call[c].p = process
    /\ status = "working" /\ ~late =>
         process # None \/ \E p \in Procs : reader[p].pc \in {"settle", "keep"}

(* What the reader does for a line is a sequence of effects; only a          *)
(* control_request asks, once, and it announces afterwards.                  *)
LEMMA HandledEffects ==
    ASSUME NEW k \in DOMAIN Handled
    PROVE  /\ Handled[k] \in Seq(Effects)
           /\ k # "control_request" => \A i \in DOMAIN Handled[k] : Handled[k][i] \notin {"ask", "announce"}
           /\ k = "control_request" => Handled[k] = <<"ask", "announce">>
  <1> DEFINE Plain == {<<>>, <<"working">>, <<"idle">>}
  <1>1. ASSUME NEW e \in Plain
        PROVE  e \in Seq(Effects) /\ \A i \in DOMAIN e : e[i] \notin {"ask", "announce"}
    <2>1. <<>> \in Seq(Effects) /\ <<"working">> \in Seq(Effects) /\ <<"idle">> \in Seq(Effects)
      BY DEF Effects
    <2>2. \A i \in DOMAIN e : e[i] \in {"working", "idle"}
      <3>1. CASE e = <<>>
        BY <3>1
      <3>2. CASE e = <<"working">>
        BY <3>2
      <3>3. CASE e = <<"idle">>
        BY <3>3
      <3> QED
        BY <3>1, <3>2, <3>3
    <2> QED
      BY <2>1, <2>2
  <1>2. <<"ask", "announce">> \in Seq(Effects)
    BY DEF Effects
  <1>3. /\ DOMAIN Said = {"assistant", "user", "user_repeated"}
        /\ DOMAIN Tools = {"tool_use", "tool_result", "content_block_start"}
        /\ DOMAIN Result = {"result"}
        /\ DOMAIN Streaming = {"message_start", "content_block_delta", "message_stop"}
        /\ DOMAIN Control = {"control_request"}
    BY DEF Said, Tools, Result, Streaming, Control
  <1>4. CASE k \in DOMAIN Said
    <2>1. Handled[k] = Said[k]
      BY <1>3, <1>4 DEF Handled
    <2>2. Said[k] \in Plain
      BY <1>3, <1>4 DEF Said
    <2> QED
      BY <1>1, <1>3, <1>4, <2>1, <2>2
  <1>5. CASE k \in DOMAIN Tools
    <2>1. Handled[k] = Tools[k]
      BY <1>3, <1>5 DEF Handled
    <2>2. Tools[k] \in Plain
      BY <1>3, <1>5 DEF Tools
    <2> QED
      BY <1>1, <1>3, <1>5, <2>1, <2>2
  <1>6. CASE k \in DOMAIN Result
    <2>1. Handled[k] = Result[k]
      BY <1>3, <1>6 DEF Handled
    <2>2. Result[k] \in Plain
      BY <1>3, <1>6 DEF Result
    <2> QED
      BY <1>1, <1>3, <1>6, <2>1, <2>2
  <1>7. CASE k \in DOMAIN Streaming
    <2>1. Handled[k] = Streaming[k]
      BY <1>3, <1>7 DEF Handled
    <2>2. Streaming[k] \in Plain
      BY <1>3, <1>7 DEF Streaming
    <2> QED
      BY <1>1, <1>3, <1>7, <2>1, <2>2
  <1>8. CASE k \in DOMAIN Control
    <2>1. Handled[k] = Control[k]
      BY <1>3, <1>8 DEF Handled
    <2>2. k = "control_request"
      BY <1>3, <1>8
    <2>3. Control[k] = <<"ask", "announce">>
      BY <2>2 DEF Control
    <2> QED
      BY <1>2, <2>1, <2>2, <2>3
  <1> QED
    BY <1>4, <1>5, <1>6, <1>7, <1>8 DEF Handled

(* The second part of a concatenation.                                       *)
LEMMA SecondPart ==
    ASSUME NEW T, NEW a \in Seq(T), NEW b \in Seq(T), NEW j \in 1..Len(a) + Len(b), j > Len(a)
    PROVE  (a \o b)[j] = b[j - Len(a)]
  OBVIOUS

(* Removing an element of a sequence moves those behind it one place down.   *)
LEMMA RemoveAtSeq ==
    ASSUME NEW T, NEW q \in Seq(T), NEW i \in DOMAIN q
    PROVE  /\ RemoveAt(q, i) \in Seq(T)
           /\ Len(RemoveAt(q, i)) = Len(q) - 1
           /\ \A j \in 1..Len(q) - 1 : RemoveAt(q, i)[j] = IF j < i THEN q[j] ELSE q[j + 1]
  <1>1. i \in 1..Len(q) /\ Len(q) \in Nat
    OBVIOUS
  <1> DEFINE a == SubSeq(q, 1, i - 1)
             b == SubSeq(q, i + 1, Len(q))
  <1>2. a \in Seq(T) /\ Len(a) = i - 1 /\ \A j \in 1..i - 1 : a[j] = q[j]
    BY <1>1
  <1>3. b \in Seq(T) /\ Len(b) = Len(q) - i /\ \A j \in 1..Len(q) - i : b[j] = q[i + j]
    BY <1>1
  <1>4. RemoveAt(q, i) = a \o b
    BY DEF RemoveAt
  <1> HIDE DEF a, b
  <1>5. a \o b \in Seq(T) /\ Len(a \o b) = Len(q) - 1
    BY <1>1, <1>2, <1>3
  <1>6. ASSUME NEW j \in 1..Len(q) - 1 PROVE (a \o b)[j] = IF j < i THEN q[j] ELSE q[j + 1]
    <2>1. CASE j < i
      <3>1. (a \o b)[j] = a[j]
        BY <1>1, <1>2, <1>3, <2>1
      <3> QED
        BY <1>1, <1>2, <2>1, <3>1
    <2>2. CASE j >= i
      <3>1. (a \o b)[j] = b[j - (i - 1)]
        <4>1. j \in 1..Len(a) + Len(b) /\ j > Len(a) /\ j - Len(a) = j - (i - 1)
          BY <1>1, <1>2, <1>3, <2>2
        <4>2. (a \o b)[j] = b[j - Len(a)]
          BY ONLY <4>1, <1>2, <1>3, SecondPart
        <4> QED
          BY ONLY <4>1, <4>2
      <3>2. j - (i - 1) \in 1..Len(q) - i /\ i + (j - (i - 1)) = j + 1
        BY <1>1, <2>2
      <3> QED
        BY <1>3, <2>2, <3>1, <3>2
    <2>3. j < i \/ j >= i
      BY <1>1
    <2> QED
      BY <2>1, <2>2, <2>3
  <1> QED
    BY <1>4, <1>5, <1>6

-----------------------------------------------------------------------------
(* Types.                                                                    *)

USE BoundsAssumption DEF Procs, None, Status

News == [status : Status, old : BOOLEAN]

AgentTyped == /\ status \in Status /\ inflight \in Seq(News)
              /\ stops \in 0..MaxStops /\ late \in BOOLEAN
PipeTyped  == /\ child \in [Procs -> {"unborn", "alive", "dead"}]
              /\ lines \in 0..MaxLines /\ out \in [Procs -> Seq(Effects)]
PermTyped  == pending \subseteq Procs /\ announced \subseteq Procs /\ taken \in [Procs -> Nat]
AppTyped   == shown \in Status /\ overtaken \in BOOLEAN
ProcTyped  == process \in Procs \cup {None}
ReaderTyped == reader \in [Procs -> [pc : RPCs, todo : Seq(Effects)]]
CallTyped  == call \in [Clients -> [op : Ops, pc : PCs, p : Procs \cup {None}]]

(* The type invariant is the conjunction of its parts, also after a step.    *)
LEMMA TypedParts ==
    /\ Typed <=> /\ AgentTyped /\ PipeTyped /\ PermTyped /\ AppTyped
                 /\ ProcTyped /\ ReaderTyped /\ CallTyped
    /\ Typed' <=> /\ AgentTyped' /\ PipeTyped' /\ PermTyped' /\ AppTyped'
                  /\ ProcTyped' /\ ReaderTyped' /\ CallTyped'
  <1> USE DEF Typed, News, AgentTyped, PipeTyped, PermTyped, AppTyped, ProcTyped, ReaderTyped, CallTyped
  <1>1. Typed <=> /\ AgentTyped /\ PipeTyped /\ PermTyped /\ AppTyped
                  /\ ProcTyped /\ ReaderTyped /\ CallTyped
    BY Zenon
  <1>2. Typed' <=> /\ AgentTyped' /\ PipeTyped' /\ PermTyped' /\ AppTyped'
                   /\ ProcTyped' /\ ReaderTyped' /\ CallTyped'
    BY Zenon
  <1> QED
    BY <1>1, <1>2

(* What an action leaves alone keeps its type.                               *)
LEMMA Frames ==
    /\ AgentTyped /\ UNCHANGED agentVars => AgentTyped'
    /\ PipeTyped /\ UNCHANGED pipeVars => PipeTyped'
    /\ PermTyped /\ UNCHANGED permVars => PermTyped'
    /\ AppTyped /\ UNCHANGED appVars => AppTyped'
    /\ ProcTyped /\ UNCHANGED process => ProcTyped'
    /\ ReaderTyped /\ UNCHANGED reader => ReaderTyped'
    /\ CallTyped /\ UNCHANGED call => CallTyped'
  <1>1. AgentTyped /\ UNCHANGED agentVars => AgentTyped'
    BY Zenon DEF AgentTyped, agentVars
  <1>2. PipeTyped /\ UNCHANGED pipeVars => PipeTyped'
    BY Zenon DEF PipeTyped, pipeVars
  <1>3. PermTyped /\ UNCHANGED permVars => PermTyped'
    BY Zenon DEF PermTyped, permVars
  <1>4. AppTyped /\ UNCHANGED appVars => AppTyped'
    BY Zenon DEF AppTyped, appVars
  <1>5. /\ ProcTyped /\ UNCHANGED process => ProcTyped'
        /\ ReaderTyped /\ UNCHANGED reader => ReaderTyped'
        /\ CallTyped /\ UNCHANGED call => CallTyped'
    BY Zenon DEF ProcTyped, ReaderTyped, CallTyped
  <1> QED
    BY <1>1, <1>2, <1>3, <1>4, <1>5

(* The initial state has the types.                                          *)
LEMMA InitTyped == Init => Typed
  <1> SUFFICES ASSUME Init PROVE Typed
    OBVIOUS
  <1>1. AgentTyped /\ AppTyped
    <2>1. inflight \in Seq(News) /\ stops \in 0..MaxStops
      BY DEF Init
    <2>2. late \in BOOLEAN /\ overtaken \in BOOLEAN
      BY Zenon DEF Init
    <2> QED
      BY <2>1, <2>2 DEF Init, AgentTyped, AppTyped
  <1>2. PipeTyped /\ PermTyped
    BY DEF Init, PipeTyped, PermTyped, Effects
  <1>3. ReaderTyped
    BY DEF Init, ReaderTyped, RPCs, Effects
  <1>4. ProcTyped /\ CallTyped
    BY DEF Init, ProcTyped, CallTyped, Ready, Ops, PCs
  <1> QED
    BY <1>1, <1>2, <1>3, <1>4, TypedParts

(* A status change is news, and news stays news when a later one is shown.   *)
LEMMA NewsTyped ==
    /\ \A t \in Status : Issue(t) \in News
    /\ \A n \in News : n.status \in Status /\ n.old \in BOOLEAN
    /\ \A n \in News : /\ [n EXCEPT !.old = TRUE] \in News
                      /\ [n EXCEPT !.old = TRUE].status = n.status
                      /\ [n EXCEPT !.old = TRUE].old
  <1>1. \A t \in Status : Issue(t) \in News
    BY Zenon DEF Issue, News
  <1>2. \A n \in News : n.status \in Status /\ n.old \in BOOLEAN
    BY Zenon DEF News
  <1>3. \A n \in News : [n EXCEPT !.old = TRUE] \in News
    BY DEF News
  <1>4. \A n \in News : [n EXCEPT !.old = TRUE].status = n.status /\ [n EXCEPT !.old = TRUE].old
    BY DEF News
  <1> QED
    BY <1>1, <1>2, <1>3, <1>4

(* What a status change leaves in flight are notifications.                  *)
LEMMA ChangedTyped ==
    ASSUME AgentTyped, NEW t \in Status
    PROVE  Changed(t) \in Seq(News) /\ Append(Changed(t), Issue(t)) \in Seq(News)
  BY NewsTyped DEF AgentTyped, Changed

(* A goroutine or handler goes on with a status change.                      *)
LEMMA SetStatusTyped ==
    ASSUME AgentTyped, NEW t \in Status, NEW p, SetStatus(t, p)
    PROVE  AgentTyped'
  <1>1. status' \in Status /\ inflight' \in Seq(News) /\ stops' \in 0..MaxStops
    BY ChangedTyped DEF AgentTyped, SetStatus
  <1>2. late' \in BOOLEAN
    BY Zenon DEF SetStatus
  <1> QED
    BY <1>1, <1>2 DEF AgentTyped

(* A reader that moves on stays a reader.                                    *)
LEMMA ReaderAtTyped ==
    ASSUME ReaderTyped, NEW p, NEW l \in RPCs, ReaderAt(p, l)
    PROVE  ReaderTyped'
  <1>1. <<>> \in Seq(Effects)
    OBVIOUS
  <1> QED
    BY <1>1 DEF ReaderTyped, ReaderAt

(* A handler that enters, moves on or returns stays a handler.               *)
LEMMA CallSteps ==
    ASSUME CallTyped, NEW c \in Clients, NEW l \in PCs, NEW o \in Ops, NEW p \in Procs \cup {None},
           Goto(c, l) \/ Holding(c, l, p) \/ Enter(c, o, l) \/ Return(c)
    PROVE  CallTyped'
  <1>1. CASE Goto(c, l)
    BY <1>1 DEF CallTyped, Goto
  <1>2. CASE Holding(c, l, p)
    BY <1>2 DEF CallTyped, Holding
  <1>3. CASE Enter(c, o, l)
    BY <1>3 DEF CallTyped, Enter
  <1>4. CASE Return(c)
    BY <1>4 DEF CallTyped, Return, Ready, Ops, PCs
  <1> QED
    BY <1>1, <1>2, <1>3, <1>4

(* A killed process is a process still.                                      *)
LEMMA KilledTyped ==
    ASSUME PipeTyped, NEW p, Killed(p)
    PROVE  PipeTyped'
  BY DEF PipeTyped, Killed

(* The pipe of a process grows by the effects of a line.                     *)
LEMMA EmitTyped ==
    ASSUME PipeTyped, NEW p \in Procs, Emit(p)
    PROVE  PipeTyped'
  <1>1. PICK k \in DOMAIN Handled : out' = [out EXCEPT ![p] = @ \o Handled[k]]
    BY DEF Emit
  <1>2. out' \in [Procs -> Seq(Effects)]
    BY <1>1, HandledEffects DEF PipeTyped
  <1> QED
    BY <1>2 DEF Emit, PipeTyped

(* The reader handles the first effect of its chunk.                         *)
LEMMA HandleTyped ==
    ASSUME AgentTyped, PermTyped, ReaderTyped, NEW p \in Procs, Handle(p)
    PROVE  AgentTyped' /\ PermTyped' /\ ReaderTyped'
  <1> DEFINE e == Head(reader[p].todo)
  <1>1. e \in Effects
    BY DEF Handle, ReaderTyped
  <1>2. ReaderTyped'
    <2>1. reader[p] \in [pc : RPCs, todo : Seq(Effects)] /\ reader[p].todo # <<>>
      BY DEF Handle, ReaderTyped
    <2>2. Tail(reader[p].todo) \in Seq(Effects)
      BY <2>1
    <2>3. [reader[p] EXCEPT !.todo = Tail(@)] \in [pc : RPCs, todo : Seq(Effects)]
      BY <2>1, <2>2
    <2>4. reader' = [reader EXCEPT ![p] = [reader[p] EXCEPT !.todo = Tail(@)]]
      BY DEF Handle
    <2> QED
      BY <2>3, <2>4 DEF ReaderTyped
  <1>3. CASE e \in {"working", "idle"}
    <2>1. SetStatus(e, p) /\ UNCHANGED permVars
      BY <1>3 DEF Handle, Apply
    <2> QED
      BY <1>2, <1>3, <2>1, SetStatusTyped, Frames
  <1>4. CASE e = "ask"
    <2>1. AddRequest(p) /\ UNCHANGED agentVars
      BY <1>4 DEF Handle, Apply
    <2> QED
      BY <1>2, <2>1, Frames DEF AddRequest, PermTyped
  <1>5. CASE e = "announce"
    <2>1. Announce(p) /\ UNCHANGED agentVars
      BY <1>5 DEF Handle, Apply
    <2> QED
      BY <1>2, <2>1, Frames DEF Announce, PermTyped
  <1> QED
    BY <1>1, <1>3, <1>4, <1>5 DEF Effects

(* A delivery marks the notifications before it and takes its own away.      *)
LEMMA DeliverTyped ==
    ASSUME AgentTyped, NEW i \in DOMAIN inflight, Deliver(i)
    PROVE  AgentTyped' /\ AppTyped'
  <1> DEFINE q == [k \in DOMAIN inflight |->
                     IF k < i THEN [inflight[k] EXCEPT !.old = TRUE] ELSE inflight[k]]
  <1>1. q \in Seq(News) /\ i \in DOMAIN q
    BY NewsTyped DEF AgentTyped
  <1>2. RemoveAt(q, i) \in Seq(News)
    BY <1>1, RemoveAtSeq
  <1>3. AgentTyped'
    BY <1>2 DEF Deliver, AgentTyped
  <1>4. inflight[i] \in News
    BY DEF AgentTyped
  <1>5. inflight[i].status \in Status /\ inflight[i].old \in BOOLEAN
    BY <1>4, NewsTyped
  <1>6. shown' = inflight[i].status /\ overtaken' = inflight[i].old
    BY DEF Deliver
  <1> QED
    BY <1>3, <1>5, <1>6 DEF AppTyped

(* Every step keeps the types.                                               *)
LEMMA TypedPreserved == Typed /\ [Next]_vars => Typed'
  <1> SUFFICES ASSUME Typed, [Next]_vars PROVE Typed'
    OBVIOUS
  <1> AgentTyped /\ PipeTyped /\ PermTyped /\ AppTyped /\ ProcTyped /\ ReaderTyped /\ CallTyped
    BY TypedParts
  <1> USE TypedParts, Frames
  <1>1. ASSUME NEW i \in DOMAIN inflight, Deliver(i) PROVE Typed'
    BY <1>1, DeliverTyped DEF Deliver
  <1>2. ASSUME NEW p \in Procs, Emit(p) PROVE Typed'
    BY <1>2, EmitTyped DEF Emit
  <1>3. ASSUME NEW p \in Procs, Exit(p) PROVE Typed'
    <2>1. PipeTyped'
      BY <1>3 DEF Exit, PipeTyped
    <2> QED
      BY <1>3, <2>1 DEF Exit
  <1>4. ASSUME NEW p \in Procs, Read(p) PROVE Typed'
    <2>1. PipeTyped'
      BY <1>4 DEF Read, PipeTyped
    <2>2. ReaderTyped'
      <3>1. CASE out[p] # <<>>
        <4>1. reader' = [reader EXCEPT ![p] = [reader[p] EXCEPT !.todo = out[p]]]
          BY <1>4, <3>1 DEF Read
        <4>2. [reader[p] EXCEPT !.todo = out[p]] \in [pc : RPCs, todo : Seq(Effects)]
          <5>1. reader[p] \in [pc : RPCs, todo : Seq(Effects)] /\ out[p] \in Seq(Effects)
            BY DEF ReaderTyped, PipeTyped
          <5> QED
            BY ONLY <5>1
        <4> QED
          BY <4>1, <4>2 DEF ReaderTyped
      <3>2. CASE out[p] = <<>>
        BY <1>4, <3>2, ReaderAtTyped DEF Read, RPCs
      <3> QED
        BY <3>1, <3>2
    <2> QED
      BY <1>4, <2>1, <2>2 DEF Read
  <1>5. ASSUME NEW p \in Procs, Handle(p) PROVE Typed'
    BY <1>5, HandleTyped DEF Handle
  <1>6. ASSUME NEW p \in Procs, Check(p) \/ Settle(p) PROVE Typed'
    BY <1>6, ReaderAtTyped DEF Check, Settle, RPCs
  <1>7. ASSUME NEW p \in Procs, Unset(p) PROVE Typed'
    <2>1. AgentTyped' /\ ProcTyped'
      BY <1>7 DEF Unset, AgentTyped, ProcTyped
    <2> QED
      BY <1>7, <2>1, ReaderAtTyped DEF Unset, RPCs
  <1>8. ASSUME NEW p \in Procs, KeepIdle(p) PROVE Typed'
    BY <1>8, SetStatusTyped, ReaderAtTyped DEF KeepIdle, RPCs
  <1>9. ASSUME NEW c \in Clients, Send(c) PROVE Typed'
    <2>1. PipeTyped'
      BY <1>9, KilledTyped DEF Send
    <2>2. CallTyped'
      BY <1>9, CallSteps DEF Send, Ops, PCs
    <2> QED
      BY <1>9, <2>1, <2>2 DEF Send
  <1>10. ASSUME NEW c \in Clients, Reread(c) PROVE Typed'
    BY <1>10, CallSteps DEF Reread, ProcTyped, PCs, Ops
  <1>11. ASSUME NEW c \in Clients, Waited(c) PROVE Typed'
    BY <1>11, CallSteps, SetStatusTyped DEF Waited, PCs, Ops
  <1>12. ASSUME NEW c \in Clients, Spawn(c) PROVE Typed'
    <2>1. CallTyped'
      BY <1>12, CallSteps DEF Spawn, Unborn, Ops, PCs
    <2>2. AgentTyped'
      BY <1>12, SetStatusTyped DEF Spawn
    <2>3. PipeTyped'
      BY <1>12 DEF Spawn, PipeTyped
    <2> QED
      BY <1>12, <2>1, <2>2, <2>3 DEF Spawn
  <1>13. ASSUME NEW c \in Clients, WriteFirst(c) PROVE Typed'
    <2>1. CallTyped'
      BY <1>13, CallSteps DEF WriteFirst, Ops, PCs
    <2>2. AgentTyped'
      BY <1>13, SetStatusTyped DEF WriteFirst
    <2> QED
      BY <1>13, <2>1, <2>2 DEF WriteFirst
  <1>14. ASSUME NEW c \in Clients, SetProcess(c) PROVE Typed'
    <2>1. ProcTyped'
      BY <1>14 DEF SetProcess, ProcTyped, CallTyped
    <2> QED
      BY <1>14, <2>1, CallSteps DEF SetProcess, Ops, PCs
  <1>15. ASSUME NEW c \in Clients, SetIdle(c) PROVE Typed'
    <2>1. CallTyped'
      BY <1>15, CallSteps DEF SetIdle, Ops, PCs
    <2> QED
      BY <1>15, <2>1, SetStatusTyped, ReaderAtTyped DEF SetIdle, RPCs
  <1>16. ASSUME NEW c \in Clients, Input(c) PROVE Typed'
    BY <1>16, CallSteps DEF Input, Ops, PCs
  <1>17. ASSUME NEW c \in Clients, SetWorking(c) PROVE Typed'
    <2>1. AgentTyped'
      BY <1>17, ChangedTyped, Zenon DEF SetWorking, AgentTyped
    <2> QED
      BY <1>17, <2>1, CallSteps DEF SetWorking, Ops, PCs
  <1>18. ASSUME NEW c \in Clients, Stop(c) PROVE Typed'
    <2>1. PipeTyped'
      BY <1>18, KilledTyped DEF Stop
    <2>2. AgentTyped'
      BY <1>18 DEF Stop, AgentTyped
    <2> QED
      BY <1>18, <2>1, <2>2, CallSteps DEF Stop, Ops, PCs
  <1>19. ASSUME NEW c \in Clients, SetStopped(c) PROVE Typed'
    BY <1>19, CallSteps, SetStatusTyped DEF SetStopped, Ops, PCs
  <1>20. ASSUME NEW c \in Clients, History(c) \/ Answer(c) PROVE Typed'
    <2>1. CASE History(c)
      <3>1. PermTyped'
        BY <2>1 DEF History, PermTyped
      <3> QED
        BY <2>1, <3>1 DEF History
    <2>2. CASE Answer(c)
      <3>1. PICK p \in announced : HandleResponse(c, p) /\ UNCHANGED announced
        BY <2>2 DEF Answer
      <3>2. taken' \in [Procs -> Nat]
        <4>1. p \in Procs /\ taken[p] + 1 \in Nat /\ taken \in [Procs -> Nat]
          <5>1. p \in Procs /\ taken \in [Procs -> Nat]
            BY <3>1 DEF HandleResponse, PermTyped
          <5> HIDE DEF Procs
          <5> QED
            BY ONLY <5>1
        <4>2. taken' = [taken EXCEPT ![p] = taken[p] + 1]
          BY <3>1 DEF HandleResponse
        <4> HIDE DEF Procs
        <4> QED
          BY <4>1, <4>2
      <3>3. PermTyped'
        BY <3>1, <3>2 DEF HandleResponse, PermTyped
      <3> QED
        BY <2>2, <3>3 DEF Answer
    <2> QED
      BY <1>20, <2>1, <2>2
  <1>21. CASE UNCHANGED vars
    BY <1>21 DEF vars, agentVars, pipeVars, permVars, appVars
  <1> QED
    BY <1>1, <1>2, <1>3, <1>4, <1>5, <1>6, <1>7, <1>8, <1>9, <1>10, <1>11, <1>12, <1>13, <1>14,
       <1>15, <1>16, <1>17, <1>18, <1>19, <1>20, <1>21 DEF Next

-----------------------------------------------------------------------------
(* Structure.                                                                *)

(* Nothing has been started in the initial state.                            *)
LEMMA InitStructure == Init => Structure
  BY DEF Init, Structure, ReaderFits, HandlerFits, Holds, Ready

(* Steps that touch neither processes, readers nor calls.                    *)
LEMMA StructureFrame ==
    Structure /\ UNCHANGED <<child, out, reader, call>> => Structure'
  BY DEF Structure, ReaderFits, HandlerFits, Holds

(* A reader, or a handler, goes on; processes end and pipes are emptied.      *)
ReaderMoves(p, l, t) == reader' = [reader EXCEPT ![p] = [pc |-> l, todo |-> t]]
Moves(c, r)          == call' = [call EXCEPT ![c] = r]
Fewer == /\ \A q \in Procs : child'[q] = child[q] \/ (child[q] = "alive" /\ child'[q] = "dead")
         /\ \A q \in Procs : out'[q] \in {out[q], <<>>}
Rests(r)    == r.pc \notin {"write", "set", "idle", "input", "working"}
Keeps(c, r) ==
    \/ Rests(r)
    \/ /\ call[c].pc \in {"write", "set", "idle", "input"} /\ r.p = call[c].p
       /\ r.pc = "working" \/ (r.pc \in {"set", "idle", "input"} /\ call[c].pc # "input")
Drained == UNCHANGED <<child, call>> /\ \A q \in Procs : out'[q] \in {out[q], <<>>}

(* A reader that has begun goes on: nobody else holds its process.           *)
LEMMA StructureReader ==
    ASSUME Typed, Structure, NEW p \in Procs, NEW l \in RPCs \ {"none"}, NEW t,
           reader[p].pc # "none", ReaderMoves(p, l, t), Drained,
           t # <<>> => l = "read", l # "read" => child[p] = "dead"
    PROVE  Structure'
  <1> USE DEF Structure, ReaderMoves, Drained
  <1>0. ReaderTyped
    BY TypedParts
  <1>1. ASSUME NEW q \in Procs PROVE ReaderFits(q)'
    BY <1>0 DEF ReaderFits, ReaderTyped
  <1>2. ASSUME NEW c \in Clients PROVE HandlerFits(c)'
    BY <1>0 DEF HandlerFits, ReaderTyped
  <1>3. \A q \in Procs : \A c, d \in Clients : Holds(c, q)' /\ Holds(d, q)' => c = d
    BY DEF Holds
  <1> QED
    BY <1>1, <1>2, <1>3

(* A handler goes on and holds no process, or the one it already holds.      *)
LEMMA StructureHandler ==
    ASSUME Typed, Structure, NEW c \in Clients, NEW r,
           Moves(c, r), Fewer, UNCHANGED reader, Keeps(c, r)
    PROVE  Structure'
  <1> USE DEF Structure, Moves, Fewer, Keeps, Rests
  <1>0. ReaderTyped /\ CallTyped
    BY TypedParts
  <1>1. ASSUME NEW q \in Procs PROVE ReaderFits(q)'
    BY DEF ReaderFits
  <1>2. ASSUME NEW d \in Clients PROVE HandlerFits(d)'
    BY <1>0 DEF HandlerFits, CallTyped
  <1>3. \A q \in Procs : \A d, e \in Clients : Holds(d, q)' /\ Holds(e, q)' => d = e
    BY <1>0 DEF Holds, CallTyped
  <1> QED
    BY <1>1, <1>2, <1>3

(* A handler that comes to rest holds nothing.                               *)
LEMMA StructureRests ==
    ASSUME Typed, Structure, NEW c \in Clients, NEW r,
           Moves(c, r), Rests(r),
           UNCHANGED <<child, out, reader>>
    PROVE  Structure'
  <1>1. Fewer
    BY DEF Fewer
  <1> QED
    BY <1>1, StructureHandler DEF Keeps

(* A handler that goes on holds what it held.                                *)
LEMMA StructureGoes ==
    ASSUME Typed, Structure, NEW c \in Clients, NEW l,
           Goto(c, l), call[c].pc \in {"write", "set", "idle", "input"},
           l = "working" \/ (l \in {"set", "idle"} /\ call[c].pc # "input"),
           UNCHANGED <<child, out, reader>>
    PROVE  Structure'
  <1>1. Fewer
    BY DEF Fewer
  <1> DEFINE r == [call[c] EXCEPT !.pc = l]
  <1>2. CallTyped
    BY TypedParts
  <1>3. Moves(c, r) /\ r.pc = l /\ r.p = call[c].p
    BY <1>2 DEF Goto, Moves, CallTyped
  <1> HIDE DEF r
  <1> QED
    BY <1>1, <1>3, StructureHandler DEF Keeps

(* Every step keeps each process with its one reader or its one handler.     *)
LEMMA StructurePreserved == Typed /\ Structure /\ [Next]_vars => Structure'
  <1> SUFFICES ASSUME Typed, Structure, [Next]_vars PROVE Structure'
    OBVIOUS
  <1> AgentTyped /\ PipeTyped /\ ProcTyped /\ ReaderTyped /\ CallTyped
    BY TypedParts
  <1>1. ASSUME NEW i \in DOMAIN inflight, Deliver(i) PROVE Structure'
    BY <1>1, StructureFrame DEF Deliver, pipeVars
  <1>2. ASSUME NEW p \in Procs, Emit(p) PROVE Structure'
    <2>1. ASSUME NEW q \in Procs PROVE ReaderFits(q)'
      BY <1>2 DEF Emit, Structure, ReaderFits
    <2>2. ASSUME NEW c \in Clients PROVE HandlerFits(c)'
      BY <1>2 DEF Emit, Structure, HandlerFits
    <2>3. \A q \in Procs : \A c, d \in Clients : Holds(c, q)' /\ Holds(d, q)' => c = d
      BY <1>2 DEF Emit, Structure, Holds
    <2> QED
      BY <2>1, <2>2, <2>3 DEF Structure
  <1>3. ASSUME NEW p \in Procs, Exit(p) PROVE Structure'
    <2>1. ASSUME NEW q \in Procs PROVE ReaderFits(q)'
      BY <1>3 DEF Exit, Structure, ReaderFits, PipeTyped
    <2>2. ASSUME NEW c \in Clients PROVE HandlerFits(c)'
      BY <1>3 DEF Exit, Structure, HandlerFits, PipeTyped
    <2>3. \A q \in Procs : \A c, d \in Clients : Holds(c, q)' /\ Holds(d, q)' => c = d
      BY <1>3 DEF Exit, Structure, Holds
    <2> QED
      BY <2>1, <2>2, <2>3 DEF Structure
  <1>4. ASSUME NEW p \in Procs, Read(p) PROVE Structure'
    <2>1. Drained
      BY <1>4 DEF Read, PipeTyped, Drained
    <2>2. PICK l \in {"read", "check"}, t \in {out[p], <<>>} :
              ReaderMoves(p, l, t) /\ (l = "check" => t = <<>> /\ child[p] # "alive")
      <3>1. CASE out[p] # <<>>
        <4>1. reader' = [reader EXCEPT ![p] = [reader[p] EXCEPT !.todo = out[p]]]
          BY <1>4, <3>1 DEF Read
        <4>2. [reader[p] EXCEPT !.todo = out[p]] = [pc |-> "read", todo |-> out[p]]
          BY <1>4 DEF Read, ReaderTyped
        <4> QED
          BY <4>1, <4>2 DEF ReaderMoves
      <3>2. CASE out[p] = <<>>
        BY <1>4, <3>2 DEF Read, ReaderAt, ReaderMoves
      <3> QED
        BY <3>1, <3>2
    <2>3. child[p] # "alive" => child[p] = "dead"
      BY <1>4 DEF Read, Structure, ReaderFits, PipeTyped
    <2>4. reader[p].pc # "none"
      BY <1>4 DEF Read
    <2>5. CASE l = "check"
      BY <2>1, <2>2, <2>3, <2>4, <2>5, StructureReader DEF RPCs
    <2>6. CASE l = "read"
      BY <2>1, <2>2, <2>4, <2>6, StructureReader DEF RPCs
    <2> QED
      BY <2>5, <2>6
  <1>5. ASSUME NEW p \in Procs, Handle(p) PROVE Structure'
    <2>1. reader[p].pc = "read"
      BY <1>5 DEF Handle, Structure, ReaderFits
    <2>2. ReaderMoves(p, "read", Tail(reader[p].todo)) /\ Drained
      <3>1. reader' = [reader EXCEPT ![p] = [reader[p] EXCEPT !.todo = Tail(reader[p].todo)]]
        BY <1>5 DEF Handle
      <3> DEFINE t == Tail(reader[p].todo)
      <3> HIDE DEF t
      <3>2. [reader[p] EXCEPT !.todo = t] = [pc |-> "read", todo |-> t]
        BY <2>1 DEF ReaderTyped
      <3> QED
        BY <1>5, <3>1, <3>2 DEF Handle, ReaderMoves, Drained, pipeVars, t
    <2> QED
      BY <2>1, <2>2, StructureReader DEF RPCs
  <1>6. ASSUME NEW p \in Procs, Check(p) PROVE Structure'
    <2>1. child[p] = "dead"
      BY <1>6 DEF Check, Structure, ReaderFits
    <2> QED
      BY <1>6, <2>1, StructureReader DEF Check, ReaderAt, ReaderMoves, Drained, RPCs, pipeVars
  <1>7. ASSUME NEW p \in Procs, Unset(p) PROVE Structure'
    <2>1. child[p] = "dead"
      BY <1>7 DEF Unset, Structure, ReaderFits
    <2> QED
      BY <1>7, <2>1, StructureReader DEF Unset, ReaderAt, ReaderMoves, Drained, RPCs, pipeVars
  <1>8. ASSUME NEW p \in Procs, Settle(p) PROVE Structure'
    <2>1. child[p] = "dead"
      BY <1>8 DEF Settle, Structure, ReaderFits
    <2> QED
      BY <1>8, <2>1, StructureReader DEF Settle, ReaderAt, ReaderMoves, Drained, RPCs, pipeVars
  <1>9. ASSUME NEW p \in Procs, KeepIdle(p) PROVE Structure'
    <2>1. child[p] = "dead"
      BY <1>9 DEF KeepIdle, Structure, ReaderFits
    <2> QED
      BY <1>9, <2>1, StructureReader DEF KeepIdle, ReaderAt, ReaderMoves, Drained, RPCs, pipeVars
  <1>10. ASSUME NEW c \in Clients, Send(c) PROVE Structure'
    <2>1. Fewer
      BY <1>10 DEF Send, Fewer, Killed, pipeVars, PipeTyped
    <2>2. PICK r \in {[op |-> "restart", pc |-> "reread", p |-> None],
                      [op |-> "start", pc |-> "wait", p |-> None]} :
              Moves(c, r)
      BY <1>10 DEF Send, Enter, Moves
    <2>3. Keeps(c, r) /\ reader' = reader
      BY <1>10, <2>2 DEF Send, Keeps, Rests
    <2> QED
      BY <2>1, <2>2, <2>3, StructureHandler
  <1>11. ASSUME NEW c \in Clients, Reread(c) PROVE Structure'
    <2>1. call' = [call EXCEPT ![c] = [@ EXCEPT !.pc = "wait", !.p = process]]
      BY <1>11 DEF Reread, Holding, CallTyped
    <2>2. Moves(c, [call[c] EXCEPT !.pc = "wait", !.p = process])
      BY <2>1 DEF Moves
    <2>3. [call[c] EXCEPT !.pc = "wait", !.p = process].pc = "wait"
      BY DEF CallTyped
    <2> QED
      BY <1>11, <2>2, <2>3, StructureRests DEF Reread, Rests, pipeVars
  <1>12. ASSUME NEW c \in Clients, Waited(c) PROVE Structure'
    <2>1. call' = [call EXCEPT ![c] = [@ EXCEPT !.pc = "spawn", !.p = None]]
      BY <1>12 DEF Waited, Holding, CallTyped
    <2>2. Moves(c, [call[c] EXCEPT !.pc = "spawn", !.p = None])
      BY <2>1 DEF Moves
    <2>3. [call[c] EXCEPT !.pc = "spawn", !.p = None].pc = "spawn"
      BY DEF CallTyped
    <2> QED
      BY <1>12, <2>2, <2>3, StructureRests DEF Waited, Rests, pipeVars
  <1>13. ASSUME NEW c \in Clients, Spawn(c) PROVE Structure'
    <2>1. ASSUME NEW p \in Unborn, child' = [child EXCEPT ![p] = "alive"],
                 NEW l \in {"write", "set"}, Holding(c, l, p), UNCHANGED <<out, reader>>
          PROVE  Structure'
      <3>1. p \in Procs /\ child[p] = "unborn" /\ reader[p].pc = "none"
        BY <2>1 DEF Unborn, Structure, ReaderFits
      <3>2. ASSUME NEW q \in Procs PROVE ReaderFits(q)'
        BY <2>1, <3>1 DEF Structure, ReaderFits, PipeTyped
      <3>3. ASSUME NEW d \in Clients PROVE HandlerFits(d)'
        BY <2>1, <3>1 DEF Structure, HandlerFits, Holding, CallTyped, PipeTyped
      <3>4. \A q \in Procs : \A d, e \in Clients : Holds(d, q)' /\ Holds(e, q)' => d = e
        BY <2>1, <3>1 DEF Structure, HandlerFits, Holds, Holding, CallTyped
      <3> QED
        BY <3>2, <3>3, <3>4 DEF Structure
    <2>2. CASE Return(c) /\ UNCHANGED child
      BY <1>13, <2>2, StructureRests DEF Spawn, Return, Ready, Moves, Rests
    <2> QED
      BY <1>13, <2>1, <2>2 DEF Spawn
  <1>14. ASSUME NEW c \in Clients, WriteFirst(c) PROVE Structure'
    BY <1>14, StructureRests, StructureGoes DEF WriteFirst, Return, Ready, Moves, Rests, pipeVars
  <1>15. ASSUME NEW c \in Clients, SetProcess(c) PROVE Structure'
    BY <1>15, StructureGoes DEF SetProcess, pipeVars
  <1>16. ASSUME NEW c \in Clients, SetIdle(c) PROVE Structure'
    <2> DEFINE p == call[c].p
    <2>1. p \in Procs /\ child[p] # "unborn" /\ reader[p].pc = "none" /\ Holds(c, p)
      BY <1>16 DEF SetIdle, Structure, HandlerFits, Holds
    <2>2. PICK l \in {"working", "input"} : call' = [call EXCEPT ![c].pc = l]
      BY <1>16 DEF SetIdle, Goto
    <2>3. reader' = [reader EXCEPT ![p] = [pc |-> "read", todo |-> <<>>]] /\ UNCHANGED <<child, out>>
      BY <1>16 DEF SetIdle, ReaderAt, pipeVars
    <2> HIDE DEF p
    <2>4. ASSUME NEW q \in Procs PROVE ReaderFits(q)'
      BY <2>1, <2>3 DEF Structure, ReaderFits, ReaderTyped
    <2>5. ASSUME NEW d \in Clients PROVE HandlerFits(d)'
      <3>1. CASE d = c
        BY <2>1, <2>2, <2>3, <3>1 DEF HandlerFits, CallTyped, p
      <3>2. CASE d # c
        <4>1. call'[d] = call[d] /\ ~Holds(d, p)
          BY <2>1, <2>2, <3>2 DEF Structure, CallTyped
        <4> QED
          BY <2>1, <2>3, <4>1 DEF Structure, HandlerFits, Holds, ReaderTyped
      <3> QED
        BY <3>1, <3>2
    <2>6. \A q \in Procs : \A d, e \in Clients : Holds(d, q)' /\ Holds(e, q)' => d = e
      BY <2>2 DEF Structure, Holds, CallTyped
    <2> QED
      BY <2>4, <2>5, <2>6 DEF Structure
  <1>17. ASSUME NEW c \in Clients, Input(c) PROVE Structure'
    <2>1. CASE Return(c)
      BY <1>17, <2>1, StructureRests DEF Input, Return, Ready, Moves, Rests, pipeVars
    <2>2. CASE Goto(c, "working")
      <3>1. Fewer /\ UNCHANGED reader
        BY <1>17 DEF Input, Fewer, pipeVars
      <3> DEFINE r == [call[c] EXCEPT !.pc = "working"]
      <3>2. Moves(c, r) /\ r.pc = "working" /\ r.p = call[c].p
        BY <2>2 DEF Goto, Moves, CallTyped
      <3>3. Keeps(c, r)
        BY <1>17, <3>2 DEF Input, Keeps
      <3> HIDE DEF r
      <3> QED
        BY <3>1, <3>2, <3>3, StructureHandler
    <2> QED
      BY <1>17, <2>1, <2>2 DEF Input
  <1>18. ASSUME NEW c \in Clients, SetWorking(c) PROVE Structure'
    BY <1>18, StructureRests DEF SetWorking, Return, Ready, Moves, Rests, pipeVars
  <1>19. ASSUME NEW c \in Clients, Stop(c) PROVE Structure'
    <2>1. Fewer
      BY <1>19 DEF Stop, Fewer, Killed, pipeVars, PipeTyped
    <2> DEFINE r == [op |-> "stop", pc |-> "stopped", p |-> None]
    <2>2. Moves(c, r) /\ Keeps(c, r) /\ reader' = reader
      BY <1>19 DEF Stop, Enter, Moves, Keeps, Rests
    <2> HIDE DEF r
    <2> QED
      BY <2>1, <2>2, StructureHandler
  <1>20. ASSUME NEW c \in Clients, SetStopped(c) PROVE Structure'
    BY <1>20, StructureRests DEF SetStopped, Return, Ready, Moves, Rests, pipeVars
  <1>21. ASSUME NEW c \in Clients, History(c) \/ Answer(c) PROVE Structure'
    BY <1>21, StructureFrame DEF History, Answer, pipeVars
  <1>22. CASE UNCHANGED vars
    BY <1>22, StructureFrame DEF vars
  <1> QED
    BY <1>1, <1>2, <1>3, <1>4, <1>5, <1>6, <1>7, <1>8, <1>9, <1>10, <1>11, <1>12, <1>13, <1>14,
       <1>15, <1>16, <1>17, <1>18, <1>19, <1>20, <1>21, <1>22 DEF Next

-----------------------------------------------------------------------------
(* Who attends to the agent's process, and to a status of working.           *)

(* The initial agent has no process and shows no work.                       *)
LEMMA InitAttended == Init => Attended
  BY DEF Init, Attended

(* The reader of each process goes on within its hold on that process.       *)
Attending(p) == reader[p].pc \in {"read", "check", "unset"}
Settling     == \E p \in Procs : reader[p].pc \in {"settle", "keep"}
Starting     == \E c \in Clients : call[c].pc = "idle" /\ call[c].p = process
Working      == status = "working" /\ ~late

(* Attended, in the words of the lemmas below.                               *)
LEMMA AttendedParts ==
    /\ Attended <=> /\ process # None => Attending(process) \/ Starting
                    /\ Working => process # None \/ Settling
    /\ Attended' <=> /\ process' # None => Attending(process)' \/ Starting'
                     /\ Working' => process' # None \/ Settling'
  BY DEF Attended, Attending, Settling, Starting, Working

(* A status written for the agent's process, or one that is not working.     *)
LEMMA SetStatusAttended ==
    ASSUME ProcTyped, NEW t, NEW p, SetStatus(t, p), p \in Procs \/ t # "working",
           UNCHANGED process
    PROVE  Working' => process' # None
  <1>1. p \in Procs => p # None
    OBVIOUS
  <1>2. status' = t /\ (late' = (t = "working" /\ p # process)) /\ process' = process
    BY DEF SetStatus
  <1> QED
    BY Zenon, <1>1, <1>2 DEF Working

(* Steps that leave process and readers alone.                               *)
LEMMA AttendedKept ==
    ASSUME Attended, UNCHANGED <<process, reader>>, Starting => Starting',
           Working' => Working \/ process # None
    PROVE  Attended'
  <1>1. (Attending(process)' <=> Attending(process)) /\ (Settling' <=> Settling)
    BY DEF Attending, Settling
  <1> QED
    BY <1>1, AttendedParts

(* Steps that touch nothing Attended speaks of.                              *)
LEMMA AttendedFrame == Attended /\ UNCHANGED <<status, late, process, reader, call>> => Attended'
  BY DEF Attended

(* Only the call of one client changes, only the reader of one process.      *)
OnlyMoves(c) == \A d \in Clients \ {c} : call'[d] = call[d]
OnlyReads(p) == \A q \in Procs \ {p} : reader'[q] = reader[q]

(* A handler's step is its own.                                              *)
LEMMA OnlyCall ==
    ASSUME CallTyped, NEW c \in Clients, NEW l, NEW o, NEW p,
           Goto(c, l) \/ Holding(c, l, p) \/ Enter(c, o, l) \/ Return(c)
    PROVE  OnlyMoves(c)
  BY DEF Goto, Holding, Enter, Return, OnlyMoves, CallTyped

(* A handler about to start a reader is still about to, whoever else moves.  *)
LEMMA StartingKept ==
    ASSUME NEW c \in Clients, OnlyMoves(c), call[c].pc # "idle", UNCHANGED process
    PROVE  Starting => Starting'
  BY DEF Starting, OnlyMoves

(* The agent's process stays attended when one reader moves within its hold. *)
LEMMA HoldKept ==
    ASSUME Attended, ProcTyped, NEW p \in Procs, OnlyReads(p), UNCHANGED <<process, call>>,
           process # None, process = p /\ Attending(p) => Attending(process)'
    PROVE  Attending(process)' \/ Starting'
  <1>1. process \in Procs
    BY DEF ProcTyped
  <1>2. Starting => Starting'
    BY DEF Starting
  <1>3. process # p /\ Attending(process) => Attending(process)'
    BY <1>1 DEF OnlyReads, Attending
  <1> QED
    BY <1>2, <1>3, AttendedParts

(* A reader that is settling keeps settling, whichever other reader moves.   *)
LEMMA SettlingKept ==
    ASSUME NEW p \in Procs, OnlyReads(p), reader[p].pc \in {"settle", "keep"} => reader'[p].pc = reader[p].pc
    PROVE  Settling => Settling'
  BY DEF OnlyReads, Settling

(* Every step leaves the agent's process, and a status of working, attended. *)
LEMMA AttendedPreserved == Typed /\ Structure /\ Attended /\ [Next]_vars => Attended'
  <1> SUFFICES ASSUME Typed, Structure, Attended, [Next]_vars PROVE Attended'
    OBVIOUS
  <1> ProcTyped /\ ReaderTyped /\ CallTyped
    BY TypedParts
  <1>1. ASSUME NEW i \in DOMAIN inflight, Deliver(i) PROVE Attended'
    BY <1>1, AttendedFrame DEF Deliver
  <1>2. ASSUME NEW p \in Procs, Emit(p) PROVE Attended'
    BY <1>2, AttendedFrame DEF Emit, agentVars
  <1>3. ASSUME NEW p \in Procs, Exit(p) PROVE Attended'
    BY <1>3, AttendedFrame DEF Exit, agentVars
  <1>4. ASSUME NEW p \in Procs, Read(p) PROVE Attended'
    <2>1. reader[p].pc = "read" /\ OnlyReads(p) /\ UNCHANGED <<process, call>> /\ reader'[p].pc \in {"read", "check"}
      BY <1>4 DEF Read, ReaderAt, OnlyReads, ReaderTyped
    <2>2. Working' <=> Working
      BY <1>4 DEF Read, Working, agentVars
    <2> QED
      BY <2>1, <2>2, HoldKept, SettlingKept, AttendedParts DEF Attending
  <1>5. ASSUME NEW p \in Procs, Handle(p) PROVE Attended'
    <2>1. reader'[p].pc = reader[p].pc /\ OnlyReads(p) /\ UNCHANGED <<process, call>>
      BY <1>5 DEF Handle, OnlyReads, ReaderTyped
    <2>2. Working' => Working \/ process' # None
      <3> DEFINE e == Head(reader[p].todo)
      <3>1. process' = process
        BY <1>5 DEF Handle
      <3>2. CASE e \in {"working", "idle"}
        <4>1. SetStatus(e, p)
          BY <1>5, <3>2 DEF Handle, Apply
        <4> QED
          BY <3>1, <4>1, SetStatusAttended
      <3>3. CASE e \in {"ask", "announce"}
        <4>1. UNCHANGED agentVars
          BY <1>5, <3>3 DEF Handle, Apply
        <4> QED
          BY <4>1 DEF Working, agentVars
      <3>4. e \in Effects
        BY <1>5 DEF Handle, ReaderTyped
      <3> QED
        BY <3>2, <3>3, <3>4 DEF Effects
    <2> QED
      BY <2>1, <2>2, HoldKept, SettlingKept, AttendedParts DEF Attending
  <1>6. ASSUME NEW p \in Procs, Check(p) PROVE Attended'
    <2>1. reader[p].pc = "check" /\ OnlyReads(p) /\ UNCHANGED <<process, call>>
      BY <1>6 DEF Check, ReaderAt, OnlyReads, ReaderTyped
    <2>2. process = p => Attending(process)'
      BY <1>6 DEF Check, ReaderAt, Attending, ReaderTyped
    <2>3. Working' <=> Working
      BY <1>6 DEF Check, Working, agentVars
    <2> QED
      BY <2>1, <2>2, <2>3, HoldKept, SettlingKept, AttendedParts DEF Attending
  <1>7. ASSUME NEW p \in Procs, Unset(p) PROVE Attended'
    <2>1. process' = None /\ reader'[p].pc = "settle"
      BY <1>7 DEF Unset, ReaderAt, ReaderTyped
    <2>2. Settling'
      BY <2>1 DEF Settling
    <2> QED
      BY <2>1, <2>2, AttendedParts
  <1>8. ASSUME NEW p \in Procs, Settle(p) PROVE Attended'
    <2>1. reader[p].pc = "settle" /\ OnlyReads(p) /\ UNCHANGED <<process, call>>
      BY <1>8 DEF Settle, ReaderAt, OnlyReads, ReaderTyped
    <2>2. Working' <=> Working
      BY <1>8 DEF Settle, Working, agentVars
    <2>3. Working => Settling'
      <3>1. Working => reader'[p].pc = "keep"
        BY <1>8 DEF Settle, Working, ReaderAt, ReaderTyped
      <3> QED
        BY <3>1 DEF Settling
    <2> QED
      BY <2>1, <2>2, <2>3, HoldKept, AttendedParts DEF Attending
  <1>9. ASSUME NEW p \in Procs, KeepIdle(p) PROVE Attended'
    <2>1. reader[p].pc = "keep" /\ OnlyReads(p) /\ UNCHANGED <<process, call>>
      BY <1>9 DEF KeepIdle, ReaderAt, OnlyReads, ReaderTyped
    <2>2. ~Working'
      BY <1>9 DEF KeepIdle, SetStatus, Working
    <2> QED
      BY <2>1, <2>2, HoldKept, AttendedParts DEF Attending
  <1>10. ASSUME NEW c \in Clients, Send(c) PROVE Attended'
    <2>1. OnlyMoves(c) /\ call[c].pc # "idle" /\ UNCHANGED <<process, reader>>
      BY <1>10, OnlyCall DEF Send
    <2>2. Working' => Working \/ process # None
      BY <1>10 DEF Send, Working, agentVars
    <2> QED
      BY <2>1, <2>2, StartingKept, AttendedKept
  <1>11. ASSUME NEW c \in Clients, Reread(c) PROVE Attended'
    <2>1. OnlyMoves(c) /\ call[c].pc # "idle" /\ UNCHANGED <<process, reader>>
      BY <1>11, OnlyCall DEF Reread
    <2>2. Working' => Working \/ process # None
      BY <1>11 DEF Reread, Working, agentVars
    <2> QED
      BY <2>1, <2>2, StartingKept, AttendedKept
  <1>12. ASSUME NEW c \in Clients, Waited(c) PROVE Attended'
    <2>1. OnlyMoves(c) /\ call[c].pc # "idle" /\ UNCHANGED <<process, reader>>
      BY <1>12, OnlyCall DEF Waited
    <2>2. Working' => Working \/ process # None
      BY <1>12, SetStatusAttended DEF Waited, Working, agentVars
    <2> QED
      BY <2>1, <2>2, StartingKept, AttendedKept
  <1>13. ASSUME NEW c \in Clients, Spawn(c) PROVE Attended'
    <2>1. OnlyMoves(c) /\ call[c].pc # "idle" /\ UNCHANGED <<process, reader>>
      BY <1>13, OnlyCall DEF Spawn
    <2>2. Working' => Working \/ process # None
      BY <1>13, SetStatusAttended DEF Spawn, Working, agentVars
    <2> QED
      BY <2>1, <2>2, StartingKept, AttendedKept
  <1>14. ASSUME NEW c \in Clients, WriteFirst(c) PROVE Attended'
    <2>1. OnlyMoves(c) /\ call[c].pc # "idle" /\ UNCHANGED <<process, reader>>
      BY <1>14, OnlyCall DEF WriteFirst
    <2>2. Working' => Working \/ process # None
      BY <1>14, SetStatusAttended DEF WriteFirst, Working, agentVars
    <2> QED
      BY <2>1, <2>2, StartingKept, AttendedKept
  <1>15. ASSUME NEW c \in Clients, SetProcess(c) PROVE Attended'
    <2>1. call[c].p \in Procs /\ process' = call[c].p
      BY <1>15 DEF SetProcess, Structure, HandlerFits
    <2>2. call'[c].pc = "idle" /\ call'[c].p = call[c].p
      BY <1>15 DEF SetProcess, Goto, CallTyped
    <2>3. Starting' /\ process' # None
      BY <2>1, <2>2 DEF Starting
    <2> QED
      BY <2>3, AttendedParts
  <1>16. ASSUME NEW c \in Clients, SetIdle(c) PROVE Attended'
    <2>1. ~Working' /\ process' = process
      BY <1>16 DEF SetIdle, SetStatus, Working
    <2>2. OnlyMoves(c)
      BY <1>16, OnlyCall DEF SetIdle
    <2>3. ASSUME process # None PROVE Attending(process)' \/ Starting'
      <3>1. \A q \in Procs : reader'[q] = IF q = call[c].p THEN [pc |-> "read", todo |-> <<>>] ELSE reader[q]
        BY <1>16 DEF SetIdle, ReaderAt, ReaderTyped
      <3>2. process \in Procs
        BY <2>3 DEF ProcTyped
      <3>3. CASE process = call[c].p
        BY <2>1, <3>1, <3>2, <3>3 DEF Attending
      <3>4. CASE process # call[c].p
        <4>1. Starting => Starting'
          BY <2>1, <2>2, <3>4 DEF Starting, OnlyMoves
        <4>2. Attending(process) => Attending(process)'
          BY <2>1, <3>1, <3>2, <3>4 DEF Attending
        <4> QED
          BY <2>3, <4>1, <4>2, AttendedParts
      <3> QED
        BY <3>3, <3>4
    <2> QED
      BY <2>1, <2>3, AttendedParts
  <1>17. ASSUME NEW c \in Clients, Input(c) PROVE Attended'
    <2>1. OnlyMoves(c) /\ call[c].pc # "idle" /\ UNCHANGED <<process, reader>>
      BY <1>17, OnlyCall DEF Input
    <2>2. Working' => Working \/ process # None
      BY <1>17 DEF Input, Working, agentVars
    <2> QED
      BY <2>1, <2>2, StartingKept, AttendedKept
  <1>18. ASSUME NEW c \in Clients, SetWorking(c) PROVE Attended'
    <2>1. OnlyMoves(c) /\ call[c].pc # "idle" /\ UNCHANGED <<process, reader>>
      BY <1>18, OnlyCall DEF SetWorking
    <2>2. call[c].p \in Procs
      BY <1>18 DEF SetWorking, Structure, HandlerFits
    <2>3. Working' => Working \/ process # None
      <3>1. call[c].p # None
        BY <2>2
      <3>2. late' = (process # call[c].p)
        BY <1>18 DEF SetWorking
      <3> QED
        BY Zenon, <3>1, <3>2 DEF Working
    <2> QED
      BY <2>1, <2>3, StartingKept, AttendedKept
  <1>19. ASSUME NEW c \in Clients, Stop(c) PROVE Attended'
    <2>1. OnlyMoves(c) /\ call[c].pc # "idle" /\ UNCHANGED <<process, reader>>
      BY <1>19, OnlyCall DEF Stop
    <2>2. Working' => Working \/ process # None
      BY <1>19 DEF Stop, Working
    <2> QED
      BY <2>1, <2>2, StartingKept, AttendedKept
  <1>20. ASSUME NEW c \in Clients, SetStopped(c) PROVE Attended'
    <2>1. OnlyMoves(c) /\ call[c].pc # "idle" /\ UNCHANGED <<process, reader>>
      BY <1>20, OnlyCall DEF SetStopped
    <2>2. Working' => Working \/ process # None
      BY <1>20, SetStatusAttended DEF SetStopped, Working, agentVars
    <2> QED
      BY <2>1, <2>2, StartingKept, AttendedKept
  <1>21. ASSUME NEW c \in Clients, History(c) \/ Answer(c) PROVE Attended'
    BY <1>21, AttendedFrame DEF History, Answer, agentVars
  <1>22. CASE UNCHANGED vars
    BY <1>22, AttendedFrame DEF vars
  <1> QED
    BY <1>1, <1>2, <1>3, <1>4, <1>5, <1>6, <1>7, <1>8, <1>9, <1>10, <1>11, <1>12, <1>13, <1>14,
       <1>15, <1>16, <1>17, <1>18, <1>19, <1>20, <1>21, <1>22 DEF Next

-----------------------------------------------------------------------------
(* Requests: each process asks at most once, and announces afterwards.       *)
Listed(p)    == p \in pending \/ taken[p] > 0
NoAsk(q)     == \A i \in DOMAIN q : q[i] # "ask"
OneAsk(q)    == \A i, j \in DOMAIN q : q[i] = "ask" /\ q[j] = "ask" => i = j
AsksFirst(q) == \A i \in DOMAIN q : q[i] = "announce" => \E j \in 1..i - 1 : q[j] = "ask"

(* The request of a process is still in its pipe, in its reader's hands, or  *)
(* listed, and once it is listed in neither of the others.                   *)
AskFits(p) ==
    /\ OneAsk(out[p]) /\ OneAsk(reader[p].todo)
    /\ NoAsk(out[p]) \/ NoAsk(reader[p].todo)
    /\ Listed(p) => NoAsk(out[p]) /\ NoAsk(reader[p].todo)
    /\ Listed(p) \/ AsksFirst(reader[p].todo)
    /\ Listed(p) \/ ~NoAsk(reader[p].todo) \/ AsksFirst(out[p])
    /\ p \in announced => Listed(p)
    /\ taken[p] <= 1 /\ (p \in pending => taken[p] = 0)

Asks == \A p \in Procs : AskFits(p)

(* An empty pipe asks nothing.                                               *)
LEMMA EmptyAsks == NoAsk(<<>>) /\ OneAsk(<<>>) /\ AsksFirst(<<>>)
  BY DEF NoAsk, OneAsk, AsksFirst

(* A line that does not ask changes nothing.                                 *)
LEMMA PlainAppended ==
    ASSUME NEW q \in Seq(Effects), NEW h \in Seq(Effects),
           \A i \in DOMAIN h : h[i] \notin {"ask", "announce"}
    PROVE  /\ NoAsk(q) <=> NoAsk(q \o h)
           /\ OneAsk(q) => OneAsk(q \o h)
           /\ AsksFirst(q) => AsksFirst(q \o h)
  <1> DEFINE r == q \o h
  <1>1. /\ Len(q) \in Nat /\ Len(h) \in Nat /\ DOMAIN q = 1..Len(q) /\ DOMAIN h = 1..Len(h)
        /\ DOMAIN r = 1..Len(q) + Len(h)
    OBVIOUS
  <1>2. \A i \in 1..Len(q) : r[i] = q[i]
    OBVIOUS
  <1>3. \A i \in DOMAIN r : i > Len(q) => r[i] \notin {"ask", "announce"}
    <2>1. ASSUME NEW i \in DOMAIN r, i > Len(q) PROVE r[i] = h[i - Len(q)] /\ i - Len(q) \in DOMAIN h
      BY <1>1, <2>1
    <2> QED
      BY <2>1
  <1> HIDE DEF r
  <1>4. NoAsk(q) <=> NoAsk(r)
    BY <1>1, <1>2, <1>3 DEF NoAsk
  <1>5. OneAsk(q) => OneAsk(r)
    BY <1>1, <1>2, <1>3 DEF OneAsk
  <1>6. AsksFirst(q) => AsksFirst(r)
    <2>1. ASSUME AsksFirst(q), NEW i \in DOMAIN r, r[i] = "announce"
          PROVE  \E j \in 1..i - 1 : r[j] = "ask"
      <3>1. i \in 1..Len(q) /\ q[i] = "announce"
        BY <1>1, <1>2, <1>3, <2>1
      <3>2. PICK j \in 1..i - 1 : q[j] = "ask"
        BY <1>1, <2>1, <3>1 DEF AsksFirst
      <3>3. j \in 1..Len(q)
        BY <1>1, <3>1, <3>2
      <3> QED
        BY <1>2, <3>2, <3>3
    <2> QED
      BY <2>1 DEF AsksFirst
  <1> QED
    BY <1>4, <1>5, <1>6 DEF r

(* A line that asks.                                                         *)
LEMMA ControlAppended ==
    ASSUME NEW q \in Seq(Effects), NoAsk(q)
    PROVE  /\ OneAsk(q \o <<"ask", "announce">>)
           /\ AsksFirst(q) => AsksFirst(q \o <<"ask", "announce">>)
  <1> DEFINE r == q \o <<"ask", "announce">>
  <1>1. Len(q) \in Nat /\ DOMAIN q = 1..Len(q) /\ DOMAIN r = 1..Len(q) + 2
    OBVIOUS
  <1>2. \A i \in 1..Len(q) : r[i] = q[i]
    OBVIOUS
  <1>3. r[Len(q) + 1] = "ask" /\ r[Len(q) + 2] = "announce"
    BY <1>1
  <1> HIDE DEF r
  <1>4. OneAsk(r)
    <2>1. ASSUME NEW i \in DOMAIN r, r[i] = "ask" PROVE i = Len(q) + 1
      BY <1>1, <1>2, <1>3, <2>1 DEF NoAsk
    <2> QED
      BY <2>1 DEF OneAsk
  <1>5. AsksFirst(q) => AsksFirst(r)
    BY <1>1, <1>2, <1>3 DEF AsksFirst
  <1> QED
    BY <1>4, <1>5 DEF r

(* The reader takes the first effect of its chunk.                           *)
LEMMA HeadTaken ==
    ASSUME NEW q \in Seq(Effects), q # <<>>
    PROVE  /\ OneAsk(q) => OneAsk(Tail(q))
           /\ NoAsk(q) => NoAsk(Tail(q))
           /\ Head(q) = "ask" => ~NoAsk(q) /\ (OneAsk(q) => NoAsk(Tail(q)))
           /\ Head(q) # "ask" => (NoAsk(Tail(q)) <=> NoAsk(q)) /\ (AsksFirst(q) => AsksFirst(Tail(q)))
           /\ Head(q) = "announce" => ~AsksFirst(q)
  <1> DEFINE t == Tail(q)
             h == Head(q)
  <1>1. /\ Len(q) \in Nat \ {0} /\ DOMAIN q = 1..Len(q)
        /\ DOMAIN t = 1..Len(q) - 1 /\ 1 \in DOMAIN q /\ h = q[1]
    OBVIOUS
  <1>2. \A i \in DOMAIN t : t[i] = q[i + 1] /\ i + 1 \in DOMAIN q
    BY <1>1
  <1>3. \A i \in DOMAIN q : i = 1 \/ (i - 1 \in DOMAIN t /\ t[i - 1] = q[i])
    BY <1>1, <1>2
  <1> HIDE DEF t, h
  <1>4. (OneAsk(q) => OneAsk(t)) /\ (NoAsk(q) => NoAsk(t))
    BY <1>1, <1>2 DEF OneAsk, NoAsk
  <1>5. h = "ask" => ~NoAsk(q) /\ (OneAsk(q) => NoAsk(t))
    <2>1. h = "ask" => ~NoAsk(q)
      BY <1>1 DEF NoAsk
    <2>2. ASSUME h = "ask", OneAsk(q), NEW i \in DOMAIN t PROVE t[i] # "ask"
      <3>1. i + 1 # 1 /\ i + 1 \in DOMAIN q /\ t[i] = q[i + 1]
        BY <1>1, <1>2
      <3> QED
        BY <1>1, <2>2, <3>1 DEF OneAsk
    <2> QED
      BY <2>1, <2>2 DEF NoAsk
  <1>6. h # "ask" => (NoAsk(t) <=> NoAsk(q))
    BY <1>1, <1>2, <1>3 DEF NoAsk
  <1>7. ASSUME h # "ask", AsksFirst(q) PROVE AsksFirst(t)
    <2>1. ASSUME NEW i \in DOMAIN t, t[i] = "announce" PROVE \E j \in 1..i - 1 : t[j] = "ask"
      <3>1. PICK j \in 1..i : q[j] = "ask"
        BY <1>1, <1>2, <1>7, <2>1 DEF AsksFirst
      <3>2. j # 1
        BY <1>1, <1>7, <3>1
      <3>3. j \in DOMAIN q /\ j - 1 \in 1..i - 1
        BY <1>1, <3>2
      <3>4. t[j - 1] = "ask"
        BY <1>3, <3>1, <3>2, <3>3
      <3> QED
        BY <3>3, <3>4
    <2> QED
      BY <2>1 DEF AsksFirst
  <1>8. h = "announce" => ~AsksFirst(q)
    <2>1. \A j \in 1..1 - 1 : FALSE
      OBVIOUS
    <2> QED
      BY <1>1, <2>1 DEF AsksFirst
  <1> QED
    BY <1>4, <1>5, <1>6, <1>7, <1>8 DEF t, h

(* Nothing has been asked in the initial state.                              *)
LEMMA InitAsks == Init => Asks
  <1> SUFFICES ASSUME Init, NEW p \in Procs PROVE AskFits(p)
    BY DEF Asks
  <1>1. /\ out[p] = <<>> /\ reader[p].todo = <<>> /\ p \notin pending /\ p \notin announced
        /\ taken[p] = 0
    BY DEF Init
  <1> QED
    BY <1>1, EmptyAsks DEF AskFits, Listed

(* Chunks keep what they hold; a pipe does too, or is emptied.               *)
Undisturbed ==
    \A p \in Procs : reader'[p].todo = reader[p].todo /\ out'[p] \in {out[p], <<>>}

(* Steps that leave the pipes and the requests alone.                        *)
LEMMA AsksFrame ==
    ASSUME Asks, Undisturbed, UNCHANGED permVars
    PROVE  Asks'
  <1> SUFFICES ASSUME NEW p \in Procs PROVE AskFits(p)'
    BY DEF Asks
  <1>1. reader'[p].todo = reader[p].todo /\ UNCHANGED <<pending, announced, taken>>
    BY DEF Undisturbed, permVars
  <1>2. CASE out'[p] = out[p]
    BY <1>1, <1>2 DEF Asks, AskFits, Listed
  <1>3. CASE out'[p] = <<>>
    BY <1>1, <1>3, EmptyAsks DEF Asks, AskFits, Listed
  <1> QED
    BY <1>2, <1>3 DEF Undisturbed

(* Every step keeps where each process's request has got to.                 *)
LEMMA AsksPreserved == Typed /\ Structure /\ Asks /\ [Next]_vars => Asks'
  <1> SUFFICES ASSUME Typed, Structure, Asks, [Next]_vars PROVE Asks'
    OBVIOUS
  <1> PipeTyped /\ PermTyped /\ ReaderTyped /\ CallTyped
    BY TypedParts
  <1>1. ASSUME NEW i \in DOMAIN inflight, Deliver(i) PROVE Asks'
    BY <1>1, AsksFrame DEF Deliver, pipeVars, Undisturbed
  <1>2. ASSUME NEW p \in Procs, Emit(p) PROVE Asks'
    <2>1. PICK k \in DOMAIN Handled : out' = [out EXCEPT ![p] = @ \o Handled[k]]
                                   /\ (k = "control_request" => ~Asked(p))
      BY <1>2 DEF Emit
    <2>2. /\ \A q \in Procs : out'[q] = IF q = p THEN out[p] \o Handled[k] ELSE out[q]
          /\ UNCHANGED <<reader, pending, announced, taken>>
      BY <1>2, <2>1 DEF Emit, PipeTyped, permVars
    <2>3. out[p] \in Seq(Effects) /\ Handled[k] \in Seq(Effects)
      BY HandledEffects DEF PipeTyped
    <2>4. ASSUME NEW q \in Procs, q # p PROVE AskFits(q)'
      BY <2>2, <2>4 DEF Asks, AskFits, Listed
    <2>5. CASE k # "control_request"
      <3>1. \A i \in DOMAIN Handled[k] : Handled[k][i] \notin {"ask", "announce"}
        BY <2>5, HandledEffects
      <3>2. /\ NoAsk(out[p]) <=> NoAsk(out'[p])
            /\ OneAsk(out[p]) => OneAsk(out'[p])
            /\ AsksFirst(out[p]) => AsksFirst(out'[p])
        BY <2>2, <2>3, <3>1, PlainAppended
      <3>3. AskFits(p)'
        BY <2>2, <3>2 DEF Asks, AskFits, Listed
      <3> QED
        BY <2>4, <3>3 DEF Asks
    <2>6. CASE k = "control_request"
      <3>1. ~Listed(p) /\ NoAsk(out[p]) /\ NoAsk(reader[p].todo)
        BY <2>1, <2>6 DEF Asked, Listed, NoAsk, ToSet
      <3>2. OneAsk(out'[p]) /\ (AsksFirst(out[p]) => AsksFirst(out'[p]))
        BY <2>2, <2>3, <2>6, <3>1, HandledEffects, ControlAppended
      <3>3. AskFits(p)'
        BY <2>2, <3>1, <3>2 DEF Asks, AskFits, Listed
      <3> QED
        BY <2>4, <3>3 DEF Asks
    <2> QED
      BY <2>5, <2>6
  <1>3. ASSUME NEW p \in Procs, Exit(p) PROVE Asks'
    BY <1>3, AsksFrame DEF Exit, Undisturbed
  <1>4. ASSUME NEW p \in Procs, Read(p) PROVE Asks'
    <2>1. CASE out[p] = <<>>
      <3>1. reader'[p].todo = <<>> /\ reader[p].todo = <<>>
        BY <1>4, <2>1 DEF Read, ReaderAt, ReaderTyped
      <3>2. \A q \in Procs : reader'[q].todo = reader[q].todo
        BY <1>4, <2>1, <3>1 DEF Read, ReaderAt, ReaderTyped
      <3> QED
        BY <1>4, <2>1, <3>2, AsksFrame DEF Read, PipeTyped, Undisturbed
    <2>2. CASE out[p] # <<>>
      <3>1. /\ reader[p].todo = <<>> /\ reader'[p].todo = out[p] /\ out'[p] = <<>>
            /\ UNCHANGED <<pending, announced, taken>>
        BY <1>4, <2>2 DEF Read, ReaderTyped, PipeTyped, permVars
      <3>2. ASSUME NEW q \in Procs, q # p PROVE reader'[q] = reader[q] /\ out'[q] = out[q]
        BY <1>4, <2>2, <3>2 DEF Read, ReaderTyped, PipeTyped
      <3>3. ASSUME NEW q \in Procs, q # p PROVE AskFits(q)'
        BY <3>1, <3>2, <3>3 DEF Asks, AskFits, Listed
      <3>4. AskFits(p)'
        BY <3>1, EmptyAsks DEF Asks, AskFits, Listed
      <3> QED
        BY <3>3, <3>4 DEF Asks
    <2> QED
      BY <2>1, <2>2
  <1>5. ASSUME NEW p \in Procs, Handle(p) PROVE Asks'
    <2> DEFINE e == Head(reader[p].todo)
    <2>1. /\ reader'[p].todo = Tail(reader[p].todo) /\ out' = out
          /\ \A q \in Procs \ {p} : reader'[q] = reader[q]
      BY <1>5 DEF Handle, ReaderTyped, pipeVars
    <2>2. reader[p].todo \in Seq(Effects) /\ reader[p].todo # <<>> /\ e \in Effects
      BY <1>5 DEF Handle, ReaderTyped
    <2>3. /\ OneAsk(reader[p].todo) => OneAsk(reader'[p].todo)
          /\ NoAsk(reader[p].todo) => NoAsk(reader'[p].todo)
          /\ e = "ask" => ~NoAsk(reader[p].todo) /\ (OneAsk(reader[p].todo) => NoAsk(reader'[p].todo))
          /\ e # "ask" => /\ NoAsk(reader'[p].todo) <=> NoAsk(reader[p].todo)
                          /\ AsksFirst(reader[p].todo) => AsksFirst(reader'[p].todo)
          /\ e = "announce" => ~AsksFirst(reader[p].todo)
      BY <2>1, <2>2, HeadTaken
    <2>4. CASE e \in {"working", "idle"}
      <3>1. UNCHANGED <<pending, announced, taken>>
        BY <1>5, <2>4 DEF Handle, Apply, permVars
      <3>2. ASSUME NEW q \in Procs, q # p PROVE AskFits(q)'
        BY <2>1, <3>1, <3>2 DEF Asks, AskFits, Listed
      <3>3. AskFits(p)'
        <4>1. /\ NoAsk(reader'[p].todo) <=> NoAsk(reader[p].todo)
              /\ AsksFirst(reader[p].todo) => AsksFirst(reader'[p].todo)
              /\ OneAsk(reader[p].todo) => OneAsk(reader'[p].todo)
          <5>1. e # "ask"
            BY <2>4
          <5>2. /\ NoAsk(reader'[p].todo) <=> NoAsk(reader[p].todo)
                /\ AsksFirst(reader[p].todo) => AsksFirst(reader'[p].todo)
            BY ONLY <2>3, <5>1 DEF NoAsk, AsksFirst, OneAsk
          <5>3. OneAsk(reader[p].todo) => OneAsk(reader'[p].todo)
            <6> HIDE DEF e
            <6> QED
              BY ONLY <2>3, <5>1
          <5> QED
            BY ONLY <5>2, <5>3
        <4>2. (Listed(p)' <=> Listed(p)) /\ out'[p] = out[p]
          BY <2>1, <3>1 DEF Listed
        <4> QED
          BY <3>1, <4>1, <4>2 DEF Asks, AskFits
      <3> QED
        BY <3>2, <3>3 DEF Asks
    <2>5. CASE e = "ask"
      <3>1. pending' = pending \cup {p} /\ UNCHANGED <<announced, taken>>
        BY <1>5, <2>5 DEF Handle, Apply, AddRequest
      <3>2. ASSUME NEW q \in Procs, q # p PROVE AskFits(q)'
        BY <2>1, <3>1, <3>2 DEF Asks, AskFits, Listed
      <3>3. ~Listed(p) /\ NoAsk(out[p]) /\ NoAsk(reader'[p].todo)
        BY <2>3, <2>5 DEF Asks, AskFits
      <3>4. taken[p] = 0
        BY <3>3 DEF Listed, PermTyped
      <3>5. AskFits(p)'
        BY <2>1, <2>3, <3>1, <3>3, <3>4 DEF Asks, AskFits, Listed
      <3> QED
        BY <3>2, <3>5 DEF Asks
    <2>6. CASE e = "announce"
      <3>1. announced' = announced \cup {p} /\ UNCHANGED <<pending, taken>>
        BY <1>5, <2>6 DEF Handle, Apply, Announce
      <3>2. ASSUME NEW q \in Procs, q # p PROVE AskFits(q)'
        BY <2>1, <3>1, <3>2 DEF Asks, AskFits, Listed
      <3>3. Listed(p)
        BY <2>3, <2>6 DEF Asks, AskFits
      <3>4. AskFits(p)'
        BY <2>1, <2>3, <2>6, <3>1, <3>3 DEF Asks, AskFits, Listed
      <3> QED
        BY <3>2, <3>4 DEF Asks
    <2> QED
      BY <2>2, <2>4, <2>5, <2>6 DEF Effects
  <1>6. ASSUME NEW p \in Procs, Check(p) PROVE Asks'
    <2>1. reader[p].todo = <<>>
      BY <1>6 DEF Check, Structure, ReaderFits
    <2>2. \A q \in Procs : reader'[q].todo = reader[q].todo
      BY <1>6, <2>1 DEF Check, ReaderAt, ReaderTyped
    <2> QED
      BY <1>6, <2>2, AsksFrame DEF Check, pipeVars, Undisturbed
  <1>7. ASSUME NEW p \in Procs, Unset(p) PROVE Asks'
    <2>1. reader[p].todo = <<>>
      BY <1>7 DEF Unset, Structure, ReaderFits
    <2>2. \A q \in Procs : reader'[q].todo = reader[q].todo
      BY <1>7, <2>1 DEF Unset, ReaderAt, ReaderTyped
    <2> QED
      BY <1>7, <2>2, AsksFrame DEF Unset, pipeVars, Undisturbed
  <1>8. ASSUME NEW p \in Procs, Settle(p) PROVE Asks'
    <2>1. reader[p].todo = <<>>
      BY <1>8 DEF Settle, Structure, ReaderFits
    <2>2. \A q \in Procs : reader'[q].todo = reader[q].todo
      BY <1>8, <2>1 DEF Settle, ReaderAt, ReaderTyped
    <2> QED
      BY <1>8, <2>2, AsksFrame DEF Settle, pipeVars, Undisturbed
  <1>9. ASSUME NEW p \in Procs, KeepIdle(p) PROVE Asks'
    <2>1. reader[p].todo = <<>>
      BY <1>9 DEF KeepIdle, Structure, ReaderFits
    <2>2. \A q \in Procs : reader'[q].todo = reader[q].todo
      BY <1>9, <2>1 DEF KeepIdle, ReaderAt, ReaderTyped
    <2> QED
      BY <1>9, <2>2, AsksFrame DEF KeepIdle, pipeVars, Undisturbed
  <1>10. ASSUME NEW c \in Clients, Send(c) PROVE Asks'
    <2>1. Undisturbed
      BY <1>10 DEF Send, Killed, Undisturbed, pipeVars, PipeTyped
    <2> QED
      BY <1>10, <2>1, AsksFrame DEF Send
  <1>11. ASSUME NEW c \in Clients, Reread(c) PROVE Asks'
    BY <1>11, AsksFrame DEF Reread, pipeVars, Undisturbed
  <1>12. ASSUME NEW c \in Clients, Waited(c) PROVE Asks'
    BY <1>12, AsksFrame DEF Waited, pipeVars, Undisturbed
  <1>13. ASSUME NEW c \in Clients, Spawn(c) PROVE Asks'
    BY <1>13, AsksFrame DEF Spawn, pipeVars, Undisturbed
  <1>14. ASSUME NEW c \in Clients, WriteFirst(c) PROVE Asks'
    BY <1>14, AsksFrame DEF WriteFirst, pipeVars, Undisturbed
  <1>15. ASSUME NEW c \in Clients, SetProcess(c) PROVE Asks'
    BY <1>15, AsksFrame DEF SetProcess, pipeVars, Undisturbed
  <1>16. ASSUME NEW c \in Clients, SetIdle(c) PROVE Asks'
    <2>1. reader[call[c].p].todo = <<>> /\ call[c].p \in Procs
      BY <1>16 DEF SetIdle, Structure, HandlerFits, ReaderFits
    <2>2. \A q \in Procs : reader'[q].todo = reader[q].todo
      BY <1>16, <2>1 DEF SetIdle, ReaderAt, ReaderTyped
    <2> QED
      BY <1>16, <2>2, AsksFrame DEF SetIdle, pipeVars, Undisturbed
  <1>17. ASSUME NEW c \in Clients, Input(c) PROVE Asks'
    BY <1>17, AsksFrame DEF Input, pipeVars, Undisturbed
  <1>18. ASSUME NEW c \in Clients, SetWorking(c) PROVE Asks'
    BY <1>18, AsksFrame DEF SetWorking, pipeVars, Undisturbed
  <1>19. ASSUME NEW c \in Clients, Stop(c) PROVE Asks'
    <2>1. Undisturbed
      BY <1>19 DEF Stop, Killed, Undisturbed, pipeVars, PipeTyped
    <2> QED
      BY <1>19, <2>1, AsksFrame DEF Stop
  <1>20. ASSUME NEW c \in Clients, SetStopped(c) PROVE Asks'
    BY <1>20, AsksFrame DEF SetStopped, pipeVars, Undisturbed
  <1>21. ASSUME NEW c \in Clients, History(c) PROVE Asks'
    <2>1. announced' = announced \cup pending /\ UNCHANGED <<reader, out, pending, taken>>
      BY <1>21 DEF History, pipeVars
    <2>2. ASSUME NEW q \in Procs PROVE AskFits(q)'
      BY <2>1 DEF Asks, AskFits, Listed
    <2> QED
      BY <2>2 DEF Asks
  <1>22. ASSUME NEW c \in Clients, Answer(c) PROVE Asks'
    <2>1. PICK p \in announced : HandleResponse(c, p)
      BY <1>22 DEF Answer
    <2>2. /\ p \in pending /\ p \in Procs /\ pending' = pending \ {p}
          /\ taken' = [taken EXCEPT ![p] = taken[p] + 1] /\ UNCHANGED <<reader, out, announced>>
      BY <1>22, <2>1 DEF Answer, HandleResponse, PermTyped, pipeVars
    <2>3. taken[p] = 0
      BY <2>2 DEF Asks, AskFits
    <2>4. taken'[p] = 1 /\ \A q \in Procs \ {p} : taken'[q] = taken[q]
      BY <2>2, <2>3 DEF PermTyped
    <2>5. ASSUME NEW q \in Procs PROVE AskFits(q)'
      <3>1. (Listed(q)' <=> Listed(q)) /\ UNCHANGED <<reader, out, announced>>
        BY <2>2, <2>3, <2>4 DEF Listed
      <3>2. taken'[q] <= 1 /\ (q \in pending' => taken'[q] = 0)
        BY <2>2, <2>4 DEF Asks, AskFits
      <3> QED
        BY <3>1, <3>2 DEF Asks, AskFits
    <2> QED
      BY <2>5 DEF Asks
  <1>23. CASE UNCHANGED vars
    BY <1>23, AsksFrame DEF vars, Undisturbed, permVars
  <1> QED
    BY <1>1, <1>2, <1>3, <1>4, <1>5, <1>6, <1>7, <1>8, <1>9, <1>10, <1>11, <1>12, <1>13, <1>14,
       <1>15, <1>16, <1>17, <1>18, <1>19, <1>20, <1>21, <1>22, <1>23 DEF Next

-----------------------------------------------------------------------------
(* Notifications: the last one in flight says what the status is, unless a   *)
(* later one was delivered.                                                  *)
Told ==
    /\ inflight = <<>> /\ ~overtaken => shown = status
    /\ inflight # <<>> /\ ~inflight[Len(inflight)].old => inflight[Len(inflight)].status = status

(* The apps know the initial status.                                         *)
LEMMA InitTold == Init => Told
  BY DEF Init, Told

(* Steps that touch neither the status nor what is told of it.               *)
LEMMA ToldFrame == Told /\ UNCHANGED <<status, inflight, shown, overtaken>> => Told'
  BY DEF Told

(* A change of status puts its notification last in flight.                  *)
LEMMA SetStatusTold ==
    ASSUME AgentTyped, Told, NEW t \in Status, NEW p, SetStatus(t, p), UNCHANGED appVars
    PROVE  Told'
  <1>1. CASE t = status
    BY <1>1, ToldFrame DEF SetStatus, Changed, appVars
  <1>2. CASE t # status
    <2>1. inflight \in Seq(News) /\ Issue(t) \in News /\ Issue(t).status = t
      BY NewsTyped DEF AgentTyped, Issue
    <2>2. inflight' = Append(inflight, Issue(t)) /\ status' = t
      BY <1>2 DEF SetStatus, Changed
    <2>3. inflight' # <<>> /\ inflight'[Len(inflight')] = Issue(t)
      BY <2>1, <2>2
    <2> QED
      BY <2>1, <2>2, <2>3 DEF Told
  <1> QED
    BY <1>1, <1>2

(* Every step keeps the status told last.                                    *)
LEMMA ToldPreserved == Typed /\ Told /\ [Next]_vars => Told'
  <1> SUFFICES ASSUME Typed, Told, [Next]_vars PROVE Told'
    OBVIOUS
  <1> AgentTyped /\ ReaderTyped
    BY TypedParts
  <1>1. ASSUME NEW i \in DOMAIN inflight, Deliver(i) PROVE Told'
    <2> DEFINE q == [k \in DOMAIN inflight |->
                       IF k < i THEN [inflight[k] EXCEPT !.old = TRUE] ELSE inflight[k]]
               n == Len(inflight)
    <2>1. /\ n \in Nat /\ i \in 1..n /\ DOMAIN inflight = 1..n /\ \A k \in 1..n : inflight[k] \in News
      BY DEF AgentTyped
    <2>2. q \in Seq(News) /\ Len(q) = n /\ i \in DOMAIN q
      BY <2>1, NewsTyped DEF AgentTyped
    <2>3. /\ \A k \in 1..n : k < i => q[k].old
          /\ \A k \in 1..n : k >= i => q[k] = inflight[k]
      <3>1. \A k \in 1..n : k < i => q[k] = [inflight[k] EXCEPT !.old = TRUE]
        BY <2>1
      <3>2. \A k \in 1..n : k >= i => q[k] = inflight[k]
        BY <2>1
      <3>3. ASSUME NEW k \in 1..n, k < i PROVE q[k].old
        <4>1. inflight[k] \in News /\ q[k] = [inflight[k] EXCEPT !.old = TRUE]
          BY <2>1, <3>1, <3>3
        <4>2. [inflight[k] EXCEPT !.old = TRUE].old = TRUE
          BY <4>1 DEF News
        <4> HIDE DEF q
        <4> QED
          BY <4>1, <4>2
      <3> HIDE DEF q, n
      <3> QED
        BY <3>2, <3>3
    <2>4. /\ inflight' = RemoveAt(q, i) /\ status' = status
          /\ shown' = inflight[i].status /\ overtaken' = inflight[i].old
      BY <1>1 DEF Deliver
    <2> HIDE DEF q, n
    <2>5. /\ inflight' \in Seq(News) /\ Len(inflight') = n - 1
          /\ \A j \in 1..n - 1 : inflight'[j] = IF j < i THEN q[j] ELSE q[j + 1]
      BY <2>2, <2>4, RemoveAtSeq
    <2>6. n = Len(inflight) /\ inflight # <<>>
      BY <2>1 DEF n
    <2>7. CASE n = 1
      <3>1. i = n /\ inflight' = <<>>
        BY <2>1, <2>5, <2>7
      <3>2. ~overtaken' => shown' = status'
        BY <2>4, <2>6, <3>1 DEF Told
      <3> QED
        BY <3>1, <3>2 DEF Told
    <2>8. CASE n > 1 /\ i = n
      <3>1. inflight' # <<>> /\ Len(inflight') = n - 1 /\ inflight'[n - 1] = q[n - 1] /\ q[n - 1].old
        BY <2>1, <2>3, <2>5, <2>8
      <3> QED
        BY <3>1 DEF Told
    <2>9. CASE n > 1 /\ i < n
      <3>1. inflight' # <<>> /\ Len(inflight') = n - 1 /\ inflight'[n - 1] = q[n] /\ q[n] = inflight[n]
        BY <2>1, <2>3, <2>5, <2>9
      <3> QED
        BY <2>4, <2>6, <3>1 DEF Told
    <2> QED
      BY <2>1, <2>7, <2>8, <2>9
  <1>2. ASSUME NEW p \in Procs, Emit(p) PROVE Told'
    BY <1>2, ToldFrame DEF Emit, agentVars, appVars
  <1>3. ASSUME NEW p \in Procs, Exit(p) PROVE Told'
    BY <1>3, ToldFrame DEF Exit, agentVars, appVars
  <1>4. ASSUME NEW p \in Procs, Read(p) PROVE Told'
    BY <1>4, ToldFrame DEF Read, agentVars, appVars
  <1>5. ASSUME NEW p \in Procs, Handle(p) PROVE Told'
    <2> DEFINE e == Head(reader[p].todo)
    <2>1. e \in Effects /\ UNCHANGED appVars
      BY <1>5 DEF Handle, ReaderTyped
    <2>2. CASE e \in {"working", "idle"}
      <3>1. SetStatus(e, p)
        BY <1>5, <2>2 DEF Handle, Apply
      <3> QED
        BY <2>1, <2>2, <3>1, SetStatusTold
    <2>3. CASE e \in {"ask", "announce"}
      <3>1. UNCHANGED agentVars
        BY <1>5, <2>3 DEF Handle, Apply
      <3> QED
        BY <2>1, <3>1, ToldFrame DEF agentVars, appVars
    <2> QED
      BY <2>1, <2>2, <2>3 DEF Effects
  <1>6. ASSUME NEW p \in Procs, Check(p) PROVE Told'
    BY <1>6, ToldFrame DEF Check, agentVars, appVars
  <1>7. ASSUME NEW p \in Procs, Unset(p) PROVE Told'
    BY <1>7, ToldFrame DEF Unset, agentVars, appVars
  <1>8. ASSUME NEW p \in Procs, Settle(p) PROVE Told'
    BY <1>8, ToldFrame DEF Settle, agentVars, appVars
  <1>9. ASSUME NEW p \in Procs, KeepIdle(p) PROVE Told'
    BY <1>9, SetStatusTold DEF KeepIdle
  <1>10. ASSUME NEW c \in Clients, Send(c) PROVE Told'
    BY <1>10, ToldFrame DEF Send, agentVars, appVars
  <1>11. ASSUME NEW c \in Clients, Reread(c) PROVE Told'
    BY <1>11, ToldFrame DEF Reread, agentVars, appVars
  <1>12. ASSUME NEW c \in Clients, Waited(c) PROVE Told'
    BY <1>12, SetStatusTold DEF Waited
  <1>13. ASSUME NEW c \in Clients, Spawn(c) PROVE Told'
    BY <1>13, SetStatusTold, ToldFrame DEF Spawn, agentVars, appVars
  <1>14. ASSUME NEW c \in Clients, WriteFirst(c) PROVE Told'
    BY <1>14, SetStatusTold, ToldFrame DEF WriteFirst, agentVars, appVars
  <1>15. ASSUME NEW c \in Clients, SetProcess(c) PROVE Told'
    BY <1>15, ToldFrame DEF SetProcess, agentVars, appVars
  <1>16. ASSUME NEW c \in Clients, SetIdle(c) PROVE Told'
    BY <1>16, SetStatusTold DEF SetIdle
  <1>17. ASSUME NEW c \in Clients, Input(c) PROVE Told'
    BY <1>17, ToldFrame DEF Input, agentVars, appVars
  <1>18. ASSUME NEW c \in Clients, SetWorking(c) PROVE Told'
    <2> DEFINE q == Changed("working")
               m == Issue("working")
    <2>1. q \in Seq(News) /\ m \in News /\ m.status = "working"
      BY ChangedTyped, NewsTyped DEF Issue
    <2>2. inflight' = Append(q, m) /\ status' = "working"
      BY <1>18 DEF SetWorking
    <2> HIDE DEF q, m
    <2>3. inflight' # <<>> /\ inflight'[Len(inflight')] = m
      BY <2>1, <2>2
    <2> QED
      BY <2>1, <2>2, <2>3 DEF Told
  <1>19. ASSUME NEW c \in Clients, Stop(c) PROVE Told'
    BY <1>19, ToldFrame DEF Stop, agentVars, appVars
  <1>20. ASSUME NEW c \in Clients, SetStopped(c) PROVE Told'
    BY <1>20, SetStatusTold DEF SetStopped
  <1>21. ASSUME NEW c \in Clients, History(c) PROVE Told'
    BY <1>21, ToldFrame DEF History, agentVars, appVars
  <1>22. ASSUME NEW c \in Clients, Answer(c) PROVE Told'
    BY <1>22, ToldFrame DEF Answer, agentVars, appVars
  <1>23. CASE UNCHANGED vars
    BY <1>23, ToldFrame DEF vars
  <1> QED
    BY <1>1, <1>2, <1>3, <1>4, <1>5, <1>6, <1>7, <1>8, <1>9, <1>10, <1>11, <1>12, <1>13, <1>14,
       <1>15, <1>16, <1>17, <1>18, <1>19, <1>20, <1>21, <1>22, <1>23 DEF Next

-----------------------------------------------------------------------------
(* Theorems.                                                                 *)

IInv == Typed /\ Structure /\ Attended /\ Asks /\ Told

(* The parts together are inductive.                                         *)
LEMMA InductiveInvariant == Spec => []IInv
  <1>1. Init => IInv
    BY InitTyped, InitStructure, InitAttended, InitAsks, InitTold DEF IInv
  <1>2. IInv /\ [Next]_vars => IInv'
    BY TypedPreserved, StructurePreserved, AttendedPreserved, AsksPreserved, ToldPreserved DEF IInv
  <1> QED
    BY <1>1, <1>2, PTL DEF Spec

(* Every variable keeps its type, and a reader that has stopped reading has  *)
(* seen its process end.                                                     *)
THEOREM TypeCorrect == Spec => []TypeOK
  <1>1. IInv => TypeOK
    BY DEF IInv, Structure, ReaderFits, TypeOK, Alive
  <1> QED
    BY <1>1, InductiveInvariant, PTL

(* However sends, stops, lines and exits overlap, an agent at rest shows     *)
(* working only if it was marked so too late.                                *)
THEOREM RestsIdleAlways == Spec => []RestsIdle
  <1>1. IInv => RestsIdle
    BY DEF IInv, Attended, RestsIdle, Rest, Typed
  <1> QED
    BY <1>1, InductiveInvariant, PTL

(* However many clients press allow or deny, and whatever happens to the     *)
(* agent meanwhile, one answer at most is accepted for a request.            *)
THEOREM AnsweredOnceAlways == Spec => []AnsweredOnce
  <1>1. IInv => AnsweredOnce
    BY DEF IInv, Asks, AskFits, AnsweredOnce
  <1> QED
    BY <1>1, InductiveInvariant, PTL

(* A request that an app has been shown is listed until it is answered.      *)
THEOREM AskedIsListedAlways == Spec => []AskedIsListed
  <1>1. IInv /\ TypeOK => AskedIsListed
    BY DEF IInv, Typed, Asks, AskFits, Listed, AskedIsListed
  <1> QED
    BY <1>1, InductiveInvariant, TypeCorrect, PTL

(* Once everything is delivered the apps show the agent's status, unless the *)
(* last notification delivered was overtaken.                                *)
THEOREM ToldAtRestAlways == Spec => []ToldAtRest
  <1>1. IInv => ToldAtRest
    BY DEF IInv, Told, ToldAtRest
  <1> QED
    BY <1>1, InductiveInvariant, PTL
=============================================================================

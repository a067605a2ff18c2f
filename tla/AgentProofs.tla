---------------------------- MODULE AgentProofs -----------------------------
(***************************************************************************)
(* The recorded conversation and the processes of an agent.  What          *)
(* Conversation's run checks of three lines and two sessions holds for any *)
(* number of lines, sessions, senders, clears and crashes: InOrder         *)
(* everywhere, SessionIsolation but after a crash of an agent of several   *)
(* sessions, Persisted and RowsKept for the agents of Orderly.             *)
(* AgentLifecycle's theorems follow.                                       *)
(***************************************************************************)
EXTENDS Conversation, AgentLifecycle, WellFoundedInduction, TLAPS

-----------------------------------------------------------------------------
(* The inductive invariant.                                                  *)

Words   == Texts \cup {"reply", ""}
Written == [role : {"user", "assistant"}, text : Words]
Steps   == {"ready", "tag", "save", "publish", "begin", "write", "end", "reset", "clear",
            "cleared", "stat", "assign", "update", "load", "next", "append"}
Work    == [pc : Steps, ev : EvType, seq : Nat, tag : 0..MaxSessions,
            todo : Seq(EvType), reload : BOOLEAN, to : 0..MaxSessions, size : 0..MaxLines]
TailType == [sess : Sessions, pos : 0..MaxLines, end : 0..MaxLines, seeded : BOOLEAN,
             again : SUBSET (Sessions \X Nat)]

Shapes ==
    /\ world \in Worlds /\ up \in BOOLEAN /\ sending \in BOOLEAN
    /\ buf \in Seq([seq : Nat, ev : EvType]) /\ seq \in Nat
    /\ store \subseteq [seq : Nat, ev : EvType, tag : Sessions]
    /\ \E n \in Nat : \A r \in store : r.seq <= n
    /\ sess \in Sessions /\ dbSess \in Sessions /\ cliSess \in Sessions
    /\ cli \in [Sessions -> Seq(Written)] /\ pane \in Seq(Words)
    /\ spent \in [sends : Nat, clears : Nat, crashes : Nat, lines : 0..MaxLines]
    /\ \A s \in Sessions : Len(cli[s]) <= spent.lines
    /\ tail \in TailType
    /\ task \in [Tasks -> Work]

\* The buffer's events have consecutive numbers, the last of them seq, and a number
\* has one row.
Numbered ==
    /\ \A i \in DOMAIN buf : buf[i].seq = seq - Len(buf) + i
    /\ \A r, q \in store : r.seq = q.seq => r = q

\* What a task has at hand at each of its steps.
Tasked ==
    /\ \A t \in Tasks : task[t].pc = "save" => task[t].tag \in Sessions
    /\ LET w == task[Watcher] IN
       /\ w.pc \in {"update", "clear", "reset", "load"} \/ w.reload => w.to \in Sessions
       /\ w.pc \in {"ready", "update"} => ~w.reload
       /\ w.pc = "append" => w.todo # <<>>
       /\ ~up => w.pc = "ready"

\* The buffer has no line of session s from line n on.
Below(s, n) ==
    \A i \in DOMAIN buf : buf[i].ev.from[1] = s => buf[i].ev.from[2] < n

\* A recorded line is one the transcript has.
Lined ==
    /\ \A i \in DOMAIN buf : buf[i].ev.from[1] = 0 => buf[i].ev.from = Typed
    /\ \A s \in Sessions : Below(s, Len(cli[s]) + 1)

\* The watcher's goroutine is in the middle of a poll, or of loading a session.
Feeding == task[Watcher].pc \in {"next", "append", "tag", "save", "publish"}
Feeds   == IF task[Watcher].reload THEN task[Watcher].to ELSE tail.sess
FeedEnd == IF task[Watcher].reload THEN Len(cli[task[Watcher].to]) ELSE tail.end

\* Consecutive lines of session s, none past line n.
First(todo) == todo[1].from[2]

Consecutive(todo, s, n) ==
    todo # <<>> =>
        /\ \A k \in DOMAIN todo : todo[k].from = <<s, First(todo) + k - 1>>
        /\ First(todo) \in Nat \ {0} /\ First(todo) + Len(todo) <= n + 1

\* Whatever the buffer has of session s from line n on, a clear took the watcher back
\* over.
Passed(s, n) ==
    \A i \in DOMAIN buf : buf[i].ev.from[1] = s =>
        \A k \in Nat : n <= k /\ k <= buf[i].ev.from[2] => <<s, k>> \in tail.again

\* What the watcher is about to hand over are consecutive lines; the buffer has none of
\* them, nor a later one, yet, but for those a clear took it back over.
Fed ==
    Feeding =>
        LET todo == task[Watcher].todo IN
        /\ Consecutive(todo, Feeds, FeedEnd)
        /\ todo # <<>> => Passed(Feeds, First(todo))
        /\ FeedEnd <= Len(cli[Feeds])
        /\ Below(Feeds, FeedEnd + 1)

\* Between polls the buffer has nothing past the watcher's position but such lines.
Kept ==
    /\ \/ task[Watcher].pc \in {"ready", "cleared"}
       \/ task[Watcher].pc = "clear" /\ Claude
       => (tail.seeded => Passed(tail.sess, StartPos(tail.sess, tail.pos) + 1))
    /\ task[Watcher].pc = "load" => \A s \in Sessions : Below(s, 1)

IInv == Shapes /\ Numbered /\ Tasked /\ Lined /\ Fed /\ Kept /\ InOrder

-----------------------------------------------------------------------------
(* What the operators of the model do.                                       *)

\* A bounded non-empty set of numbers has a maximum: its distances from the bound have
\* a least one.
LEMMA MaxShape ==
  ASSUME NEW T, T # {}, NEW n \in Nat, T \subseteq 0..n
  PROVE  Max(T) \in T /\ \A x \in T : x <= Max(T)
  <1> DEFINE D == {n - t : t \in T}
  <1>1. D \subseteq Nat /\ D # {}
    OBVIOUS
  <1>2. \E d \in D : \A e \in D : ~ (<<e, d>> \in OpToRel(<, Nat))
    BY <1>1, NatLessThanWellFounded, WFMin
  <1>3. PICK d \in D : \A e \in D : ~ (<<e, d>> \in OpToRel(<, Nat))
    BY <1>2
  <1>4. \A e \in D : ~ (e < d)
    BY <1>1, <1>3 DEF OpToRel
  <1>5. PICK x \in T : d = n - x
    BY <1>3
  <1>6. \A y \in T : x >= y
    BY <1>4, <1>5
  <1>7. \E z \in T : \A y \in T : z >= y
    BY <1>6
  <1> QED
    BY <1>7 DEF Max

\* The newest session is one of the agent's.
LEMMA LatestShape == Latest \in Sessions
  <1> DEFINE T == {s \in Sessions : cli[s] # <<>>} \cup {1}
  <1>1. T \subseteq 0..MaxSessions /\ T \subseteq Sessions /\ T # {}
    BY BoundsAssumption DEF Sessions
  <1> QED
    BY <1>1, BoundsAssumption, MaxShape DEF Latest

\* Numbering continues after every row kept.
LEMMA LastRowSeqShape ==
  ASSUME NEW rows, NEW n \in Nat, \A r \in rows : r.seq \in 0..n
  PROVE  LastRowSeq(rows) \in 0..n /\ \A r \in rows : r.seq <= LastRowSeq(rows)
  <1> DEFINE T == {r.seq : r \in rows} \cup {0}
  <1>1. T \subseteq 0..n /\ T # {}
    OBVIOUS
  <1>2. Max(T) \in T /\ \A x \in T : x <= Max(T)
    BY <1>1, MaxShape
  <1> QED
    BY <1>1, <1>2 DEF LastRowSeq

\* A function on 1..n is a sequence of length n.
LEMMA FunctionShape ==
  ASSUME NEW S, NEW n \in Nat, NEW f \in [1..n -> S]
  PROVE  f \in Seq(S) /\ Len(f) = n /\ DOMAIN f = 1..n
  OBVIOUS

\* An element of a sequence is of its kind.
LEMMA ElementShape ==
  ASSUME NEW S, NEW q \in Seq(S), NEW i \in DOMAIN q
  PROVE  q[i] \in S
  OBVIOUS

\* The lines read from a transcript are recorded in its order.
LEMMA LinesShape ==
  ASSUME Shapes, NEW s \in Sessions, NEW a \in Nat \ {0}, NEW b \in Nat,
         a <= b + 1, b <= Len(cli[s])
  PROVE  /\ Lines(s, a, b) \in Seq(EvType) /\ Len(Lines(s, a, b)) = b - a + 1
         /\ DOMAIN Lines(s, a, b) = 1..(b - a + 1)
         /\ \A k \in DOMAIN Lines(s, a, b) : Lines(s, a, b)[k].from = <<s, a + k - 1>>
  <1> DEFINE n == b - a + 1
  <1>1. n \in Nat
    OBVIOUS
  <1>2. cli[s] \in Seq(Written) /\ Len(cli[s]) <= MaxLines
    <2>1. cli[s] \in Seq(Written) /\ Len(cli[s]) \in Nat /\ Len(cli[s]) <= spent.lines
          /\ spent.lines \in 0..MaxLines
      BY DEF Shapes
    <2> QED
      BY <2>1, BoundsAssumption
  <1>3. ASSUME NEW k \in 1..n
        PROVE  Line(s, a + k - 1) \in EvType /\ Line(s, a + k - 1).from = <<s, a + k - 1>>
    <2> DEFINE i == a + k - 1
    <2>1. i \in 1..Len(cli[s]) /\ i \in 0..MaxLines
      BY <1>2, BoundsAssumption
    <2>2. cli[s][i] \in Written
      BY <1>2, <2>1
    <2>3. s \in 0..MaxSessions
      BY BoundsAssumption DEF Sessions
    <2> QED
      BY <2>1, <2>2, <2>3 DEF Line, Ev, EvType, Written, Words
  <1> DEFINE f == Lines(s, a, b)
  <1>4. f = [k \in 1..n |-> Line(s, a + k - 1)]
    BY DEF Lines
  <1>5. f \in [1..n -> EvType] /\ \A k \in 1..n : f[k].from = <<s, a + k - 1>>
    BY <1>3, <1>4
  <1> HIDE DEF f
  <1>6. f \in Seq(EvType) /\ Len(f) = n /\ DOMAIN f = 1..n
    BY <1>1, <1>5, FunctionShape
  <1> QED
    BY <1>5, <1>6 DEF f

\* An event of conversation.send, and the task of one with nothing to do.
LEMMA SentShape ==
  ASSUME NEW text \in Texts
  PROVE  Ev("user", text, Typed) \in EvType /\ Ev("user", text, Typed).from = Typed
  <1>1. Typed \in (0..MaxSessions) \X (0..MaxLines)
    BY BoundsAssumption DEF Typed
  <1> QED
    BY <1>1 DEF Ev, EvType

\* A task with nothing to do is a task.
LEMMA IdleShape == IdleTask \in Work
  <1>1. NoEv \in EvType
    BY BoundsAssumption DEF NoEv, Ev, EvType, Typed
  <1> QED
    BY <1>1, BoundsAssumption DEF IdleTask, Work, Steps

\* A task that only moves to its next step.
LEMMA GotoShape ==
  ASSUME task \in [Tasks -> Work], NEW t \in Tasks, NEW l \in Steps, Goto(t, l)
  PROVE  /\ task' \in [Tasks -> Work]
         /\ task'[t].pc = l /\ task'[t].ev = task[t].ev /\ task'[t].seq = task[t].seq
         /\ task'[t].tag = task[t].tag /\ task'[t].todo = task[t].todo
         /\ task'[t].reload = task[t].reload /\ task'[t].to = task[t].to
         /\ \A x \in Tasks : x # t => task'[x] = task[x]
  <1>1. task[t] \in Work
    OBVIOUS
  <1> QED
    BY <1>1 DEF Goto, Work

-----------------------------------------------------------------------------
(* Shapes and Numbered are inductive.                                        *)

\* The ways a step changes what is recorded.
Recording ==
    \/ UNCHANGED Recorded
    \/ \E c \in Senders, text \in Texts : Send(c, text)
    \/ AppendLine
    \/ \E t \in Tasks : SaveEvent(t)
    \/ ResetBuf /\ store' = store
    \/ store' = {} /\ UNCHANGED <<buf, seq>>
    \/ Restart

\* There are no other ways.
LEMMA RecordingStep ==
  ASSUME [Next]_vars
  PROVE  Recording
  <1> USE DEF Recording, Recorded
  <1>1. CASE UNCHANGED vars
    BY <1>1 DEF vars
  <1>2. CASE SendStep
    <2>1. PICK c \in Senders : \/ \E text \in Texts : Send(c, text)
                               \/ Tag(c) \/ SaveEvent(c) \/ Publish(c)
                               \/ BeginSend(c) \/ WriteInput(c) \/ EndSend(c)
      BY <1>2 DEF SendStep
    <2>2. c \in Tasks
      BY DEF Tasks
    <2> QED
      BY <2>1, <2>2 DEF Tag, Publish, BeginSend, WriteInput, EndSend
  <1>3. CASE ClearStep
    BY <1>3 DEF ClearStep, Clear, Reset, ClearStore, StatOffset, ResetWatcherOffset, Cleared
  <1>4. CASE WatcherStep
    <2>1. CASE Poll \/ Seed \/ NextLine \/ EndPoll \/ DetectSwitch
      BY <2>1 DEF Poll, Seed, NextLine, EndPoll, DetectSwitch
    <2>2. CASE AppendLine
      BY <2>2
    <2>3. CASE SwitchStep
      BY <2>3 DEF SwitchStep, UpdateResumeSessionID, Reset, ClearStore, LoadSession, Rebase, Cleared
    <2>4. CASE Tag(Watcher) \/ SaveEvent(Watcher) \/ Publish(Watcher)
      BY <2>4 DEF Tag, Publish, Tasks
    <2> QED
      BY <1>4, <2>1, <2>2, <2>3, <2>4 DEF WatcherStep
  <1>5. CASE CliStep
    BY <1>5 DEF CliStep, CliReads, CliTyped, CliAnswers, CliNewSession
  <1>6. CASE Crash
    BY <1>6 DEF Crash
  <1>7. CASE Restart
    BY <1>7
  <1> QED
    BY <1>1, <1>2, <1>3, <1>4, <1>5, <1>6, <1>7 DEF Next

RecordShapes ==
    /\ buf \in Seq([seq : Nat, ev : EvType]) /\ seq \in Nat
    /\ store \subseteq [seq : Nat, ev : EvType, tag : Sessions]
    /\ \E n \in Nat : \A r \in store : r.seq <= n

\* An event is appended to the buffer under the next number.
LEMMA AppendShape ==
  ASSUME Shapes, Numbered, NEW ev \in EvType, seq' = seq + 1,
         buf' = Append(buf, [seq |-> seq + 1, ev |-> ev])
  PROVE  /\ buf' \in Seq([seq : Nat, ev : EvType]) /\ seq' \in Nat
         /\ Len(buf') = Len(buf) + 1 /\ buf'[Len(buf')].ev = ev
         /\ \A i \in DOMAIN buf : i \in DOMAIN buf' /\ buf'[i] = buf[i]
         /\ \A i \in DOMAIN buf' : i = Len(buf') \/ i \in DOMAIN buf
         /\ \A i \in DOMAIN buf' : buf'[i].seq = seq' - Len(buf') + i
  <1> DEFINE b == [seq |-> seq + 1, ev |-> ev]
  <1>1. b \in [seq : Nat, ev : EvType] /\ b.seq = seq + 1 /\ b.ev = ev
    BY DEF Shapes
  <1> HIDE DEF b
  <1>2. buf \in Seq([seq : Nat, ev : EvType]) /\ seq \in Nat /\ Len(buf) \in Nat
    BY DEF Shapes
  <1>3. /\ buf' \in Seq([seq : Nat, ev : EvType]) /\ Len(buf') = Len(buf) + 1
        /\ buf'[Len(buf')] = b /\ \A i \in 1..Len(buf) : buf'[i] = buf[i]
    BY <1>1, <1>2 DEF b
  <1>4. \A i \in 1..Len(buf) : buf[i].seq = seq - Len(buf) + i
    BY <1>2 DEF Numbered
  <1> DEFINE l == Len(buf)
  <1>5. /\ DOMAIN buf = 1..l /\ DOMAIN buf' = 1..l + 1 /\ Len(buf') = l + 1 /\ l \in Nat
        /\ buf'[l + 1] = b /\ \A i \in 1..l : buf'[i] = buf[i] /\ buf[i].seq = seq - l + i
    BY <1>2, <1>3, <1>4
  <1> HIDE DEF l
  <1>6. \A i \in DOMAIN buf' : buf'[i].seq = seq' - Len(buf') + i
    <2>1. ASSUME NEW i \in 1..l + 1
          PROVE  buf'[i].seq = (seq + 1) - (l + 1) + i
      <3>1. CASE i = l + 1
        BY <3>1, <1>1, <1>2, <1>5
      <3>2. CASE i \in 1..l
        <4>1. buf'[i].seq = seq - l + i
          BY <3>2, <1>5
        <4> QED
          BY ONLY <4>1, <3>2, <1>2, <1>5
      <3>3. i = l + 1 \/ i \in 1..l
        BY <1>5
      <3> QED
        BY <3>1, <3>2, <3>3
    <2>2. seq' = seq + 1 /\ Len(buf') = l + 1 /\ DOMAIN buf' = 1..l + 1
      BY <1>5
    <2> QED
      BY ONLY <2>1, <2>2
  <1>7. \A i \in DOMAIN buf : i \in DOMAIN buf' /\ buf'[i] = buf[i]
    BY <1>5
  <1>8. \A i \in DOMAIN buf' : i = Len(buf') \/ i \in DOMAIN buf
    BY <1>5
  <1> QED
    BY <1>1, <1>2, <1>3, <1>6, <1>7, <1>8

\* A row is saved under its number.
LEMMA SaveShape ==
  ASSUME Shapes, Numbered, Tasked, NEW t \in Tasks, SaveEvent(t)
  PROVE  /\ store' \subseteq [seq : Nat, ev : EvType, tag : Sessions]
         /\ \E n \in Nat : \A r \in store' : r.seq <= n
         /\ \A r, q \in store' : r.seq = q.seq => r = q
  <1>1. task[t] \in Work
    BY DEF Shapes
  <1> DEFINE w == Row(task[t].seq, task[t].ev, task[t].tag)
  <1>2. w \in [seq : Nat, ev : EvType, tag : Sessions]
    BY <1>1 DEF Row, Work, Tasked, SaveEvent
  <1>3. store' = {q \in store : q.seq # w.seq} \cup {w}
    BY DEF SaveEvent, Save
  <1> HIDE DEF w
  <1>4. store \subseteq [seq : Nat, ev : EvType, tag : Sessions]
    BY DEF Shapes
  <1>5. PICK n \in Nat : \A r \in store : r.seq <= n
    BY DEF Shapes
  <1>6. w.seq \in Nat /\ n + w.seq \in Nat
    BY <1>2
  <1>7. \A r \in store' : r.seq <= n + w.seq
    BY <1>2, <1>3, <1>4, <1>5
  <1>8. \A r, q \in store' : r.seq = q.seq => r = q
    BY <1>3 DEF Numbered
  <1> QED
    BY <1>2, <1>3, <1>4, <1>6, <1>7, <1>8

\* The buffer holds a history, and the rows are of the right form.
Refilled(history) ==
    /\ buf' \in Seq([seq : Nat, ev : EvType]) /\ seq' \in Nat
    /\ store' \subseteq [seq : Nat, ev : EvType, tag : Sessions]
    /\ \E m \in Nat : \A r \in store' : r.seq <= m
    /\ \A i \in DOMAIN buf' : buf'[i].seq = seq' - Len(buf') + i
    /\ \A r, q \in store' : r.seq = q.seq => r = q
    /\ DOMAIN buf' = DOMAIN history
    /\ \A i \in DOMAIN buf' : buf'[i].ev = history[i]

\* A history appended after number n, over rows none of which is past it.
LEMMA BackfillShape ==
  ASSUME NEW rows, NEW n \in Nat, NEW history \in Seq(EvType), dbSess \in Sessions,
         rows \subseteq [seq : Nat, ev : EvType, tag : Sessions],
         \A r \in rows : r.seq <= n, \A r, q \in rows : r.seq = q.seq => r = q,
         Backfill(rows, n, history)
  PROVE  Refilled(history)
  <1> DEFINE l == Len(history)
             New(i) == Row(n + i, history[i], dbSess)
  <1>1. l \in Nat /\ \A i \in 1..l : history[i] \in EvType
    OBVIOUS
  <1>2. /\ seq' = n + l
        /\ buf' = [i \in 1..l |-> [seq |-> n + i, ev |-> history[i]]]
        /\ store' = {r \in rows : r.seq \notin n + 1 .. n + l} \cup {New(i) : i \in 1..l}
    BY DEF Backfill
  <1>3. \A i \in 1..l : /\ [seq |-> n + i, ev |-> history[i]] \in [seq : Nat, ev : EvType]
                        /\ New(i) \in [seq : Nat, ev : EvType, tag : Sessions] /\ New(i).seq = n + i
    BY <1>1 DEF Row
  <1> HIDE DEF New, l
  <1>10. buf' \in [1..l -> [seq : Nat, ev : EvType]]
    BY <1>2, <1>3
  <1>4. buf' \in Seq([seq : Nat, ev : EvType]) /\ Len(buf') = l /\ DOMAIN buf' = 1..l
    BY <1>1, <1>10, FunctionShape
  <1>5. \A i \in DOMAIN buf' : buf'[i].seq = n + i /\ buf'[i].ev = history[i]
    BY <1>2
  <1>6. \A r \in store' : r.seq <= n + l /\ r \in [seq : Nat, ev : EvType, tag : Sessions]
    BY <1>1, <1>2, <1>3
  <1>7. \A r, q \in store' : r.seq = q.seq => r = q
    <2> SUFFICES ASSUME NEW r \in store', NEW q \in store', r.seq = q.seq PROVE r = q
      OBVIOUS
    <2>1. CASE r \in rows /\ q \in rows
      BY <2>1
    <2>2. CASE \E i \in 1..l, j \in 1..l : r = New(i) /\ q = New(j)
      BY <2>2, <1>1, <1>3
    <2>3. CASE r \in rows /\ \E i \in 1..l : q = New(i)
      BY <2>3, <1>1, <1>3
    <2>4. CASE q \in rows /\ \E i \in 1..l : r = New(i)
      BY <2>4, <1>1, <1>3
    <2> QED
      BY <1>2, <2>1, <2>2, <2>3, <2>4
  <1>8. n + l \in Nat /\ seq' \in Nat /\ \A i \in DOMAIN buf' : n + i = seq' - Len(buf') + i
    BY <1>1, <1>2, <1>4
  <1>9. DOMAIN history = 1..l
    BY DEF l
  <1> QED
    BY <1>4, <1>5, <1>6, <1>7, <1>8, <1>9 DEF Refilled

\* A restart leaves in the buffer the newest session's lines, or nothing.
LEMMA RestartShape ==
  ASSUME Shapes, Numbered, Restart
  PROVE  \E history \in Seq(EvType) :
             history \in {<<>>, Lines(Latest, 1, Len(cli[Latest]))} /\ Refilled(history)
  <1> DEFINE kept    == {r \in store : r.tag = dbSess}
             lastSeq == LastRowSeq(kept)
             lines   == Lines(Latest, 1, Len(cli[Latest]))
  <1>1. PICK n \in Nat : \A r \in store : r.seq <= n
    BY DEF Shapes
  <1>2. store \subseteq [seq : Nat, ev : EvType, tag : Sessions] /\ dbSess \in Sessions
    BY DEF Shapes
  <1>3. lastSeq \in Nat /\ \A r \in kept : r.seq <= lastSeq
    <2>1. \A r \in kept : r.seq \in 0..n
      BY <1>1, <1>2
    <2> QED
      BY <2>1, LastRowSeqShape
  <1>4. lines \in Seq(EvType)
    <2> DEFINE len == Len(cli[Latest])
    <2>1. Latest \in Sessions /\ len \in Nat
      BY LatestShape DEF Shapes
    <2>2. 1 <= len + 1 /\ len <= Len(cli[Latest])
      BY <2>1
    <2> HIDE DEF len
    <2>a. ASSUME NEW s \in Sessions, NEW b \in Nat, b <= Len(cli[s])
          PROVE  Lines(s, 1, b) \in Seq(EvType)
      <3>1. 1 \in Nat \ {0} /\ 1 <= b + 1
        OBVIOUS
      <3> QED
        BY <2>a, <3>1, LinesShape
    <2>3. Lines(Latest, 1, len) \in Seq(EvType)
      BY <2>1, <2>2, <2>a
    <2> QED
      BY <2>3 DEF len
  <1>5. <<>> \in Seq(EvType)
    OBVIOUS
  <1>6. \A r, q \in kept : r.seq = q.seq => r = q
    BY DEF Numbered
  <1>7. \/ Backfill(kept, lastSeq, lines) \/ Backfill({}, 0, lines)
        \/ Backfill(kept, lastSeq, <<>>)
    BY DEF Restart
  <1>8. kept \subseteq [seq : Nat, ev : EvType, tag : Sessions]
    BY <1>2
  <1> HIDE DEF kept, lastSeq, lines
  <1>9. CASE Backfill(kept, lastSeq, lines)
    BY <1>9, <1>2, <1>3, <1>4, <1>6, <1>8, BackfillShape DEF lines
  <1>10. CASE Backfill({}, 0, lines)
    BY <1>10, <1>2, <1>4, BackfillShape DEF lines
  <1>11. CASE Backfill(kept, lastSeq, <<>>)
    BY <1>11, <1>2, <1>3, <1>5, <1>6, <1>8, BackfillShape
  <1> QED
    BY <1>7, <1>9, <1>10, <1>11

\* Every step keeps the buffer and the rows numbered.
LEMMA RecordStep ==
  ASSUME Shapes, Numbered, Tasked, [Next]_vars
  PROVE  RecordShapes' /\ Numbered'
  <1> USE DEF RecordShapes, Numbered
  <1>0. Recording /\ RecordShapes
    BY RecordingStep DEF Shapes
  <1>1. CASE UNCHANGED Recorded
    BY <1>1, <1>0 DEF Recorded
  <1>2. CASE \E c \in Senders, text \in Texts : Send(c, text)
    <2>1. PICK text \in Texts : /\ seq' = seq + 1
                                /\ buf' = Append(buf, [seq |-> seq + 1, ev |-> Ev("user", text, Typed)])
                                /\ store' = store
      BY <1>2 DEF Send, AppendEvent
    <2>2. Ev("user", text, Typed) \in EvType
      BY SentShape
    <2> QED
      BY <1>0, <2>1, <2>2, AppendShape
  <1>3. CASE AppendLine
    <2> DEFINE w == task[Watcher]
    <2>1. w \in Work /\ w.todo # <<>>
      BY <1>3 DEF AppendLine, Tasked, Shapes, Tasks
    <2>2. Head(w.todo) \in EvType
      BY <2>1 DEF Work
    <2>3. /\ seq' = seq + 1 /\ store' = store
          /\ buf' = Append(buf, [seq |-> seq + 1, ev |-> Head(w.todo)])
      BY <1>3 DEF AppendLine
    <2> QED
      BY <1>0, <2>2, <2>3, AppendShape
  <1>4. CASE \E t \in Tasks : SaveEvent(t)
    <2>1. PICK t \in Tasks : SaveEvent(t)
      BY <1>4
    <2>2. buf' = buf /\ seq' = seq
      BY <2>1 DEF SaveEvent
    <2> QED
      BY <1>0, <2>1, <2>2, SaveShape
  <1>5. CASE ResetBuf /\ store' = store
    BY <1>5, <1>0 DEF ResetBuf
  <1>6. CASE store' = {} /\ UNCHANGED <<buf, seq>>
    BY <1>6, <1>0
  <1>7. CASE Restart
    BY <1>7, RestartShape DEF Refilled
  <1> QED
    BY <1>0, <1>1, <1>2, <1>3, <1>4, <1>5, <1>6, <1>7 DEF Recording

-----------------------------------------------------------------------------
(* What a step does to the rest of the state.                                *)

RestShapes ==
    /\ world \in Worlds /\ up \in BOOLEAN /\ sending \in BOOLEAN
    /\ sess \in Sessions /\ dbSess \in Sessions /\ cliSess \in Sessions
    /\ cli \in [Sessions -> Seq(Written)] /\ pane \in Seq(Words)
    /\ spent \in [sends : Nat, clears : Nat, crashes : Nat, lines : 0..MaxLines]
    /\ \A s \in Sessions : Len(cli[s]) <= spent.lines
    /\ tail \in TailType
    /\ task \in [Tasks -> Work]

Tagged == \A t \in Tasks : task[t].pc = "save" => task[t].tag \in Sessions

\* No line enters the buffer.
NoLine ==
    \/ buf' = buf \/ buf' = <<>>
    \/ \E text \in Texts, n \in Nat : buf' = Append(buf, [seq |-> n, ev |-> Ev("user", text, Typed)])

\* A step that leaves the watcher where it is.
Aside ==
    /\ task'[Watcher] = task[Watcher] /\ UNCHANGED <<world, up, tail>> /\ NoLine
    /\ \A s \in Sessions : Len(cli'[s]) >= Len(cli[s])

\* The watcher, the clearer and the senders are different tasks.
LEMMA TasksShape ==
  /\ Watcher \in Tasks /\ Clearer \in Tasks /\ Watcher # Clearer
  /\ \A c \in Senders : c \in Tasks /\ c # Watcher /\ c # Clearer
  BY TasksAssumption DEF Tasks, Watcher, Clearer

\* One more request or crash.
LEMMA SpendShape ==
  ASSUME Shapes, NEW k \in {"sends", "clears", "crashes"}, Spend(k)
  PROVE  /\ spent' \in [sends : Nat, clears : Nat, crashes : Nat, lines : 0..MaxLines]
         /\ spent'.lines = spent.lines
  <1>1. spent \in [sends : Nat, clears : Nat, crashes : Nat, lines : 0..MaxLines]
    BY DEF Shapes
  <1>2. CASE k = "sends"
    BY <1>1, <1>2 DEF Spend
  <1>3. CASE k = "clears"
    BY <1>1, <1>3 DEF Spend
  <1>4. CASE k = "crashes"
    BY <1>1, <1>4 DEF Spend
  <1> QED
    BY <1>2, <1>3, <1>4

\* A handler of conversation.send leaves the watcher where it is.
LEMMA SenderStep ==
  ASSUME Shapes, Numbered, Tasked, NEW c \in Senders,
         \/ \E text \in Texts : Send(c, text)
         \/ Tag(c) \/ SaveEvent(c) \/ Publish(c)
         \/ BeginSend(c) \/ WriteInput(c) \/ EndSend(c)
  PROVE  RestShapes' /\ Tagged' /\ Aside
  <1>0. /\ task \in [Tasks -> Work] /\ c \in Tasks /\ task[c] \in Work
        /\ Watcher \in Tasks /\ c # Watcher /\ Tagged /\ RestShapes
    BY TasksShape DEF Shapes, RestShapes, Tagged, Tasked
  <1>1. CASE \E text \in Texts : Send(c, text)
    <2>1. PICK text \in Texts : Send(c, text)
      BY <1>1
    <2> DEFINE ev == Ev("user", text, Typed)
    <2>2. ev \in EvType /\ seq + 1 \in Nat
      BY SentShape DEF Shapes
    <2>3. /\ buf' = Append(buf, [seq |-> seq + 1, ev |-> ev])
          /\ task' = [task EXCEPT ![c].pc = "tag", ![c].ev = ev, ![c].seq = seq + 1]
          /\ UNCHANGED <<world, up, sess, dbSess, cli, cliSess, pane, tail, sending>>
          /\ Spend("sends")
      BY <2>1 DEF Send, AppendEvent, Names, External
    <2>4. NoLine
      BY <2>2, <2>3 DEF NoLine
    <2> HIDE DEF ev
    <2>5. task' \in [Tasks -> Work]
      BY <1>0, <2>2, <2>3 DEF Work, Steps
    <2>6. task'[c].pc = "tag" /\ \A t \in Tasks : t # c => task'[t] = task[t]
      BY <1>0, <2>3 DEF Work
    <2>7. spent' \in [sends : Nat, clears : Nat, crashes : Nat, lines : 0..MaxLines] /\ spent'.lines = spent.lines
      BY <2>3, SpendShape
    <2>8. \A s \in Sessions : Len(cli'[s]) >= Len(cli[s])
      BY <1>0, <2>3 DEF RestShapes
    <2> QED
      BY <1>0, <2>3, <2>4, <2>5, <2>6, <2>7, <2>8 DEF RestShapes, Tagged, Aside
  <1>2. CASE Tag(c)
    <2>1. /\ task' = [task EXCEPT ![c].pc = "save", ![c].tag = sess]
          /\ UNCHANGED <<world, up, sess, dbSess, buf, cli, cliSess, pane, tail, sending, spent>>
      BY <1>2 DEF Tag, Names, Recorded, External
    <2>2. sess \in Sessions /\ sess \in 0..MaxSessions
      BY BoundsAssumption DEF Shapes, Sessions
    <2>3. task' \in [Tasks -> Work]
      BY <1>0, <2>1, <2>2 DEF Work, Steps
    <2>4. task'[c].tag = sess /\ \A t \in Tasks : t # c => task'[t] = task[t]
      BY <1>0, <2>1 DEF Work
    <2>5. \A s \in Sessions : Len(cli'[s]) >= Len(cli[s])
      BY <1>0, <2>1 DEF RestShapes
    <2> QED
      BY <1>0, <2>1, <2>2, <2>3, <2>4, <2>5 DEF RestShapes, Tagged, Aside, NoLine
  <1>3. CASE SaveEvent(c) \/ Publish(c) \/ BeginSend(c)
    <2>1. PICK l \in {"next", "publish", "write", "begin"} : Goto(c, l)
      BY <1>3 DEF SaveEvent, Publish, BeginSend
    <2>2. UNCHANGED <<world, up, sess, dbSess, buf, cli, cliSess, pane, tail, spent>> /\ sending' \in BOOLEAN
      BY <1>0, <1>3 DEF SaveEvent, Publish, BeginSend, Names, Recorded, External, RestShapes
    <2>3. /\ task' \in [Tasks -> Work] /\ task'[c].pc = l
          /\ \A t \in Tasks : t # c => task'[t] = task[t]
      BY <1>0, <2>1, GotoShape DEF Steps
    <2>4. \A s \in Sessions : Len(cli'[s]) >= Len(cli[s])
      BY <1>0, <2>2 DEF RestShapes
    <2> QED
      BY <1>0, <2>2, <2>3, <2>4 DEF RestShapes, Tagged, Aside, NoLine
  <1>4. CASE WriteInput(c)
    <2>1. /\ task' = [task EXCEPT ![c] = IF Claude THEN IdleTask ELSE [@ EXCEPT !.pc = "end"]]
          /\ pane' = Append(pane, task[c].ev.text)
          /\ UNCHANGED <<world, up, sess, dbSess, buf, cli, cliSess, tail, sending, spent>>
      BY <1>4 DEF WriteInput, Types, Names, Recorded
    <2> DEFINE new == IF Claude THEN IdleTask ELSE [task[c] EXCEPT !.pc = "end"]
    <2>2. new \in Work /\ new.pc # "save"
      BY <1>0, IdleShape DEF Work, Steps, IdleTask
    <2>3. task' = [task EXCEPT ![c] = new]
      BY <2>1
    <2> HIDE DEF new
    <2>4. /\ task' \in [Tasks -> Work] /\ task'[c].pc # "save"
          /\ \A t \in Tasks : t # c => task'[t] = task[t]
      BY <1>0, <2>2, <2>3
    <2>5. pane' \in Seq(Words)
      <3>1. task[c].ev.text \in Words
        BY <1>0 DEF Work, EvType, Words
      <3> QED
        BY <1>0, <2>1, <3>1 DEF RestShapes
    <2>6. \A s \in Sessions : Len(cli'[s]) >= Len(cli[s])
      BY <1>0, <2>1 DEF RestShapes
    <2> QED
      BY <1>0, <2>1, <2>4, <2>5, <2>6 DEF RestShapes, Tagged, Aside, NoLine
  <1>5. CASE EndSend(c)
    <2>1. /\ task' = [task EXCEPT ![c] = IdleTask] /\ sending' = FALSE
          /\ UNCHANGED <<world, up, sess, dbSess, buf, cli, cliSess, pane, tail, spent>>
      BY <1>5 DEF EndSend, Names, Recorded, External
    <2>2. /\ task' \in [Tasks -> Work] /\ task'[c].pc # "save"
          /\ \A t \in Tasks : t # c => task'[t] = task[t]
      BY <1>0, <2>1, IdleShape DEF IdleTask
    <2>3. \A s \in Sessions : Len(cli'[s]) >= Len(cli[s])
      BY <1>0, <2>1 DEF RestShapes
    <2> QED
      BY <1>0, <2>1, <2>2, <2>3 DEF RestShapes, Tagged, Aside, NoLine
  <1> QED
    BY <1>1, <1>2, <1>3, <1>4, <1>5

\* What the clearer remembers of the watcher's file.
LEMMA StatShape ==
  ASSUME Shapes, StatOffset
  PROVE  /\ task' \in [Tasks -> Work] /\ task'[Clearer].pc = "assign"
         /\ task'[Clearer].ev = task[Clearer].ev
         /\ \A t \in Tasks : t # Clearer => task'[t] = task[t]
  <1> DEFINE n == Len(cli[tail.sess])
  <1>1. task \in [Tasks -> Work] /\ Clearer \in Tasks /\ task[Clearer] \in Work
    BY TasksShape DEF Shapes
  <1>2. task' = [task EXCEPT ![Clearer].pc = "assign", ![Clearer].size = n]
    BY DEF StatOffset
  <1>3. n \in 0..MaxLines
    <2>1. tail.sess \in Sessions /\ cli \in [Sessions -> Seq(Written)]
          /\ Len(cli[tail.sess]) <= spent.lines /\ spent.lines \in 0..MaxLines
      BY DEF Shapes, TailType
    <2> QED
      BY <2>1, BoundsAssumption
  <1> HIDE DEF n
  <1> QED
    BY <1>1, <1>2, <1>3 DEF Work, Steps

\* The steps of conversation.clear; only the offset's moves the watcher.
LEMMA ClearerStep ==
  ASSUME Shapes, Numbered, Tasked, ClearStep
  PROVE  /\ RestShapes' /\ Tagged'
         /\ Aside \/ ResetWatcherOffset
         /\ task'[Watcher] = task[Watcher]
  <1>0. /\ task \in [Tasks -> Work] /\ Clearer \in Tasks /\ task[Clearer] \in Work
        /\ Watcher \in Tasks /\ Clearer # Watcher /\ Tagged /\ RestShapes
    BY TasksShape DEF Shapes, RestShapes, Tagged, Tasked
  <1>1. CASE Clear \/ Reset(Clearer, "clear")
               \/ ClearStore(Clearer, IF Claude THEN "stat" ELSE "cleared")
    <2>1. PICK l \in {"reset", "clear", "stat", "cleared"} : Goto(Clearer, l)
      BY <1>1 DEF Clear, Reset, ClearStore
    <2>2. /\ UNCHANGED <<world, up, sess, dbSess, cli, cliSess, pane, tail, sending>>
          /\ buf' = buf \/ buf' = <<>>
      BY <1>1 DEF Clear, Reset, ResetBuf, ClearStore, Names, Recorded, External
    <2>3. /\ spent' \in [sends : Nat, clears : Nat, crashes : Nat, lines : 0..MaxLines]
          /\ spent'.lines = spent.lines
      BY <1>0, <1>1, SpendShape DEF Clear, Reset, ClearStore, RestShapes
    <2>4. /\ task' \in [Tasks -> Work] /\ task'[Clearer].pc = l
          /\ \A t \in Tasks : t # Clearer => task'[t] = task[t]
      BY <1>0, <2>1, GotoShape DEF Steps
    <2>5. \A s \in Sessions : Len(cli'[s]) >= Len(cli[s])
      BY <1>0, <2>2 DEF RestShapes
    <2> QED
      BY <1>0, <2>2, <2>3, <2>4, <2>5 DEF RestShapes, Tagged, Aside, NoLine
  <1>2. CASE ResetWatcherOffset
    <2> DEFINE size == task[Clearer].size
               new  == IF Polling THEN tail.again
                       ELSE tail.again \cup Retaken(tail.sess, size, tail.pos)
    <2>1. /\ Goto(Clearer, "cleared")
          /\ tail' = [tail EXCEPT !.pos = size, !.again = new]
          /\ UNCHANGED <<world, up, sess, dbSess, cli, cliSess, pane, sending, spent>>
      BY <1>0, <1>2 DEF ResetWatcherOffset, Names, External, RestShapes, TailType
    <2>2. /\ task' \in [Tasks -> Work] /\ task'[Clearer].pc = "cleared"
          /\ \A t \in Tasks : t # Clearer => task'[t] = task[t]
      BY <1>0, <2>1, GotoShape DEF Steps
    <2>3. tail' \in TailType
      <3>1. size \in 0..MaxLines /\ tail.sess \in Sessions /\ tail.pos \in Nat
        BY <1>0, BoundsAssumption DEF RestShapes, TailType, Work
      <3>2. Retaken(tail.sess, size, tail.pos) \subseteq Sessions \X Nat
        <4>1. StartPos(tail.sess, size) \in Nat
          BY <3>1, BoundsAssumption DEF StartPos
        <4> QED
          BY <3>1, <4>1 DEF Retaken
      <3>3. new \in SUBSET (Sessions \X Nat)
        BY <1>0, <3>2 DEF RestShapes, TailType
      <3> HIDE DEF new, size
      <3> QED
        BY <1>0, <2>1, <3>1, <3>3 DEF RestShapes, TailType
    <2> QED
      BY <1>0, <1>2, <2>1, <2>2, <2>3 DEF RestShapes, Tagged
  <1>4. CASE StatOffset
    <2>1. UNCHANGED <<world, up, sess, dbSess, buf, cli, cliSess, pane, tail, sending, spent>>
      BY <1>4 DEF StatOffset, Names, Recorded, External
    <2>3. /\ task' \in [Tasks -> Work] /\ task'[Clearer].pc = "assign"
          /\ \A t \in Tasks : t # Clearer => task'[t] = task[t]
      BY <1>4, StatShape
    <2>4. \A s \in Sessions : Len(cli'[s]) >= Len(cli[s])
      BY <1>0, <2>1 DEF RestShapes
    <2> QED
      BY <1>0, <2>1, <2>3, <2>4 DEF RestShapes, Tagged, Aside, NoLine
  <1>3. CASE Cleared(Clearer)
    <2>1. /\ task' = [task EXCEPT ![Clearer] = IdleTask]
          /\ UNCHANGED <<world, up, sess, dbSess, buf, cli, cliSess, pane, tail, sending, spent>>
      BY <1>3 DEF Cleared, Names, Recorded, External
    <2>2. /\ task' \in [Tasks -> Work] /\ task'[Clearer].pc # "save"
          /\ \A t \in Tasks : t # Clearer => task'[t] = task[t]
      BY <1>0, <2>1, IdleShape DEF IdleTask
    <2>3. \A s \in Sessions : Len(cli'[s]) >= Len(cli[s])
      BY <1>0, <2>1 DEF RestShapes
    <2> QED
      BY <1>0, <2>1, <2>2, <2>3 DEF RestShapes, Tagged, Aside, NoLine
  <1> QED
    BY <1>1, <1>2, <1>3, <1>4 DEF ClearStep

\* The CLI only adds to its transcripts.
LEMMA WriteShape ==
  ASSUME Shapes, NEW role \in {"user", "assistant"}, NEW text \in Words, Write(role, text)
  PROVE  /\ cli' \in [Sessions -> Seq(Written)]
         /\ spent' \in [sends : Nat, clears : Nat, crashes : Nat, lines : 0..MaxLines]
         /\ \A s \in Sessions : Len(cli'[s]) <= spent'.lines /\ Len(cli'[s]) >= Len(cli[s])
  <1> DEFINE new == [role |-> role, text |-> text]
             n   == spent.lines
  <1>1. /\ cli' = [cli EXCEPT ![cliSess] = Append(@, new)] /\ n < world.lines
        /\ spent' = [spent EXCEPT !.lines = n + 1]
    BY DEF Write, Spend
  <1>2. /\ cli \in [Sessions -> Seq(Written)] /\ cliSess \in Sessions /\ world.lines \in 0..MaxLines
        /\ spent \in [sends : Nat, clears : Nat, crashes : Nat, lines : 0..MaxLines]
        /\ n \in 0..MaxLines /\ \A s \in Sessions : Len(cli[s]) <= n
    BY WorldsAssumption DEF Shapes, World
  <1>3. new \in Written
    BY DEF Written
  <1> HIDE DEF new, n
  <1>4. n + 1 \in 0..MaxLines
    BY <1>1, <1>2, BoundsAssumption
  <1>5. spent' \in [sends : Nat, clears : Nat, crashes : Nat, lines : 0..MaxLines] /\ spent'.lines = n + 1
    BY <1>1, <1>2, <1>4
  <1>6. \A s \in Sessions : cli[s] \in Seq(Written) /\ Len(cli[s]) \in Nat
    BY <1>2
  <1>7. cli' \in [Sessions -> Seq(Written)]
    BY <1>1, <1>2, <1>3
  <1>8. \A s \in Sessions : Len(cli'[s]) = IF s = cliSess THEN Len(cli[s]) + 1 ELSE Len(cli[s])
    BY <1>1, <1>2, <1>3, <1>6
  <1>9. ASSUME NEW s \in Sessions
        PROVE  Len(cli'[s]) <= n + 1 /\ Len(cli'[s]) >= Len(cli[s])
    <2>1. Len(cli[s]) \in Nat /\ Len(cli[s]) <= n /\ n \in Nat
      BY <1>2, <1>6, BoundsAssumption
    <2>2. Len(cli'[s]) = Len(cli[s]) + 1 \/ Len(cli'[s]) = Len(cli[s])
      BY <1>8
    <2> QED
      BY ONLY <2>1, <2>2
  <1> QED
    BY <1>5, <1>7, <1>9

\* The CLI only writes lines, or moves to its next session.
LEMMA CliStepShape ==
  ASSUME Shapes, Tasked, CliStep
  PROVE  RestShapes' /\ Tagged' /\ Aside
  <1>0. RestShapes /\ Tagged
    BY DEF Shapes, RestShapes, Tagged, Tasked
  <1>1. CASE CliReads
    <2>1. /\ Write("user", Head(pane)) /\ pane' = Tail(pane) /\ pane # <<>>
          /\ UNCHANGED <<world, up, buf, sess, dbSess, cliSess, tail, task, sending>>
      BY <1>1 DEF CliReads, Recorded, Names
    <2>2. Head(pane) \in Words /\ pane' \in Seq(Words)
      BY <1>0, <2>1 DEF RestShapes
    <2> QED
      BY <1>0, <2>1, <2>2, WriteShape DEF RestShapes, Tagged, Aside, NoLine
  <1>2. CASE CliAnswers \/ \E text \in Texts : CliTyped(text)
    <2>1. \E role \in {"user", "assistant"}, text \in Words : Write(role, text)
      BY <1>2 DEF CliAnswers, CliTyped, Words
    <2>2. UNCHANGED <<world, up, buf, sess, dbSess, cliSess, pane, tail, task, sending>>
      BY <1>2 DEF CliAnswers, CliTyped, Recorded, Names
    <2> QED
      BY <1>0, <2>1, <2>2, WriteShape DEF RestShapes, Tagged, Aside, NoLine
  <1>3. CASE CliNewSession
    <2>1. /\ cliSess < world.sessions /\ cliSess' = cliSess + 1
          /\ UNCHANGED <<world, up, buf, sess, dbSess, cli, pane, tail, task, sending, spent>>
      BY <1>3 DEF CliNewSession, Recorded, Names
    <2>2. cliSess' \in Sessions
      <3>1. world \in World /\ cliSess \in Sessions
        BY <1>0, WorldsAssumption DEF RestShapes
      <3>2. world.sessions \in 1..MaxSessions
        BY <3>1 DEF World
      <3> QED
        BY <2>1, <3>1, <3>2, BoundsAssumption DEF Sessions
    <2>3. \A s \in Sessions : Len(cli'[s]) >= Len(cli[s])
      BY <1>0, <2>1 DEF RestShapes
    <2> QED
      BY <1>0, <2>1, <2>2, <2>3 DEF RestShapes, Tagged, Aside, NoLine
  <1> QED
    BY <1>1, <1>2, <1>3 DEF CliStep

-----------------------------------------------------------------------------
(* What the watcher's steps do.                                              *)

\* The watcher, and what it has at hand, after the step.
Moves(l, todo, reload, to) ==
    /\ task'[Watcher].pc = l /\ task'[Watcher].todo = todo
    /\ task'[Watcher].reload = reload /\ task'[Watcher].to = to

Tails(s, pos, end, seeded) ==
    tail' = [sess |-> s, pos |-> pos, end |-> end, seeded |-> seeded, again |-> tail.again]

Polls ==
    LET n == Len(cli[tail.sess]) IN
    /\ task[Watcher].pc = "ready" /\ UNCHANGED <<buf, store, sess>> /\ tail.seeded
    /\ Moves("next", Lines(tail.sess, StartPos(tail.sess, tail.pos) + 1, n), task[Watcher].reload, task[Watcher].to)
    /\ Tails(tail.sess, tail.pos, n, tail.seeded)

Seeds ==
    /\ task[Watcher].pc = "ready" /\ task' = task /\ UNCHANGED <<buf, store, sess>>
    /\ Tails(tail.sess, Len(cli[tail.sess]), tail.end, TRUE)

Skips ==
    LET w == task[Watcher] IN
    /\ w.pc = "next" /\ w.todo # <<>> /\ UNCHANGED <<buf, store, sess, tail>>
    /\ Moves("next", Tail(w.todo), w.reload, w.to) \/ Moves("append", w.todo, w.reload, w.to)

FeedsOne ==
    LET w == task[Watcher] IN
    /\ w.pc = "append" /\ w.todo # <<>> /\ UNCHANGED <<store, sess, tail>>
    /\ seq' = seq + 1 /\ buf' = Append(buf, [seq |-> seq + 1, ev |-> Head(w.todo)])
    /\ Moves("tag", Tail(w.todo), w.reload, w.to) /\ task'[Watcher].ev = Head(w.todo)

Carries ==
    LET w == task[Watcher] IN
    /\ w.pc \in {"tag", "save", "publish"} /\ UNCHANGED <<buf, sess, tail>>
    /\ \/ /\ w.pc = "tag" /\ store' = store /\ Moves("save", w.todo, w.reload, w.to)
          /\ task'[Watcher].ev = w.ev /\ task'[Watcher].tag = sess
       \/ /\ w.pc = "save" /\ store' = Save(store, Row(w.seq, w.ev, w.tag))
          /\ \E l \in {"publish", "next"} : Moves(l, w.todo, w.reload, w.to)
       \/ w.pc = "publish" /\ store' = store /\ Moves("next", w.todo, w.reload, w.to)

EndsPoll ==
    /\ task[Watcher].pc = "next" /\ task[Watcher].todo = <<>> /\ ~task[Watcher].reload
    /\ UNCHANGED <<buf, store, sess>> /\ Moves("ready", <<>>, FALSE, 0)
    /\ Tails(tail.sess, tail.end, tail.end, tail.seeded)

Detects ==
    LET w == task[Watcher] IN
    /\ w.pc = "ready" /\ Latest # tail.sess
    /\ UNCHANGED <<buf, store, sess>> /\ Moves("update", w.todo, w.reload, Latest)
    /\ \/ ~Claude /\ tail' = tail
       \/ tail.seeded /\ Tails(Latest, 0, tail.end, TRUE)

Updates ==
    LET w == task[Watcher] IN
    /\ w.pc = "update" /\ UNCHANGED <<buf, store, tail>> /\ sess' = w.to
    /\ Moves(IF Claude THEN "reset" ELSE "clear", w.todo, w.reload, w.to)

Resets ==
    LET w == task[Watcher] IN
    /\ w.pc = "reset" /\ buf' = <<>> /\ UNCHANGED <<store, sess, tail>>
    /\ Moves(IF Claude THEN "clear" ELSE "load", w.todo, w.reload, w.to)

Clears ==
    LET w == task[Watcher] IN
    /\ w.pc = "clear" /\ store' = {} /\ UNCHANGED <<buf, sess, tail>>
    /\ Moves(IF Claude THEN "cleared" ELSE "reset", w.todo, w.reload, w.to)

Loads ==
    LET w == task[Watcher] IN
    /\ w.pc = "load" /\ UNCHANGED <<buf, store, sess, tail>>
    /\ Moves("next", Lines(w.to, 1, Len(cli[w.to])), TRUE, w.to)

Rebases ==
    LET w == task[Watcher]
        n == Len(cli[w.to])
    IN
    /\ w.pc = "next" /\ w.todo = <<>> /\ w.reload /\ UNCHANGED <<buf, store, sess>>
    /\ Moves("cleared", w.todo, w.reload, w.to) /\ Tails(w.to, n, n, TRUE)

Finishes ==
    /\ task[Watcher].pc = "cleared" /\ UNCHANGED <<buf, store, sess, tail>>
    /\ Moves("ready", <<>>, FALSE, 0)

Attends ==
    /\ UNCHANGED <<world, up, cli, spent>>
    /\ \A t \in Tasks : t # Watcher => task'[t] = task[t]
    /\ \/ Polls \/ Seeds \/ Skips \/ FeedsOne \/ Carries \/ EndsPoll \/ Detects
       \/ Updates \/ Resets \/ Clears \/ Loads \/ Rebases \/ Finishes

\* A step of the watcher's goroutine is of one of these kinds.
LEMMA WatcherStepShape ==
  ASSUME Shapes, Tasked, WatcherStep
  PROVE  RestShapes' /\ Tagged' /\ Attends
  <1> DEFINE w == task[Watcher]
  <1>0. /\ task \in [Tasks -> Work] /\ Watcher \in Tasks /\ w \in Work /\ RestShapes /\ Tagged
        /\ w.todo \in Seq(EvType) /\ w.to \in 0..MaxSessions /\ w.seq \in Nat /\ w.ev \in EvType
        /\ w.pc \in {"update", "load"} \/ w.reload => w.to \in Sessions
        /\ w.pc = "append" => w.todo # <<>>
    BY TasksShape DEF Shapes, RestShapes, Tagged, Tasked, Work
  <1>a. /\ tail \in TailType
        /\ tail.sess \in Sessions /\ tail.pos \in 0..MaxLines /\ tail.end \in 0..MaxLines
        /\ tail.seeded \in BOOLEAN
        /\ tail = [sess |-> tail.sess, pos |-> tail.pos, end |-> tail.end, seeded |-> tail.seeded,
                    again |-> tail.again]
        /\ tail.again \in SUBSET (Sessions \X Nat)
    BY <1>0 DEF RestShapes, TailType
  <1>b. \A s \in Sessions : Len(cli[s]) \in 0..MaxLines
    <2>1. ASSUME NEW s \in Sessions
          PROVE  cli[s] \in Seq(Written) /\ Len(cli[s]) \in Nat /\ Len(cli[s]) <= spent.lines
                 /\ spent.lines \in 0..MaxLines
      BY <1>0 DEF RestShapes
    <2> QED
      BY <2>1, BoundsAssumption
  <1>c. ASSUME UNCHANGED <<world, up, cli, sess, dbSess, cliSess, pane, sending, spent>>,
               tail' \in TailType,
               task' \in [Tasks -> Work], \A t \in Tasks : t # Watcher => task'[t] = task[t],
               task'[Watcher].pc = "save" => task'[Watcher].tag \in Sessions
        PROVE  RestShapes' /\ Tagged'
    BY <1>0, <1>c DEF RestShapes, Tagged
  <1>1. CASE Poll
    <2> DEFINE s == tail.sess
               n == Len(cli[tail.sess])
               from == StartPos(tail.sess, tail.pos)
               todo == Lines(tail.sess, from + 1, n)
    <2>1. /\ w.pc = "ready" /\ tail.seeded /\ tail' = [tail EXCEPT !.end = n]
          /\ task' = [task EXCEPT ![Watcher].pc = "next", ![Watcher].todo = todo]
          /\ UNCHANGED <<world, up, cli, sess, dbSess, cliSess, pane, sending, spent, buf, store>>
      BY <1>1 DEF Poll, Idle, Recorded, Names, External
    <2>2. n \in 0..MaxLines /\ from \in 0..n
      BY <1>a, <1>b, BoundsAssumption DEF StartPos
    <2>3. todo \in Seq(EvType)
      <3>1. from + 1 \in Nat \ {0} /\ from + 1 <= n + 1 /\ n \in Nat /\ n <= Len(cli[s])
        BY <2>2, <1>a, BoundsAssumption
      <3> HIDE DEF n, from
      <3> QED
        BY <1>a, <3>1, LinesShape
    <2> HIDE DEF n, from, todo
    <2>4. task' \in [Tasks -> Work] /\ \A t \in Tasks : t # Watcher => task'[t] = task[t]
      BY <1>0, <2>1, <2>3 DEF Work, Steps
    <2>5. Moves("next", todo, w.reload, w.to)
      BY <1>0, <2>1, <2>3 DEF Moves, Work
    <2>6. /\ Tails(tail.sess, tail.pos, n, tail.seeded)
          /\ tail' \in TailType
      BY <1>a, <2>1, <2>2 DEF Tails, TailType
    <2>7. Polls
      BY <2>1, <2>5, <2>6 DEF Polls, n, from, todo
    <2> QED
      BY <1>c, <2>1, <2>4, <2>5, <2>6, <2>7 DEF Attends, Moves
  <1>2. CASE Seed
    <2> DEFINE n == Len(cli[tail.sess])
    <2>1. /\ w.pc = "ready" /\ tail' = [tail EXCEPT !.pos = n, !.seeded = TRUE] /\ task' = task
          /\ UNCHANGED <<world, up, cli, sess, dbSess, cliSess, pane, sending, spent, buf, store>>
      BY <1>2 DEF Seed, Idle, Recorded, Names, External
    <2>2. n \in 0..MaxLines
      BY <1>a, <1>b
    <2> HIDE DEF n
    <2>3. /\ Tails(tail.sess, n, tail.end, TRUE)
          /\ tail' \in TailType
      BY <1>a, <2>1, <2>2 DEF Tails, TailType
    <2>4. Seeds
      BY <2>1, <2>3 DEF Seeds, n
    <2> QED
      BY <1>0, <1>c, <2>1, <2>3, <2>4 DEF Attends, Tagged
  <1>3. CASE NextLine
    <2> DEFINE new == IF Known(Head(w.todo)) /\ ~w.reload THEN [w EXCEPT !.todo = Tail(w.todo)]
                      ELSE [w EXCEPT !.pc = "append"]
    <2>1. /\ w.pc = "next" /\ w.todo # <<>> /\ task' = [task EXCEPT ![Watcher] = new] /\ tail' = tail
          /\ UNCHANGED <<world, up, cli, sess, dbSess, cliSess, pane, sending, spent, buf, store>>
      BY <1>3 DEF NextLine, Recorded, Names, External
    <2>2. Tail(w.todo) \in Seq(EvType)
      BY <1>0, <2>1
    <2>3. /\ new \in Work /\ new.pc # "save" /\ new.reload = w.reload /\ new.to = w.to
          /\ \/ new.pc = "next" /\ new.todo = Tail(w.todo)
             \/ new.pc = "append" /\ new.todo = w.todo
      BY <1>0, <2>1, <2>2 DEF Work, Steps
    <2> HIDE DEF new
    <2>4. /\ task' \in [Tasks -> Work] /\ task'[Watcher] = new
          /\ \A t \in Tasks : t # Watcher => task'[t] = task[t]
      BY <1>0, <2>1, <2>3
    <2>5. Skips
      BY <2>1, <2>3, <2>4 DEF Skips, Moves
    <2> QED
      BY <1>a, <1>c, <2>1, <2>3, <2>4, <2>5 DEF Attends
  <1>4. CASE AppendLine
    <2> DEFINE new == [w EXCEPT !.pc = "tag", !.ev = Head(w.todo), !.seq = seq + 1,
                                !.todo = Tail(w.todo)]
    <2>1. /\ w.pc = "append" /\ task' = [task EXCEPT ![Watcher] = new] /\ tail' = tail
          /\ seq' = seq + 1 /\ buf' = Append(buf, [seq |-> seq + 1, ev |-> Head(w.todo)])
          /\ UNCHANGED <<world, up, cli, sess, dbSess, cliSess, pane, sending, spent, store>>
      BY <1>4 DEF AppendLine, Names, External
    <2>2. Tail(w.todo) \in Seq(EvType) /\ Head(w.todo) \in EvType /\ seq + 1 \in Nat
      <3>1. w.todo \in Seq(EvType) /\ w.todo # <<>>
        BY <1>0, <2>1
      <3>2. seq + 1 \in Nat
        BY DEF Shapes
      <3> QED
        BY <3>1, <3>2
    <2>3. new \in Work /\ new.pc = "tag" /\ new.reload = w.reload /\ new.to = w.to /\ new.todo = Tail(w.todo)
          /\ new.ev = Head(w.todo)
      BY <1>0, <2>1, <2>2 DEF Work, Steps
    <2> HIDE DEF new
    <2>4. /\ task' \in [Tasks -> Work] /\ task'[Watcher] = new
          /\ \A t \in Tasks : t # Watcher => task'[t] = task[t]
      BY <1>0, <2>1, <2>3
    <2>5. FeedsOne
      BY <1>0, <2>1, <2>3, <2>4 DEF FeedsOne, Moves
    <2> QED
      BY <1>a, <1>c, <2>1, <2>3, <2>4, <2>5 DEF Attends
  <1>5. CASE EndPoll
    <2>1. /\ w.pc = "next" /\ w.todo = <<>> /\ ~w.reload /\ task' = [task EXCEPT ![Watcher] = IdleTask]
          /\ tail' = [tail EXCEPT !.pos = tail.end]
          /\ UNCHANGED <<world, up, cli, sess, dbSess, cliSess, pane, sending, spent, buf, store>>
      BY <1>5 DEF EndPoll, Recorded, Names, External
    <2>2. /\ task' \in [Tasks -> Work] /\ task'[Watcher] = IdleTask
          /\ \A t \in Tasks : t # Watcher => task'[t] = task[t]
      BY <1>0, <2>1, IdleShape
    <2>3. /\ Tails(tail.sess, tail.end, tail.end, tail.seeded)
          /\ tail' \in TailType
      BY <1>a, <2>1 DEF Tails, TailType
    <2>4. EndsPoll
      BY <2>1, <2>2, <2>3 DEF EndsPoll, Moves, IdleTask
    <2> QED
      BY <1>c, <2>1, <2>2, <2>3, <2>4 DEF Attends, IdleTask
  <1>6. CASE DetectSwitch
    <2> DEFINE s == Latest
    <2>1. /\ w.pc = "ready" /\ s # tail.sess
          /\ task' = [task EXCEPT ![Watcher].pc = "update", ![Watcher].to = s]
          /\ \/ ~Claude /\ tail' = tail
             \/ tail.seeded /\ tail' = [tail EXCEPT !.sess = s, !.pos = 0]
          /\ UNCHANGED <<world, up, cli, sess, dbSess, cliSess, pane, sending, spent, buf, store>>
      BY <1>6 DEF DetectSwitch, Idle, Recorded, Names, External
    <2>2. s \in Sessions /\ s \in 0..MaxSessions /\ 0 \in 0..MaxLines
      BY LatestShape, BoundsAssumption DEF Sessions
    <2> HIDE DEF s
    <2>3. task' \in [Tasks -> Work] /\ \A t \in Tasks : t # Watcher => task'[t] = task[t]
      BY <1>0, <2>1, <2>2 DEF Work, Steps
    <2>4. Moves("update", w.todo, w.reload, s)
      BY <1>0, <2>1 DEF Moves, Work
    <2>5. (~Claude /\ tail' = tail) \/ (tail.seeded /\ Tails(s, 0, tail.end, TRUE))
      BY <1>a, <2>1 DEF Tails
    <2>6. tail' \in TailType
      <3>1. CASE tail' = tail
        BY <3>1, <1>a
      <3>2. CASE Tails(s, 0, tail.end, TRUE)
        BY <3>2, <1>a, <2>2 DEF Tails, TailType
      <3> QED
        BY <2>5, <3>1, <3>2
    <2>7. Detects
      BY <2>1, <2>4, <2>5 DEF Detects, s
    <2> QED
      BY <1>c, <2>1, <2>3, <2>4, <2>6, <2>7 DEF Attends, Moves
  <1>7. CASE SwitchStep
    <2>1. CASE UpdateResumeSessionID
      <3> DEFINE l == IF Claude THEN "reset" ELSE "clear"
      <3>1. /\ w.pc = "update" /\ Goto(Watcher, l) /\ tail' = tail /\ buf' = buf
            /\ dbSess' = w.to /\ sess' = w.to
            /\ UNCHANGED <<world, up, cli, cliSess, pane, sending, spent, store>>
        BY <2>1 DEF UpdateResumeSessionID, Recorded, External
      <3>2. l \in Steps /\ l # "save" /\ w.to \in Sessions
        BY <1>0, <3>1 DEF Steps
      <3> HIDE DEF l
      <3>3. /\ task' \in [Tasks -> Work] /\ \A t \in Tasks : t # Watcher => task'[t] = task[t]
            /\ Moves(l, w.todo, w.reload, w.to)
        BY <1>0, <3>1, <3>2, GotoShape DEF Moves
      <3>4. Updates
        BY <3>1, <3>3 DEF Updates, l
      <3>5. RestShapes' /\ Tagged'
        BY <1>0, <1>a, <3>1, <3>2, <3>3 DEF RestShapes, Tagged, Moves
      <3> QED
        BY <3>1, <3>3, <3>4, <3>5 DEF Attends
    <2>2. CASE Reset(Watcher, IF Claude THEN "clear" ELSE "load")
      <3> DEFINE l == IF Claude THEN "clear" ELSE "load"
      <3>1. /\ w.pc = "reset" /\ Goto(Watcher, l) /\ tail' = tail /\ buf' = <<>>
            /\ UNCHANGED <<world, up, cli, sess, dbSess, cliSess, pane, sending, spent, store>>
        BY <2>2 DEF Reset, ResetBuf, Names, External
      <3>2. l \in Steps /\ l # "save"
        BY DEF Steps
      <3> HIDE DEF l
      <3>3. /\ task' \in [Tasks -> Work] /\ \A t \in Tasks : t # Watcher => task'[t] = task[t]
            /\ Moves(l, w.todo, w.reload, w.to)
        BY <1>0, <3>1, <3>2, GotoShape DEF Moves
      <3>4. Resets
        BY <3>1, <3>3 DEF Resets, l
      <3> QED
        BY <1>a, <1>c, <3>1, <3>2, <3>3, <3>4 DEF Attends, Moves
    <2>3. CASE ClearStore(Watcher, IF Claude THEN "cleared" ELSE "reset")
      <3> DEFINE l == IF Claude THEN "cleared" ELSE "reset"
      <3>1. /\ w.pc = "clear" /\ Goto(Watcher, l) /\ tail' = tail /\ buf' = buf /\ store' = {}
            /\ UNCHANGED <<world, up, cli, sess, dbSess, cliSess, pane, sending, spent>>
        BY <2>3 DEF ClearStore, Names, External
      <3>2. l \in Steps /\ l # "save"
        BY DEF Steps
      <3> HIDE DEF l
      <3>3. /\ task' \in [Tasks -> Work] /\ \A t \in Tasks : t # Watcher => task'[t] = task[t]
            /\ Moves(l, w.todo, w.reload, w.to)
        BY <1>0, <3>1, <3>2, GotoShape DEF Moves
      <3>4. Clears
        BY <3>1, <3>3 DEF Clears, l
      <3> QED
        BY <1>a, <1>c, <3>1, <3>2, <3>3, <3>4 DEF Attends, Moves
    <2>4. CASE LoadSession
      <3> DEFINE n    == Len(cli[w.to])
                 todo == Lines(w.to, 1, n)
                 new  == [w EXCEPT !.pc = "next", !.reload = TRUE, !.todo = todo]
      <3>1. /\ w.pc = "load" /\ task' = [task EXCEPT ![Watcher] = new] /\ tail' = tail /\ buf' = buf
            /\ UNCHANGED <<world, up, cli, sess, dbSess, cliSess, pane, sending, spent, store>>
        BY <2>4 DEF LoadSession, Recorded, Names, External
      <3>2. w.to \in Sessions /\ n \in Nat
        BY <1>0, <1>b, <3>1
      <3>3. todo \in Seq(EvType)
        <4>1. 1 \in Nat \ {0} /\ n \in Nat /\ 1 <= n + 1 /\ n <= Len(cli[w.to])
          BY <3>2
        <4> HIDE DEF n
        <4>2. Lines(w.to, 1, n) \in Seq(EvType)
          BY <3>2, <4>1, LinesShape
        <4> QED
          BY <4>2
      <3> HIDE DEF todo
      <3>4. /\ new \in Work /\ new.pc = "next" /\ new.todo = todo /\ new.reload = TRUE
            /\ new.to = w.to
        BY <1>0, <3>3 DEF Work, Steps
      <3> HIDE DEF new
      <3>5. /\ task' \in [Tasks -> Work] /\ task'[Watcher] = new
            /\ \A t \in Tasks : t # Watcher => task'[t] = task[t]
        BY <1>0, <3>1, <3>4
      <3>6. Loads
        BY <3>1, <3>4, <3>5 DEF Loads, Moves, todo
      <3> QED
        BY <1>a, <1>c, <3>1, <3>4, <3>5, <3>6 DEF Attends
    <2>5. CASE Rebase
      <3> DEFINE n == Len(cli[w.to])
      <3>1. /\ w.pc = "next" /\ w.todo = <<>> /\ w.reload /\ Goto(Watcher, "cleared") /\ buf' = buf
            /\ Tails(w.to, n, n, TRUE)
            /\ UNCHANGED <<world, up, cli, sess, dbSess, cliSess, pane, sending, spent, store>>
        BY <1>a, <2>5 DEF Rebase, Recorded, Names, External, Tails
      <3>2. w.to \in Sessions /\ n \in 0..MaxLines
        BY <1>0, <1>b, <3>1
      <3>3. /\ task' \in [Tasks -> Work] /\ \A t \in Tasks : t # Watcher => task'[t] = task[t]
            /\ Moves("cleared", w.todo, w.reload, w.to)
        BY <1>0, <3>1, GotoShape DEF Moves, Steps
      <3>4. Rebases
        BY <3>1, <3>3 DEF Rebases
      <3> HIDE DEF n
      <3>5. tail' \in TailType
        BY <1>a, <3>1, <3>2 DEF Tails, TailType
      <3> QED
        BY <1>c, <3>1, <3>3, <3>4, <3>5 DEF Attends, Moves
    <2>6. CASE Cleared(Watcher)
      <3>1. /\ w.pc = "cleared" /\ task' = [task EXCEPT ![Watcher] = IdleTask] /\ tail' = tail /\ buf' = buf
            /\ UNCHANGED <<world, up, cli, sess, dbSess, cliSess, pane, sending, spent, store>>
        BY <2>6 DEF Cleared, Recorded, Names, External
      <3>2. /\ task' \in [Tasks -> Work] /\ task'[Watcher] = IdleTask
            /\ \A t \in Tasks : t # Watcher => task'[t] = task[t]
        BY <1>0, <3>1, IdleShape
      <3>3. Finishes
        BY <3>1, <3>2 DEF Finishes, Moves, IdleTask
      <3> QED
        BY <1>a, <1>c, <3>1, <3>2, <3>3 DEF Attends, IdleTask
    <2> QED
      BY <1>7, <2>1, <2>2, <2>3, <2>4, <2>5, <2>6 DEF SwitchStep
  <1>8. CASE Tag(Watcher)
    <2>1. /\ w.pc = "tag" /\ task' = [task EXCEPT ![Watcher].pc = "save", ![Watcher].tag = sess]
          /\ UNCHANGED <<world, up, cli, sess, dbSess, cliSess, pane, sending, spent, tail, buf, store>>
      BY <1>8 DEF Tag, Recorded, Names, External
    <2>2. sess \in Sessions /\ sess \in 0..MaxSessions
      BY <1>0, BoundsAssumption DEF RestShapes, Sessions
    <2>3. task' \in [Tasks -> Work] /\ \A t \in Tasks : t # Watcher => task'[t] = task[t]
      BY <1>0, <2>1, <2>2 DEF Work, Steps
    <2>4. Moves("save", w.todo, w.reload, w.to) /\ task'[Watcher].tag = sess
          /\ task'[Watcher].ev = w.ev
      BY <1>0, <2>1 DEF Moves, Work
    <2>5. Carries
      BY <2>1, <2>4 DEF Carries
    <2> QED
      BY <1>a, <1>c, <2>1, <2>2, <2>3, <2>4, <2>5 DEF Attends
  <1>9. CASE SaveEvent(Watcher) \/ Publish(Watcher)
    <2>1. PICK l \in {"publish", "next"} :
              /\ Goto(Watcher, l)
              /\ \/ w.pc = "save" /\ store' = Save(store, Row(w.seq, w.ev, w.tag))
                 \/ w.pc = "publish" /\ store' = store /\ l = "next"
      BY <1>9 DEF SaveEvent, Publish, Recorded
    <2>2. /\ w.pc \in {"save", "publish"}
          /\ UNCHANGED <<world, up, cli, sess, dbSess, cliSess, pane, sending, spent, tail, buf>>
      BY <1>9 DEF SaveEvent, Publish, Recorded, Names, External
    <2>3. /\ task' \in [Tasks -> Work] /\ \A t \in Tasks : t # Watcher => task'[t] = task[t]
          /\ Moves(l, w.todo, w.reload, w.to)
      BY <1>0, <2>1, GotoShape DEF Moves, Steps
    <2>4. Carries
      BY <2>1, <2>2, <2>3 DEF Carries
    <2> QED
      BY <1>a, <1>c, <2>2, <2>3, <2>4 DEF Attends, Moves
  <1> QED
    BY <1>1, <1>2, <1>3, <1>4, <1>5, <1>6, <1>7, <1>8, <1>9 DEF WatcherStep

\* A crash, and the restart after it, leave every task with nothing to do.
Falls ==
    /\ ~up' /\ buf' = <<>> /\ UNCHANGED <<world, cli, tail>>
    /\ \A t \in Tasks : task'[t] = IdleTask

Rises ==
    /\ ~up /\ up' /\ UNCHANGED <<world, cli, task>>
    /\ ~tail'.seeded

\* A crash empties the memory and keeps the types.
LEMMA CrashShape ==
  ASSUME Shapes, Tasked, Crash
  PROVE  RestShapes' /\ Tagged' /\ Falls
  <1>1. /\ task' = [t \in Tasks |-> IdleTask] /\ sending' = FALSE /\ up' = FALSE /\ Spend("crashes")
        /\ buf' = <<>> /\ UNCHANGED <<world, sess, dbSess, cli, cliSess, pane, tail>>
    BY DEF Crash, ResetBuf, Names, External
  <1>2. task' \in [Tasks -> Work] /\ \A t \in Tasks : task'[t] = IdleTask
    BY <1>1, IdleShape
  <1>3. /\ spent' \in [sends : Nat, clears : Nat, crashes : Nat, lines : 0..MaxLines]
        /\ spent'.lines = spent.lines
    BY <1>1, SpendShape
  <1> QED
    BY <1>1, <1>2, <1>3 DEF Shapes, RestShapes, Tagged, Falls, IdleTask

\* A restart keeps the tasks, and the types.
LEMMA RestartRest ==
  ASSUME Shapes, Tasked, Restart
  PROVE  RestShapes' /\ Tagged' /\ Rises
  <1> DEFINE s == IF Claude THEN Latest ELSE dbSess
  <1>1. /\ ~up /\ up' = TRUE /\ sess' = dbSess
        /\ tail' = [sess |-> s, pos |-> 0, end |-> 0, seeded |-> FALSE, again |-> {}]
        /\ UNCHANGED <<world, dbSess, cli, cliSess, pane, task, sending, spent>>
    BY DEF Restart, External
  <1>2. s \in Sessions /\ 0 \in 0..MaxLines
    BY LatestShape, BoundsAssumption DEF Shapes
  <1> HIDE DEF s
  <1>3. tail' \in TailType
    BY <1>1, <1>2 DEF TailType
  <1>4. ~tail'.seeded
    BY <1>1
  <1> QED
    BY <1>1, <1>3, <1>4 DEF Shapes, RestShapes, Tagged, Tasked, Rises

\* The watcher's goroutine runs while the daemon does.
LEMMA WatcherRuns ==
  ASSUME WatcherStep
  PROVE  up
  BY DEF WatcherStep, Poll, Seed, NextLine, AppendLine, EndPoll, DetectSwitch, Idle, SwitchStep,
     UpdateResumeSessionID, Reset, ClearStore, LoadSession, Rebase, Cleared, Tag, SaveEvent, Publish

\* Every step is of one of these kinds, and keeps the types.
LEMMA StepKinds ==
  ASSUME Shapes, Numbered, Tasked, [Next]_vars
  PROVE  /\ RestShapes' /\ Tagged'
         /\ Aside \/ (ResetWatcherOffset /\ task'[Watcher] = task[Watcher])
            \/ (up /\ Attends) \/ Falls \/ (Restart /\ Rises)
  <1>1. CASE UNCHANGED vars
    <2>1. \A s \in Sessions : Len(cli'[s]) >= Len(cli[s])
      BY <1>1 DEF vars, Shapes
    <2> QED
      BY <1>1, <2>1 DEF vars, Shapes, RestShapes, Tagged, Tasked, Aside, NoLine
  <1>2. CASE SendStep
    BY <1>2, SenderStep DEF SendStep
  <1>3. CASE ClearStep
    BY <1>3, ClearerStep
  <1>4. CASE WatcherStep
    BY <1>4, WatcherStepShape, WatcherRuns
  <1>5. CASE CliStep
    BY <1>5, CliStepShape
  <1>6. CASE Crash
    BY <1>6, CrashShape
  <1>7. CASE Restart
    BY <1>7, RestartRest
  <1> QED
    BY <1>1, <1>2, <1>3, <1>4, <1>5, <1>6, <1>7 DEF Next

\* What tasks have at hand is inductive.
LEMMA TaskedStep ==
  ASSUME Shapes, Tasked, Tagged', 
         Aside \/ (ResetWatcherOffset /\ task'[Watcher] = task[Watcher])
            \/ (up /\ Attends) \/ Falls \/ Rises
  PROVE  Tasked'
  <1>1. CASE Aside \/ Rises \/ (ResetWatcherOffset /\ task'[Watcher] = task[Watcher])
    BY <1>1 DEF Aside, Rises, ResetWatcherOffset, Tasked, Tagged
  <1>2. CASE up /\ Attends
    <2> USE DEF Tasked, Tagged, Moves
    <2>0. up /\ up' = up
      BY <1>2 DEF Attends
    <2>1. CASE Polls \/ Seeds \/ EndsPoll \/ Loads \/ Rebases \/ Finishes
      BY <2>0, <2>1 DEF Polls, Seeds, EndsPoll, Loads, Rebases, Finishes
    <2>2. CASE Skips \/ FeedsOne \/ Carries
      BY <2>0, <2>2 DEF Skips, FeedsOne, Carries
    <2>3. CASE Detects
      BY <2>0, <2>3, LatestShape DEF Detects
    <2>4. CASE Updates \/ Resets \/ Clears
      BY <2>0, <2>4 DEF Updates, Resets, Clears
    <2> QED
      BY <1>2, <2>1, <2>2, <2>3, <2>4 DEF Attends
  <1>3. CASE Falls
    BY <1>3, TasksShape DEF Falls, Tasked, Tagged, IdleTask
  <1> QED
    BY <1>1, <1>2, <1>3

-----------------------------------------------------------------------------
(* The order of the buffer is inductive.                                     *)

BelowNext(s, n) ==
    \A i \in DOMAIN buf' : buf'[i].ev.from[1] = s => buf'[i].ev.from[2] < n

StartNext(s, pos) == IF pos > Len(cli'[s]) THEN 0 ELSE pos

PassedNext(s, n) ==
    \A i \in DOMAIN buf' : buf'[i].ev.from[1] = s =>
        \A k \in Nat : n <= k /\ k <= buf'[i].ev.from[2] => <<s, k>> \in tail'.again

OnlyLines == \A i \in DOMAIN buf : buf[i].ev.from[1] = 0 => buf[i].ev.from = Typed

NextFed(todo, s, n) ==
    /\ Consecutive(todo, s, n)
    /\ todo # <<>> => PassedNext(s, First(todo))
    /\ n <= Len(cli'[s])
    /\ BelowNext(s, n + 1)

\* The lines at hand, one of them taken.
LEMMA ConsecutiveTail ==
  ASSUME NEW todo \in Seq(EvType), todo # <<>>, NEW s, NEW n \in Nat, Consecutive(todo, s, n)
  PROVE  /\ Consecutive(Tail(todo), s, n)
         /\ Tail(todo) # <<>> => First(Tail(todo)) = First(todo) + 1
         /\ Head(todo).from = <<s, First(todo)>> /\ First(todo) \in Nat /\ First(todo) <= n
  <1> DEFINE rest == Tail(todo)
             l    == Len(todo)
             f    == First(todo)
  <1>1. /\ l \in Nat \ {0} /\ rest \in Seq(EvType) /\ Len(rest) = l - 1 /\ DOMAIN rest = 1..l - 1
        /\ DOMAIN todo = 1..l /\ Head(todo) = todo[1]
        /\ \A k \in 1..l - 1 : rest[k] = todo[k + 1]
    OBVIOUS
  <1>2. f \in Nat \ {0} /\ f + l <= n + 1 /\ \A k \in 1..l : todo[k].from = <<s, f + k - 1>>
    BY <1>1 DEF Consecutive
  <1>3. First(rest) = rest[1].from[2]
    BY DEF First
  <1> HIDE DEF rest, l, f
  <1>4. \A k \in 1..l - 1 : k + 1 \in 1..l /\ rest[k].from = <<s, f + k>>
    <2> SUFFICES ASSUME NEW k \in 1..l - 1 PROVE k + 1 \in 1..l /\ rest[k].from = <<s, f + k>>
      OBVIOUS
    <2>1. k + 1 \in 1..l /\ f + (k + 1) - 1 = f + k
      BY <1>1, <1>2
    <2> QED
      BY <1>1, <1>2, <2>1
  <1>5. todo[1].from = <<s, f>> /\ f <= n
    <2>1. 1 \in 1..l /\ f + 1 - 1 = f
      BY <1>1, <1>2
    <2>2. f <= n
      BY <1>1, <1>2
    <2> QED
      BY <1>2, <2>1, <2>2
  <1>6. CASE rest # <<>>
    <2>1. 1 \in 1..l - 1
      BY <1>1, <1>6
    <2>2. First(rest) = f + 1
      BY <1>3, <1>4, <2>1
    <2>3. \A k \in 1..l - 1 : rest[k].from = <<s, (f + 1) + k - 1>>
      <3> SUFFICES ASSUME NEW k \in 1..l - 1 PROVE rest[k].from = <<s, (f + 1) + k - 1>>
        OBVIOUS
      <3>1. f + k = (f + 1) + k - 1
        BY <1>1, <1>2
      <3> QED
        BY <1>4, <3>1
    <2>4. f + 1 \in Nat \ {0} /\ (f + 1) + (l - 1) <= n + 1
      BY <1>1, <1>2
    <2>5. Consecutive(rest, s, n)
      BY <1>1, <2>2, <2>3, <2>4 DEF Consecutive
    <2> QED
      BY <1>1, <1>2, <1>5, <2>2, <2>5 DEF rest, f
  <1>7. CASE rest = <<>>
    BY <1>1, <1>2, <1>5, <1>7 DEF Consecutive, rest, f
  <1> QED
    BY <1>6, <1>7

\* The lines just read.
LEMMA ConsecutiveLines ==
  ASSUME Shapes, NEW s \in Sessions, NEW a \in Nat \ {0}, NEW b \in Nat,
         a <= b + 1, b <= Len(cli[s])
  PROVE  /\ Consecutive(Lines(s, a, b), s, b)
         /\ Lines(s, a, b) # <<>> => First(Lines(s, a, b)) = a
  <1> DEFINE todo == Lines(s, a, b)
  <1>1. /\ todo \in Seq(EvType) /\ Len(todo) = b - a + 1 /\ DOMAIN todo = 1..(b - a + 1)
        /\ \A k \in DOMAIN todo : todo[k].from = <<s, a + k - 1>>
    BY LinesShape
  <1> HIDE DEF todo
  <1>2. CASE todo # <<>>
    <2>1. 1 \in DOMAIN todo /\ a + 1 - 1 = a
      BY <1>1, <1>2
    <2>2. First(todo) = a
      BY <1>1, <2>1 DEF First
    <2>3. a + (b - a + 1) <= b + 1
      OBVIOUS
    <2> QED
      BY <1>1, <2>2, <2>3 DEF Consecutive, todo
  <1>3. CASE todo = <<>>
    BY <1>3 DEF Consecutive, todo
  <1> QED
    BY <1>2, <1>3

\* Where the buffer's events came from are pairs of numbers.
LEMMA FromShape ==
  ASSUME Shapes
  PROVE  \A i \in DOMAIN buf : /\ buf[i].ev.from[1] \in Nat /\ buf[i].ev.from[2] \in Nat
                               /\ buf[i].ev.from = <<buf[i].ev.from[1], buf[i].ev.from[2]>>
  <1> SUFFICES ASSUME NEW i \in DOMAIN buf
               PROVE  /\ buf[i].ev.from[1] \in Nat /\ buf[i].ev.from[2] \in Nat
                      /\ buf[i].ev.from = <<buf[i].ev.from[1], buf[i].ev.from[2]>>
    OBVIOUS
  <1>0. buf \in Seq([seq : Nat, ev : EvType])
    BY DEF Shapes
  <1>1. buf[i] \in [seq : Nat, ev : EvType]
    BY <1>0, ElementShape
  <1>2. buf[i].ev.from \in (0..MaxSessions) \X (0..MaxLines)
    BY <1>1 DEF EvType
  <1> QED
    BY <1>2, BoundsAssumption

\* A buffer that gets no line stays in order and below what it was below.
LEMMA QuietBuffer ==
  ASSUME Shapes, Numbered, InOrder, OnlyLines, NoLine, tail.again \subseteq tail'.again
  PROVE  /\ InOrder' /\ OnlyLines'
         /\ \A s \in Sessions : \A n : Below(s, n) => BelowNext(s, n)
         /\ \A s \in Sessions : \A n \in Nat : Passed(s, n) => PassedNext(s, n)
  <1>1. CASE buf' = buf
    BY <1>1 DEF InOrder, OnlyLines, Below, BelowNext, Passed, PassedNext
  <1>2. CASE buf' = <<>>
    BY <1>2 DEF InOrder, OnlyLines, Below, BelowNext, PassedNext
  <1>3. CASE \E text \in Texts, n \in Nat :
                 buf' = Append(buf, [seq |-> n, ev |-> Ev("user", text, Typed)])
    <2>1. PICK text \in Texts, m \in Nat :
              buf' = Append(buf, [seq |-> m, ev |-> Ev("user", text, Typed)])
      BY <1>3
    <2> DEFINE e == [seq |-> m, ev |-> Ev("user", text, Typed)]
               l == Len(buf)
    <2>2. e \in [seq : Nat, ev : EvType] /\ e.ev.from = Typed
      BY SentShape
    <2>3. l \in Nat /\ DOMAIN buf = 1..l /\ buf \in Seq([seq : Nat, ev : EvType])
      BY DEF Shapes
    <2>4. buf' = Append(buf, e)
      BY <2>1
    <2> HIDE DEF e
    <2>5. /\ DOMAIN buf' = 1..l + 1 /\ buf'[l + 1].ev.from = Typed
          /\ \A i \in 1..l : buf'[i] = buf[i]
      BY <2>2, <2>3, <2>4
    <2>6. \A i \in 1..l + 1 : i \in 1..l \/ i = l + 1
      BY <2>3
    <2> HIDE DEF l
    <2>7. InOrder'
      BY <2>3, <2>5, <2>6 DEF InOrder
    <2>8. OnlyLines'
      BY <2>3, <2>5, <2>6 DEF OnlyLines
    <2>9. \A s \in Sessions : \A n : Below(s, n) => BelowNext(s, n)
      <3>1. Typed[1] \notin Sessions
        BY BoundsAssumption DEF Typed, Sessions
      <3> QED
        BY <2>3, <2>5, <2>6, <3>1 DEF Below, BelowNext
    <2>10. \A s \in Sessions : \A n \in Nat : Passed(s, n) => PassedNext(s, n)
      <3>1. Typed[1] \notin Sessions
        BY BoundsAssumption DEF Typed, Sessions
      <3> QED
        BY <2>3, <2>5, <2>6, <3>1 DEF Passed, PassedNext
    <2> QED
      BY <2>7, <2>8, <2>9, <2>10
  <1> QED
    BY <1>1, <1>2, <1>3 DEF NoLine

\* A line that comes after all of its session in the buffer but those read again.
LEMMA LineAppended ==
  ASSUME Shapes, Numbered, InOrder, OnlyLines,
         NEW s \in Sessions, NEW p \in Nat, NEW ev \in EvType, ev.from = <<s, p>>, Passed(s, p),
         seq' = seq + 1, buf' = Append(buf, [seq |-> seq + 1, ev |-> ev]), tail' = tail
  PROVE  /\ InOrder' /\ OnlyLines' /\ PassedNext(s, p + 1)
         /\ \A r \in Sessions : \A n \in Nat : Below(r, n) /\ (r = s => p < n) => BelowNext(r, n)
  <1> DEFINE l == Len(buf)
  <1>1. /\ l \in Nat /\ DOMAIN buf = 1..l /\ DOMAIN buf' = 1..l + 1 /\ buf'[l + 1].ev = ev
        /\ \A i \in 1..l : buf'[i] = buf[i]
    <2>1. Len(buf') = l + 1 /\ l \in Nat /\ DOMAIN buf = 1..l /\ DOMAIN buf' = 1..Len(buf')
      BY AppendShape DEF Shapes
    <2> QED
      BY <2>1, AppendShape
  <1>2. \A i \in 1..l + 1 : i \in 1..l \/ i = l + 1
    BY <1>1
  <1>3. \A i \in 1..l : buf[i].ev.from[1] \in Nat /\ buf[i].ev.from[2] \in Nat
    BY <1>1, FromShape
  <1> HIDE DEF l
  <1>4. ev.from[1] = s /\ ev.from[2] = p /\ s # 0 /\ s \in Nat
    BY BoundsAssumption DEF Sessions
  <1>5. OnlyLines'
    BY <1>1, <1>2, <1>4 DEF OnlyLines
  <1>6. InOrder'
    <2> SUFFICES ASSUME NEW i \in 1..l + 1, NEW j \in 1..l + 1, i < j,
                        buf'[i].ev.from # Typed, buf'[j].ev.from # Typed,
                        buf'[i].ev.from[1] = buf'[j].ev.from[1],
                        buf'[j].ev.from \notin tail.again
                 PROVE  buf'[i].ev.from[2] < buf'[j].ev.from[2]
      BY <1>1 DEF InOrder
    <2>1. i \in 1..l
      BY <1>1
    <2>2. CASE j \in 1..l
      BY <1>1, <2>1, <2>2 DEF InOrder
    <2>3. CASE j = l + 1
      <3>1. <<s, p>> \notin tail.again /\ buf[i].ev.from[1] = s /\ buf[i].ev.from[2] \in Nat
        BY <1>1, <1>3, <1>4, <2>1, <2>3
      <3>2. ~(p <= buf[i].ev.from[2])
        BY <1>1, <2>1, <3>1 DEF Passed
      <3> QED
        BY <1>1, <1>4, <2>1, <2>3, <3>1, <3>2
    <2> QED
      BY <1>2, <2>2, <2>3
  <1>7. PassedNext(s, p + 1)
    <2> SUFFICES ASSUME NEW i \in 1..l + 1, buf'[i].ev.from[1] = s,
                        NEW k \in Nat, p + 1 <= k, k <= buf'[i].ev.from[2]
                 PROVE  <<s, k>> \in tail.again
      BY <1>1 DEF PassedNext
    <2>1. CASE i \in 1..l
      <3>1. buf[i].ev.from[1] = s /\ k <= buf[i].ev.from[2] /\ i \in DOMAIN buf
        BY <1>1, <2>1
      <3> QED
        BY <3>1 DEF Passed
    <2>2. CASE i = l + 1
      BY <1>1, <1>4, <2>2
    <2> QED
      BY <1>2, <2>1, <2>2
  <1>8. ASSUME NEW r \in Sessions, NEW n \in Nat, Below(r, n), r = s => p < n
        PROVE  BelowNext(r, n)
    <2> SUFFICES ASSUME NEW i \in 1..l + 1, buf'[i].ev.from[1] = r
                 PROVE  buf'[i].ev.from[2] < n
      BY <1>1 DEF BelowNext
    <2>1. CASE i \in 1..l
      BY <1>1, <1>8, <2>1 DEF Below
    <2>2. CASE i = l + 1
      BY <1>1, <1>4, <1>8, <2>2
    <2> QED
      BY <1>2, <2>1, <2>2
  <1> QED
    BY <1>5, <1>6, <1>7, <1>8

\* Being below a line is being below the later ones.
LEMMA BelowLater ==
  ASSUME Shapes', NEW s, NEW m \in Nat, NEW n \in Nat, m <= n, BelowNext(s, m)
  PROVE  BelowNext(s, n)
  <1>1. \A i \in DOMAIN buf' : buf'[i].ev.from[2] \in Nat
    <2> SUFFICES ASSUME NEW i \in DOMAIN buf' PROVE buf'[i].ev.from[2] \in Nat
      OBVIOUS
    <2>0. buf' \in Seq([seq : Nat, ev : EvType])
      BY DEF Shapes
    <2>1. buf'[i] \in [seq : Nat, ev : EvType]
      BY <2>0, ElementShape
    <2>2. buf'[i].ev.from \in (0..MaxSessions) \X (0..MaxLines)
      BY <2>1 DEF EvType
    <2> QED
      BY <2>2, BoundsAssumption
  <1> QED
    BY <1>1 DEF BelowNext

\* The same for lines read again.
LEMMA PassedLater ==
  ASSUME NEW s, NEW m \in Nat, NEW n \in Nat, m <= n, PassedNext(s, m)
  PROVE  PassedNext(s, n)
  BY DEF PassedNext

\* Having nothing from a line on, there is nothing to read again.
LEMMA BelowPassed ==
  ASSUME Shapes, NEW s, NEW n \in Nat, Below(s, n)
  PROVE  Passed(s, n)
  BY FromShape DEF Below, Passed

\* The same after the step.
LEMMA BelowPassedNext ==
  ASSUME Shapes', NEW s, NEW n \in Nat, BelowNext(s, n)
  PROVE  PassedNext(s, n)
  <1>1. \A i \in DOMAIN buf' : buf'[i].ev.from[2] \in Nat
    <2> SUFFICES ASSUME NEW i \in DOMAIN buf' PROVE buf'[i].ev.from[2] \in Nat
      OBVIOUS
    <2>0. buf' \in Seq([seq : Nat, ev : EvType])
      BY DEF Shapes
    <2>1. buf'[i] \in [seq : Nat, ev : EvType]
      BY <2>0, ElementShape
    <2>2. buf'[i].ev.from \in (0..MaxSessions) \X (0..MaxLines)
      BY <2>1 DEF EvType
    <2> QED
      BY <2>2, BoundsAssumption
  <1> QED
    BY <1>1 DEF BelowNext, PassedNext

\* The parts of the invariant, in the step's result.
LEMMA FedNext ==
  ASSUME NEW s, NEW n, NextFed(task'[Watcher].todo, s, n),
         \/ task'[Watcher].reload /\ s = task'[Watcher].to /\ n = Len(cli'[s])
         \/ ~task'[Watcher].reload /\ s = tail'.sess /\ n = tail'.end
  PROVE  Fed'
  <1>1. Feeds' = s /\ FeedEnd' = n
    BY DEF Feeds, FeedEnd
  <1>2. Fed' = (Feeding' => LET todo == task'[Watcher].todo IN
                   /\ Consecutive(todo, Feeds', FeedEnd')
                   /\ todo # <<>> => PassedNext(Feeds', First(todo))
                   /\ FeedEnd' <= Len(cli'[Feeds'])
                   /\ BelowNext(Feeds', FeedEnd' + 1))
    BY DEF Fed, Below, BelowNext, Passed, PassedNext, Consecutive, First
  <1> QED
    BY <1>1, <1>2 DEF NextFed

\* The same for Kept.
LEMMA KeptNext ==
  ASSUME world' = world,
         \/ task'[Watcher].pc \in {"ready", "cleared"}
         \/ task'[Watcher].pc = "clear" /\ Claude
         => (tail'.seeded => PassedNext(tail'.sess, StartNext(tail'.sess, tail'.pos) + 1)),
         task'[Watcher].pc = "load" => \A s \in Sessions : BelowNext(s, 1)
  PROVE  Kept'
  BY DEF Kept, Below, BelowNext, Passed, PassedNext, StartPos, StartNext, Claude

\* A transcript's length, now and then.
LEMMA LinedNext ==
  ASSUME OnlyLines', \A s \in Sessions : BelowNext(s, Len(cli'[s]) + 1)
  PROVE  Lined'
  BY DEF Lined, OnlyLines, Below, BelowNext

\* The types that the order of the lines is about.
LEMMA TranscriptShape ==
  ASSUME Shapes
  PROVE  /\ \A s \in Sessions : Len(cli[s]) \in Nat
         /\ tail.sess \in Sessions /\ tail.pos \in Nat /\ tail.end \in Nat
         /\ task[Watcher] \in Work
         /\ task[Watcher].todo \in Seq(EvType) /\ task[Watcher].reload \in BOOLEAN
         /\ Len(task[Watcher].todo) \in Nat
         /\ \A e \in EvType : e.from[2] \in Nat
  <1>1. \A s \in Sessions : Len(cli[s]) \in Nat
    BY DEF Shapes
  <1>2. tail.sess \in Sessions /\ tail.pos \in Nat /\ tail.end \in Nat
    BY BoundsAssumption DEF Shapes, TailType
  <1>3. task[Watcher] \in Work
    BY TasksShape DEF Shapes
  <1>4. task[Watcher].todo \in Seq(EvType) /\ task[Watcher].reload \in BOOLEAN
    BY <1>3 DEF Work
  <1>5. \A e \in EvType : e.from[2] \in Nat
    <2>1. \A e \in EvType : e.from \in (0..MaxSessions) \X (0..MaxLines)
      BY DEF EvType
    <2> QED
      BY <2>1, BoundsAssumption
  <1> QED
    BY <1>1, <1>2, <1>3, <1>4, <1>5

\* What the watcher has at hand comes from one of the agent's sessions.
LEMMA FeedShape ==
  ASSUME Shapes, Tasked
  PROVE  Feeds \in Sessions /\ FeedEnd \in Nat
  BY TranscriptShape DEF Tasked, Feeds, FeedEnd

\* While the watcher stays where it is, nothing else disturbs the order.
LEMMA AsideOrder ==
  ASSUME IInv, Shapes', Aside
  PROVE  Lined' /\ Fed' /\ Kept' /\ InOrder'
  <1> DEFINE w == task[Watcher]
  <1>1. /\ Shapes /\ Numbered /\ Tasked /\ Lined /\ Fed /\ Kept /\ InOrder /\ OnlyLines
        /\ task'[Watcher] = w /\ UNCHANGED <<world, up, tail>> /\ NoLine
    BY DEF IInv, Aside, Lined, OnlyLines
  <1>a. \A s \in Sessions : Len(cli'[s]) >= Len(cli[s]) /\ Len(cli[s]) \in Nat /\ Len(cli'[s]) \in Nat
    <2>1. \A s \in Sessions : Len(cli'[s]) >= Len(cli[s])
      BY DEF Aside
    <2>2. cli \in [Sessions -> Seq(Written)] /\ cli' \in [Sessions -> Seq(Written)]
      BY DEF IInv, Shapes, Sessions, Written, Words
    <2> QED
      BY <2>1, <2>2
  <1>2. /\ InOrder' /\ OnlyLines'
        /\ \A s \in Sessions : \A n : Below(s, n) => BelowNext(s, n)
        /\ \A s \in Sessions : \A n \in Nat : Passed(s, n) => PassedNext(s, n)
    BY <1>1, QuietBuffer
  <1>3. ASSUME NEW s \in Sessions PROVE BelowNext(s, Len(cli'[s]) + 1)
    <2>1. BelowNext(s, Len(cli[s]) + 1)
      BY <1>1, <1>2 DEF Lined
    <2>2. Len(cli[s]) + 1 \in Nat /\ Len(cli'[s]) + 1 \in Nat /\ Len(cli[s]) + 1 <= Len(cli'[s]) + 1
      BY <1>a
    <2> QED
      BY <2>1, <2>2, BelowLater
  <1>4. Lined'
    BY <1>2, <1>3, LinedNext
  <1>5. Kept'
    <2> DEFINE p == StartPos(tail.sess, tail.pos)
               q == StartNext(tail.sess, tail.pos)
    <2>1. tail.sess \in Sessions /\ tail.pos \in Nat
      BY <1>1, TranscriptShape
    <2>2. p + 1 \in Nat /\ q + 1 \in Nat /\ p + 1 <= q + 1
      BY <1>a, <2>1 DEF StartPos, StartNext
    <2> HIDE DEF p, q
    <2>3. Passed(tail.sess, p + 1) => PassedNext(tail.sess, q + 1)
      <3>1. ASSUME Passed(tail.sess, p + 1) PROVE PassedNext(tail.sess, q + 1)
        <4>1. PassedNext(tail.sess, p + 1)
          BY <1>2, <2>1, <2>2, <3>1
        <4> QED
          BY <2>2, <4>1, PassedLater
      <3> QED
        BY <3>1
    <2> QED
      BY <1>1, <1>2, <2>1, <2>3, KeptNext DEF Kept, p, q
  <1>6. Fed'
    <2>1. CASE ~Feeding
      BY <1>1, <2>1 DEF Fed, Feeding
    <2>2. CASE Feeding
      <3> DEFINE m == IF w.reload THEN Len(cli'[w.to]) ELSE tail.end
                 f == First(w.todo)
      <3>1. Feeds \in Sessions /\ FeedEnd \in Nat /\ w.reload \in BOOLEAN
        BY <1>1, FeedShape, TranscriptShape
      <3>2. m \in Nat /\ FeedEnd <= m /\ m <= Len(cli'[Feeds]) /\ BelowNext(Feeds, m + 1)
        <4>1. CASE w.reload
          <5>1. Feeds = w.to /\ m = Len(cli'[Feeds]) /\ FeedEnd = Len(cli[Feeds])
            BY <4>1 DEF Feeds, FeedEnd
          <5> QED
            BY <1>a, <1>3, <3>1, <5>1
        <4>2. CASE ~w.reload
          <5>1. Feeds = tail.sess /\ m = tail.end /\ FeedEnd = m
            BY <4>2 DEF Feeds, FeedEnd
          <5>2. FeedEnd <= Len(cli[Feeds]) /\ Below(Feeds, FeedEnd + 1)
            BY <1>1, <2>2 DEF Fed
          <5>3. FeedEnd <= Len(cli'[Feeds])
            BY <1>a, <3>1, <5>1, <5>2
          <5> QED
            BY <1>2, <3>1, <5>1, <5>2, <5>3
        <4> QED
          BY <4>1, <4>2
      <3>3. Consecutive(w.todo, Feeds, m)
        <4>1. Consecutive(w.todo, Feeds, FeedEnd)
          BY <1>1, <2>2 DEF Fed
        <4>2. Len(w.todo) \in Nat
          BY <1>1, TranscriptShape
        <4> HIDE DEF m, w
        <4>3. CASE w.todo # <<>>
          <5>1. f + Len(w.todo) <= m + 1
            BY <3>1, <3>2, <4>1, <4>2, <4>3 DEF Consecutive
          <5> QED
            BY <4>1, <5>1 DEF Consecutive
        <4>4. CASE w.todo = <<>>
          BY <4>4 DEF Consecutive
        <4> QED
          BY <4>3, <4>4
      <3>4. w.todo # <<>> => PassedNext(Feeds, f)
        BY <1>1, <1>2, <2>2, <3>1 DEF Fed, Consecutive
      <3>5. NextFed(task'[Watcher].todo, Feeds, m)
        BY <1>1, <3>2, <3>3, <3>4 DEF NextFed
      <3>6. \/ task'[Watcher].reload /\ Feeds = task'[Watcher].to /\ m = Len(cli'[Feeds])
            \/ ~task'[Watcher].reload /\ Feeds = tail'.sess /\ m = tail'.end
        BY <1>1, <3>1 DEF Feeds
      <3> QED
        BY <3>5, <3>6, FedNext
    <2> QED
      BY <2>1, <2>2
  <1> QED
    BY <1>2, <1>4, <1>5, <1>6

\* A watcher that is not feeding has nothing to answer for.
LEMMA NotFed ==
  ASSUME task'[Watcher].pc \notin {"next", "append", "tag", "save", "publish"}
  PROVE  Fed'
  BY DEF Fed, Feeding

\* Where the watcher moves without appending.
LEMMA QuietOrder ==
  ASSUME IInv, NoLine, cli' = cli, tail.again \subseteq tail'.again
  PROVE  /\ Lined' /\ InOrder'
         /\ \A s \in Sessions : \A n : Below(s, n) => BelowNext(s, n)
         /\ \A s \in Sessions : \A n \in Nat : Passed(s, n) => PassedNext(s, n)
         /\ \A s \in Sessions : BelowNext(s, Len(cli[s]) + 1)
  <1>1. /\ InOrder' /\ OnlyLines'
        /\ \A s \in Sessions : \A n : Below(s, n) => BelowNext(s, n)
        /\ \A s \in Sessions : \A n \in Nat : Passed(s, n) => PassedNext(s, n)
    BY QuietBuffer DEF IInv, Lined, OnlyLines
  <1>2. \A s \in Sessions : BelowNext(s, Len(cli[s]) + 1)
    BY <1>1 DEF IInv, Lined
  <1>3. Lined'
    BY <1>1, <1>2, LinedNext
  <1> QED
    BY <1>1, <1>2, <1>3

\* A clear that puts the watcher back marks the lines it will read again; one during a
\* poll has no effect, for the poll sets the position when it ends.
LEMMA OffsetOrder ==
  ASSUME IInv, Shapes', ResetWatcherOffset, task'[Watcher] = task[Watcher]
  PROVE  Lined' /\ Fed' /\ Kept' /\ InOrder'
  <1> DEFINE s    == tail.sess
             size == task[Clearer].size
             back == Retaken(s, size, tail.pos)
  <1>1. /\ UNCHANGED <<world, buf, cli>>
        /\ tail' = [tail EXCEPT !.pos = size, !.again = IF Polling THEN @ ELSE @ \cup back]
    BY DEF ResetWatcherOffset, Recorded, External
  <1>2. /\ tail'.sess = s /\ tail'.end = tail.end /\ tail'.seeded = tail.seeded /\ tail'.pos = size
        /\ tail'.again = IF Polling THEN tail.again ELSE tail.again \cup back
    BY <1>1 DEF IInv, Shapes, TailType
  <1>3. /\ Lined' /\ InOrder' /\ s \in Sessions /\ tail.pos \in Nat
        /\ \A r \in Sessions : \A k : Below(r, k) => BelowNext(r, k)
        /\ \A r \in Sessions : \A k \in Nat : Passed(r, k) => PassedNext(r, k)
    BY <1>1, <1>2, QuietOrder, TranscriptShape DEF IInv, NoLine
  <1>4. size \in Nat
    BY TasksShape, BoundsAssumption DEF IInv, Shapes, Work
  <1>5. Kept'
    <2>1. CASE Polling
      BY <1>1, <2>1, KeptNext DEF Polling
    <2>2. CASE ~Polling
      <3> DEFINE p == StartPos(s, tail.pos)
                 q == StartPos(s, size)
      <3>1. p \in Nat /\ q \in Nat /\ q = StartNext(s, size) /\ Len(cli[s]) \in Nat
        BY <1>1, <1>3, <1>4, TranscriptShape DEF StartPos, StartNext, IInv
      <3>2. \A k \in Nat : q + 1 <= k /\ k <= tail.pos => <<s, k>> \in tail'.again
        BY <1>2, <1>3, <2>2, <3>1 DEF Retaken
      <3>3. Passed(s, p + 1) => PassedNext(s, q + 1)
        <4> SUFFICES ASSUME Passed(s, p + 1), NEW i \in DOMAIN buf, buf[i].ev.from[1] = s,
                            NEW k \in Nat, q + 1 <= k, k <= buf[i].ev.from[2]
                     PROVE  <<s, k>> \in tail'.again
          BY <1>1 DEF PassedNext
        <4>1. CASE k <= tail.pos
          BY <3>1, <3>2, <4>1
        <4>2. CASE ~(k <= tail.pos)
          <5>1. buf[i].ev.from[2] \in Nat /\ buf[i].ev.from[2] < Len(cli[s]) + 1
            BY <1>3, FromShape DEF IInv, Lined, Below
          <5>2. p = tail.pos
            BY <1>3, <3>1, <4>2, <5>1 DEF StartPos
          <5>3. <<s, k>> \in tail.again
            BY <1>3, <4>2, <5>2 DEF Passed
          <5> QED
            BY <1>2, <5>3
        <4> QED
          BY <4>1, <4>2
      <3> HIDE DEF p, q
      <3> QED
        BY <1>1, <1>2, <1>3, <3>1, <3>3, KeptNext DEF IInv, Kept, p
    <2> QED
      BY <2>1, <2>2
  <1>6. Fed'
    <2>1. CASE ~Feeding
      BY <2>1, NotFed DEF Feeding
    <2>2. CASE Feeding
      <3>1. Feeds \in Sessions /\ FeedEnd \in Nat
            /\ (task[Watcher].todo # <<>> => First(task[Watcher].todo) \in Nat)
        BY <2>2, FeedShape DEF IInv, Fed, Consecutive
      <3>2. NextFed(task'[Watcher].todo, Feeds, FeedEnd)
        BY <1>1, <1>3, <2>2, <3>1 DEF IInv, Fed, NextFed
      <3> QED
        BY <1>1, <1>2, <3>2, FedNext DEF Feeds, FeedEnd
    <2> QED
      BY <2>1, <2>2
  <1> QED
    BY <1>3, <1>5, <1>6

\* The watcher hands over the next line.
LEMMA FeedOrder ==
  ASSUME IInv, Shapes', UNCHANGED <<world, cli>>, FeedsOne
  PROVE  Lined' /\ Fed' /\ Kept' /\ InOrder'
  <1> DEFINE w  == task[Watcher]
             s  == Feeds
             n  == FeedEnd
             p  == First(w.todo)
             ev == Head(w.todo)
  <1>1. /\ w.pc = "append" /\ w.todo # <<>> /\ tail' = tail
        /\ seq' = seq + 1 /\ buf' = Append(buf, [seq |-> seq + 1, ev |-> ev])
        /\ Moves("tag", Tail(w.todo), w.reload, w.to)
    BY DEF FeedsOne
  <1>2. /\ Shapes /\ Numbered /\ Tasked /\ Lined /\ InOrder /\ OnlyLines
        /\ Consecutive(w.todo, s, n) /\ Passed(s, p) /\ n <= Len(cli[s]) /\ Below(s, n + 1)
    BY <1>1 DEF IInv, Fed, Feeding, Lined, OnlyLines
  <1>3. s \in Sessions /\ n \in Nat /\ w.todo \in Seq(EvType) /\ ev \in EvType
    BY <1>1, <1>2, FeedShape, TranscriptShape
  <1>4. /\ Consecutive(Tail(w.todo), s, n)
        /\ Tail(w.todo) # <<>> => First(Tail(w.todo)) = p + 1
        /\ ev.from = <<s, p>> /\ p \in Nat /\ p <= n
    BY <1>1, <1>2, <1>3, ConsecutiveTail
  <1>5. \A r \in Sessions : Len(cli[r]) \in Nat
    BY <1>2, TranscriptShape
  <1> HIDE DEF s, n, p, ev, w
  <1>6. /\ InOrder' /\ OnlyLines' /\ PassedNext(s, p + 1)
        /\ \A r \in Sessions : \A k \in Nat : Below(r, k) /\ (r = s => p < k) => BelowNext(r, k)
    BY <1>1, <1>2, <1>3, <1>4, LineAppended
  <1>7. ASSUME NEW r \in Sessions PROVE BelowNext(r, Len(cli'[r]) + 1)
    <2>1. Below(r, Len(cli[r]) + 1) /\ Len(cli[r]) + 1 \in Nat
      BY <1>2, <1>5 DEF Lined
    <2>2. r = s => p < Len(cli[r]) + 1
      BY <1>2, <1>3, <1>4, <1>5
    <2> QED
      BY <1>6, <2>1, <2>2
  <1>8. Lined'
    BY <1>6, <1>7, LinedNext
  <1>9. BelowNext(s, n + 1)
    <2>1. n + 1 \in Nat /\ p < n + 1
      BY <1>3, <1>4
    <2> QED
      BY <1>2, <1>3, <1>6, <2>1
  <1>10. NextFed(task'[Watcher].todo, s, n)
    BY <1>1, <1>2, <1>4, <1>6, <1>9 DEF NextFed, Moves
  <1>11. Fed'
    BY <1>1, <1>10, FedNext DEF Moves, s, n, w, Feeds, FeedEnd
  <1>12. Kept'
    BY <1>1, KeptNext DEF Moves
  <1> QED
    BY <1>6, <1>8, <1>11, <1>12

\* Only a clear marks lines to be read again.
LEMMA AgainKept ==
  ASSUME Attends
  PROVE  tail'.again = tail.again
  <1>1. tail' = tail \/ \E s, pos, end, seeded : Tails(s, pos, end, seeded)
    <2>1. CASE Skips \/ FeedsOne \/ Carries \/ Updates \/ Resets \/ Clears \/ Loads \/ Finishes
      BY <2>1 DEF Skips, FeedsOne, Carries, Updates, Resets, Clears, Loads, Finishes
    <2>2. CASE Polls \/ Seeds \/ EndsPoll \/ Rebases
      BY <2>2 DEF Polls, Seeds, EndsPoll, Rebases
    <2>3. CASE Detects
      BY <2>3 DEF Detects
    <2> QED
      BY <2>1, <2>2, <2>3 DEF Attends
  <1> QED
    BY <1>1 DEF Tails

\* Where a poll would start, while no line is written.
LEMMA StartSame ==
  ASSUME Shapes, cli' = cli
  PROVE  /\ StartNext(tail.sess, tail.pos) = StartPos(tail.sess, tail.pos)
         /\ StartPos(tail.sess, tail.pos) + 1 \in Nat
  BY TranscriptShape DEF StartNext, StartPos

\* The watcher's other steps, which only move it.
LEMMA AttendOrder ==
  ASSUME IInv, Shapes', Attends
  PROVE  Lined' /\ Fed' /\ Kept' /\ InOrder'
  <1> DEFINE w == task[Watcher]
  <1>1. /\ Shapes /\ Numbered /\ Tasked /\ Lined /\ Fed /\ Kept /\ InOrder
        /\ UNCHANGED <<world, up, cli>>
    BY DEF IInv, Attends
  <1>2. /\ \A s \in Sessions : Len(cli[s]) \in Nat
        /\ tail.sess \in Sessions /\ tail.pos \in Nat /\ tail.end \in Nat
        /\ w.todo \in Seq(EvType) /\ w.reload \in BOOLEAN
        /\ Feeds \in Sessions /\ FeedEnd \in Nat
        /\ w.pc = "load" \/ w.reload => w.to \in Sessions
    BY <1>1, TranscriptShape, FeedShape DEF Tasked
  <1>a. tail'.again = tail.again
    BY AgainKept DEF Attends
  <1>3. ASSUME NoLine
        PROVE  /\ Lined' /\ InOrder'
               /\ \A s \in Sessions : \A n : Below(s, n) => BelowNext(s, n)
               /\ \A s \in Sessions : \A n \in Nat : Passed(s, n) => PassedNext(s, n)
               /\ \A s \in Sessions : BelowNext(s, Len(cli[s]) + 1)
               /\ \A s \in Sessions : PassedNext(s, Len(cli[s]) + 1)
    <2>1. /\ Lined' /\ InOrder'
          /\ \A s \in Sessions : \A n : Below(s, n) => BelowNext(s, n)
          /\ \A s \in Sessions : \A n \in Nat : Passed(s, n) => PassedNext(s, n)
          /\ \A s \in Sessions : BelowNext(s, Len(cli[s]) + 1)
      BY <1>1, <1>a, <1>3, QuietOrder
    <2>2. \A s \in Sessions : Len(cli[s]) + 1 \in Nat
      BY <1>2
    <2> QED
      BY <2>1, <2>2, BelowPassedNext
  <1>4. CASE Polls
    <2> DEFINE s == tail.sess
               n == Len(cli[tail.sess])
               p == StartPos(tail.sess, tail.pos)
               todo == Lines(tail.sess, p + 1, n)
    <2>1. /\ w.pc = "ready" /\ NoLine /\ tail.seeded /\ ~w.reload
          /\ Moves("next", todo, w.reload, w.to) /\ Tails(s, tail.pos, n, tail.seeded)
      BY <1>1, <1>4 DEF Polls, NoLine, Tasked
    <2>2. n \in Nat /\ p + 1 \in Nat \ {0} /\ p + 1 <= n + 1 /\ n <= Len(cli[s])
      BY <1>2, <2>1 DEF StartPos
    <2>3. n = Len(cli'[s])
      BY <1>1
    <2>5. Passed(s, p + 1)
      BY <1>1, <2>1 DEF Kept
    <2> HIDE DEF n, p
    <2>4. Consecutive(todo, s, n) /\ (todo # <<>> => First(todo) = p + 1)
      BY <1>1, <1>2, <2>2, ConsecutiveLines
    <2>6. BelowNext(s, n + 1) /\ PassedNext(s, p + 1)
      BY <1>2, <1>3, <2>1, <2>2, <2>5 DEF n
    <2> HIDE DEF todo
    <2>7. NextFed(todo, s, n)
      BY <2>2, <2>3, <2>4, <2>6 DEF NextFed
    <2>8. Fed'
      BY <2>1, <2>7, FedNext DEF Moves, Tails
    <2>9. Kept'
      BY <1>1, <2>1, KeptNext DEF Moves
    <2> QED
      BY <1>3, <2>1, <2>8, <2>9
  <1>5. CASE Seeds
    <2>1. /\ w.pc = "ready" /\ NoLine /\ task' = task
          /\ tail'.sess = tail.sess /\ tail'.pos = Len(cli[tail.sess])
      BY <1>5 DEF Seeds, NoLine, Tails
    <2>2. Fed'
      BY <2>1, NotFed
    <2>3. Kept'
      <3>1. StartNext(tail.sess, Len(cli[tail.sess])) = Len(cli[tail.sess])
        BY <1>1, <1>2 DEF StartNext
      <3> QED
        BY <1>1, <1>2, <1>3, <2>1, <3>1, KeptNext
    <2> QED
      BY <1>3, <2>1, <2>2, <2>3
  <1>6. CASE Skips \/ Carries
    <2> DEFINE s == Feeds
               n == FeedEnd
               p == First(w.todo)
    <2>1. /\ Feeding /\ NoLine /\ tail' = tail
          /\ task'[Watcher].pc \in {"next", "append", "save", "publish"}
          /\ task'[Watcher].reload = w.reload /\ task'[Watcher].to = w.to
          /\ \/ task'[Watcher].todo = w.todo
             \/ w.todo # <<>> /\ task'[Watcher].todo = Tail(w.todo)
      BY <1>6 DEF Skips, Carries, NoLine, Moves, Feeding
    <2>2. /\ Consecutive(w.todo, s, n) /\ (w.todo # <<>> => Passed(s, p) /\ p \in Nat)
          /\ n <= Len(cli'[s]) /\ Below(s, n + 1)
      BY <1>1, <2>1 DEF Fed, Consecutive
    <2>3. /\ Lined' /\ InOrder' /\ BelowNext(s, n + 1) /\ (w.todo # <<>> => PassedNext(s, p))
      BY <1>2, <1>3, <2>1, <2>2
    <2> HIDE DEF s, n, p
    <2>4. NextFed(task'[Watcher].todo, s, n)
      <3>1. CASE task'[Watcher].todo = w.todo
        BY <2>2, <2>3, <3>1 DEF NextFed, p
      <3>2. CASE w.todo # <<>> /\ task'[Watcher].todo = Tail(w.todo)
        <4>1. /\ Consecutive(Tail(w.todo), s, n) /\ p \in Nat
              /\ Tail(w.todo) # <<>> => First(Tail(w.todo)) = p + 1
          BY <1>2, <2>2, <3>2, ConsecutiveTail DEF n, p
        <4>2. p + 1 \in Nat /\ p <= p + 1 /\ PassedNext(s, p)
          BY <2>3, <3>2, <4>1
        <4>3. PassedNext(s, p + 1)
          BY <4>1, <4>2, PassedLater
        <4> QED
          BY <2>2, <2>3, <3>2, <4>1, <4>3 DEF NextFed
      <3> QED
        BY <2>1, <3>1, <3>2
    <2>5. Fed'
      BY <1>1, <1>2, <2>1, <2>4, FedNext DEF s, n, Feeds, FeedEnd
    <2>6. Kept'
      BY <1>1, <2>1, KeptNext
    <2> QED
      BY <2>3, <2>5, <2>6
  <1>7. CASE FeedsOne
    BY <1>1, <1>7, FeedOrder
  <1>8. CASE EndsPoll
    <2>1. /\ Feeding /\ ~w.reload /\ NoLine /\ task'[Watcher].pc = "ready"
          /\ tail'.sess = tail.sess /\ tail'.pos = tail.end
      BY <1>8 DEF EndsPoll, NoLine, Moves, Tails, Feeding
    <2>2. Below(tail.sess, tail.end + 1) /\ tail.end <= Len(cli[tail.sess])
      BY <1>1, <2>1 DEF Fed, Feeds, FeedEnd
    <2>3. Kept'
      <3>1. PassedNext(tail.sess, tail.end + 1)
        <4>1. BelowNext(tail.sess, tail.end + 1) /\ tail.end + 1 \in Nat
          BY <1>2, <1>3, <2>1, <2>2
        <4> QED
          BY <4>1, BelowPassedNext
      <3>2. StartNext(tail.sess, tail.end) = tail.end
        BY <1>1, <1>2, <2>2 DEF StartNext
      <3> QED
        BY <1>1, <2>1, <3>1, <3>2, KeptNext
    <2> QED
      BY <1>3, <2>1, <2>3, NotFed
  <1>9. CASE Detects \/ Updates
    <2>1. NoLine /\ task'[Watcher].pc \in {"update", "reset", "clear"}
          /\ (task'[Watcher].pc = "clear" => ~Claude)
      BY <1>9 DEF Detects, Updates, NoLine, Moves
    <2>2. Kept'
      BY <1>1, <2>1, KeptNext
    <2> QED
      BY <1>3, <2>1, <2>2, NotFed
  <1>10. CASE Resets
    <2>1. NoLine /\ buf' = <<>> /\ task'[Watcher].pc \in {"clear", "load"}
      BY <1>10 DEF Resets, NoLine, Moves
    <2>2. (\A s, n : BelowNext(s, n)) /\ (\A s, n : PassedNext(s, n))
      BY <2>1 DEF BelowNext, PassedNext
    <2>3. Kept'
      BY <1>1, <2>2, KeptNext
    <2> QED
      BY <1>3, <2>1, <2>3, NotFed
  <1>11. CASE Clears
    <2>1. /\ NoLine /\ tail' = tail /\ w.pc = "clear"
          /\ \/ Claude /\ task'[Watcher].pc = "cleared"
             \/ ~Claude /\ task'[Watcher].pc = "reset"
      BY <1>11 DEF Clears, NoLine, Moves
    <2>2. Kept'
      <3>1. CASE Claude
        <4>1. tail.seeded => PassedNext(tail.sess, StartNext(tail.sess, tail.pos) + 1)
          BY <1>1, <1>2, <1>3, <2>1, <3>1, StartSame DEF Kept
        <4> QED
          BY <1>1, <2>1, <3>1, <4>1, KeptNext
      <3>2. CASE ~Claude
        BY <1>1, <2>1, <3>2, KeptNext
      <3> QED
        BY <3>1, <3>2
    <2> QED
      BY <1>3, <2>1, <2>2, NotFed
  <1>12. CASE Loads
    <2> DEFINE s == w.to
               n == Len(cli[w.to])
               todo == Lines(w.to, 1, n)
    <2>1. /\ w.pc = "load" /\ NoLine /\ tail' = tail /\ Moves("next", todo, TRUE, s)
      BY <1>12 DEF Loads, NoLine
    <2>2. n \in Nat /\ 1 <= n + 1 /\ n <= Len(cli[s]) /\ s \in Sessions
      BY <1>2, <2>1
    <2>3. n = Len(cli'[s])
      BY <1>1
    <2> HIDE DEF n, s
    <2>4. Consecutive(todo, s, n) /\ (todo # <<>> => First(todo) = 1)
      BY <1>1, <2>2, ConsecutiveLines DEF s
    <2>5. Below(s, 1)
      BY <1>1, <2>1, <2>2 DEF Kept
    <2>6. BelowNext(s, n + 1) /\ BelowNext(s, 1) /\ PassedNext(s, 1)
      <3>1. BelowNext(s, n + 1) /\ BelowNext(s, 1) /\ 1 \in Nat
        BY <1>3, <2>1, <2>2, <2>5 DEF n, s
      <3> QED
        BY <3>1, BelowPassedNext
    <2> HIDE DEF todo
    <2>7. NextFed(todo, s, n)
      BY <2>2, <2>3, <2>4, <2>6 DEF NextFed
    <2>8. Fed'
      BY <2>1, <2>3, <2>7, FedNext DEF Moves
    <2>9. Kept'
      BY <1>1, <2>1, KeptNext DEF Moves
    <2> QED
      BY <1>3, <2>1, <2>8, <2>9
  <1>13. CASE Rebases
    <2>1. /\ NoLine /\ w.reload /\ task'[Watcher].pc = "cleared"
          /\ tail'.sess = w.to /\ tail'.pos = Len(cli[w.to])
      BY <1>13 DEF Rebases, NoLine, Moves, Tails
    <2>2. Kept'
      <3>1. w.to \in Sessions /\ StartNext(w.to, Len(cli[w.to])) = Len(cli[w.to])
        BY <1>1, <1>2, <2>1 DEF StartNext
      <3> QED
        BY <1>1, <1>3, <2>1, <3>1, KeptNext
    <2> QED
      BY <1>3, <2>1, <2>2, NotFed
  <1>14. CASE Finishes
    <2>1. NoLine /\ w.pc = "cleared" /\ task'[Watcher].pc = "ready" /\ tail' = tail
      BY <1>14 DEF Finishes, NoLine, Moves
    <2>2. tail.seeded => PassedNext(tail.sess, StartNext(tail.sess, tail.pos) + 1)
      BY <1>1, <1>2, <1>3, <2>1, StartSame DEF Kept
    <2>3. Kept'
      BY <1>1, <2>1, <2>2, KeptNext
    <2> QED
      BY <1>3, <2>1, <2>3, NotFed
  <1> QED
    BY <1>4, <1>5, <1>6, <1>7, <1>8, <1>9, <1>10, <1>11, <1>12, <1>13, <1>14 DEF Attends

\* A crash empties the buffer, and a restart fills it with one session's lines.
LEMMA CrashOrder ==
  ASSUME IInv, Falls
  PROVE  Lined' /\ Fed' /\ Kept' /\ InOrder'
  <1>1. /\ buf' = <<>> /\ cli' = cli /\ world' = world /\ task'[Watcher] = IdleTask
    BY TasksShape DEF Falls
  <1>2. NoLine /\ (\A s, n : BelowNext(s, n)) /\ (\A s, n : PassedNext(s, n)) /\ tail' = tail
    BY <1>1 DEF NoLine, BelowNext, PassedNext, Falls
  <1>3. task'[Watcher].pc = "ready"
    BY <1>1 DEF IdleTask
  <1>4. Kept'
    BY <1>1, <1>2, KeptNext
  <1> QED
    BY <1>1, <1>2, <1>3, <1>4, QuietOrder, NotFed

\* A restart loads the newest session in its order, and the watcher is not seeded yet.
LEMMA RestartOrder ==
  ASSUME IInv, Restart, Rises
  PROVE  Lined' /\ Fed' /\ Kept' /\ InOrder'
  <1> DEFINE s == Latest
             n == Len(cli[Latest])
             lines == Lines(s, 1, n)
  <1>1. /\ Shapes /\ Numbered /\ Tasked /\ ~up /\ cli' = cli /\ world' = world /\ task' = task
        /\ ~tail'.seeded
    BY DEF IInv, Rises
  <1>2. s \in Sessions /\ n \in Nat /\ 1 <= n + 1 /\ n <= Len(cli[s])
    BY <1>1, LatestShape, TranscriptShape
  <1> HIDE DEF n, s
  <1>a. 1 \in Nat \ {0}
    OBVIOUS
  <1>3. /\ DOMAIN lines = 1..(n - 1 + 1)
        /\ \A k \in DOMAIN lines : lines[k].from = <<s, 1 + k - 1>>
    BY <1>1, <1>2, <1>a, LinesShape
  <1>4. PICK history \in Seq(EvType) :
            /\ history \in {<<>>, lines} /\ DOMAIN buf' = DOMAIN history
            /\ \A i \in DOMAIN buf' : buf'[i].ev = history[i]
    BY <1>1, RestartShape DEF Refilled, n, s
  <1> HIDE DEF lines
  <1>5. \A i \in DOMAIN buf' : i \in 1..n /\ buf'[i].ev.from = <<s, i>>
    <2> SUFFICES ASSUME NEW i \in DOMAIN buf' PROVE i \in 1..n /\ buf'[i].ev.from = <<s, i>>
      OBVIOUS
    <2>1. history = lines
      BY <1>4
    <2>2. i \in 1..n /\ 1 + i - 1 = i
      BY <1>2, <1>3, <1>4, <2>1
    <2> QED
      BY <1>3, <1>4, <2>1, <2>2
  <1>6. InOrder'
    BY <1>5 DEF InOrder
  <1>7. OnlyLines'
    <2>1. s # 0
      BY <1>2, BoundsAssumption DEF Sessions
    <2> QED
      BY <1>5, <2>1 DEF OnlyLines
  <1>8. \A r \in Sessions : BelowNext(r, Len(cli'[r]) + 1)
    <2>1. n = Len(cli'[s])
      BY <1>1 DEF n, s
    <2>2. ASSUME NEW i \in DOMAIN buf' PROVE buf'[i].ev.from[1] = s /\ buf'[i].ev.from[2] < n + 1
      BY <1>2, <1>5
    <2> QED
      BY <2>1, <2>2 DEF BelowNext
  <1>9. Lined'
    BY <1>7, <1>8, LinedNext
  <1>10. task'[Watcher].pc = "ready"
    BY <1>1 DEF Tasked
  <1>11. Kept'
    BY <1>1, <1>10, KeptNext
  <1> QED
    BY <1>6, <1>9, <1>10, <1>11, NotFed

-----------------------------------------------------------------------------
(* The theorems.                                                             *)

\* The inductive invariant holds at the start.
LEMMA Start == Init => IInv
  <1> SUFFICES ASSUME Init PROVE IInv
    OBVIOUS
  <1>1. Shapes
    <2>1. 1 \in Sessions /\ 0 \in 0..MaxLines /\ world \in Worlds
      BY BoundsAssumption DEF Init, Sessions
    <2>2. task \in [Tasks -> Work]
      BY IdleShape DEF Init
    <2>3. buf \in Seq([seq : Nat, ev : EvType]) /\ pane \in Seq(Words)
      BY DEF Init
    <2>4. cli \in [Sessions -> Seq(Written)] /\ \A s \in Sessions : Len(cli[s]) <= spent.lines
      BY DEF Init
    <2>5. spent \in [sends : Nat, clears : Nat, crashes : Nat, lines : 0..MaxLines]
      BY <2>1 DEF Init
    <2>6. tail \in TailType
      BY <2>1 DEF Init, TailType
    <2>7. /\ up \in BOOLEAN /\ sending \in BOOLEAN /\ seq \in Nat /\ store = {}
          /\ sess \in Sessions /\ dbSess \in Sessions /\ cliSess \in Sessions
      BY <2>1 DEF Init
    <2> QED
      BY <2>1, <2>2, <2>3, <2>4, <2>5, <2>6, <2>7 DEF Shapes
  <1>2. buf = <<>> /\ store = {} /\ \A t \in Tasks : task[t] = IdleTask
    BY DEF Init
  <1>3. Numbered /\ Lined /\ InOrder
    BY <1>2 DEF Numbered, Lined, InOrder, Below
  <1>4. task[Watcher].pc = "ready" /\ ~task[Watcher].reload /\ up
    BY <1>2, TasksShape DEF IdleTask, Init
  <1>5. Tasked
    BY <1>2, <1>4 DEF Tasked, IdleTask
  <1>6. Fed /\ Kept
    BY <1>2, <1>4 DEF Fed, Feeding, Kept, Below, Passed
  <1> QED
    BY <1>1, <1>3, <1>5, <1>6 DEF IInv

\* Every step preserves it.
LEMMA Step == IInv /\ [Next]_vars => IInv'
  <1> SUFFICES ASSUME IInv, [Next]_vars PROVE IInv'
    OBVIOUS
  <1>1. Shapes /\ Numbered /\ Tasked
    BY DEF IInv
  <1>2. /\ RestShapes' /\ Tagged'
        /\ Aside \/ (ResetWatcherOffset /\ task'[Watcher] = task[Watcher])
           \/ (up /\ Attends) \/ Falls \/ (Restart /\ Rises)
    BY <1>1, StepKinds
  <1>3. RecordShapes' /\ Numbered'
    BY <1>1, RecordStep
  <1>4. Shapes'
    BY <1>2, <1>3 DEF Shapes, RestShapes, RecordShapes
  <1>5. Tasked'
    BY <1>1, <1>2, TaskedStep
  <1>6. Lined' /\ Fed' /\ Kept' /\ InOrder'
    BY <1>2, <1>4, AsideOrder, OffsetOrder, AttendOrder, CrashOrder, RestartOrder
  <1> QED
    BY <1>3, <1>4, <1>5, <1>6 DEF IInv

\* The strengthening of InOrder holds in every reachable state.
THEOREM Invariance == Spec => []IInv
  BY Start, Step, PTL DEF Spec

\* Every variable keeps its type, the buffer's events are numbered without a gap up to
\* the last number given, and no two rows share a number.
THEOREM TypeCorrect == Spec => []TypeOK
  <1>1. ASSUME IInv PROVE TypeOK
    <2>1. Shapes /\ Numbered
      BY <1>1 DEF IInv
    <2>2. \A i \in DOMAIN buf : buf[i].ev \in EvType
      <3>1. buf \in Seq([seq : Nat, ev : EvType])
        BY <2>1 DEF Shapes
      <3>2. \A i \in DOMAIN buf : buf[i] \in [seq : Nat, ev : EvType]
        BY <3>1, ElementShape
      <3> QED
        BY <3>2
    <2>3. \A r \in store : r.ev \in EvType /\ r.seq \in Nat /\ r.tag \in Sessions
      BY <2>1 DEF Shapes
    <2> QED
      BY <2>1, <2>2, <2>3 DEF TypeOK, Shapes, Numbered, TailType
  <1> QED
    BY <1>1, Invariance, PTL

\* Between polls, while it hands lines over, and across switches, clears, sends, crashes
\* and restarts, the watcher neither repeats a transcript line nor swaps two, but for
\* the lines a clear overtaken between its two steps put it back over.
THEOREM OrderKept == Spec => []InOrder
  <1>1. IInv => InOrder
    BY DEF IInv
  <1> QED
    BY <1>1, Invariance, PTL

-----------------------------------------------------------------------------
(* An agent whose CLI keeps to one session.                                  *)

\* Nothing ever names another session, and the watcher switches to none.
Single ==
    world.sessions = 1 =>
        /\ cliSess = 1 /\ sess = 1 /\ dbSess = 1 /\ tail.sess = 1
        /\ \A s \in Sessions : cli[s] # <<>> => s = 1
        /\ task[Watcher].to = 0
        /\ \A r \in store : r.tag = 1
        /\ \A t \in Tasks : task[t].pc = "save" => task[t].tag = 1

\* No step changes the world.
LEMMA WorldStays ==
  ASSUME [Next]_vars
  PROVE  world' = world
  BY DEF Next, vars, SendStep, Send, Tag, SaveEvent, Publish, BeginSend, WriteInput, EndSend,
     ClearStep, Clear, Reset, ClearStore, StatOffset, ResetWatcherOffset, Cleared, CliStep, CliReads, CliTyped,
     CliAnswers, CliNewSession, Crash, Restart, WatcherStep, Poll, Seed, NextLine, AppendLine,
     EndPoll, DetectSwitch, SwitchStep, UpdateResumeSessionID, LoadSession, Rebase

\* Discovery then finds that session.
LEMMA LatestIsOne ==
  ASSUME \A s \in Sessions : cli[s] # <<>> => s = 1
  PROVE  Latest = 1
  <1> DEFINE T == {s \in Sessions : cli[s] # <<>>} \cup {1}
  <1>1. T = {1}
    OBVIOUS
  <1>2. T # {} /\ T \subseteq 0..1
    BY <1>1
  <1>3. Max(T) \in T
    BY <1>2, MaxShape
  <1> QED
    BY <1>1, <1>3 DEF Latest

\* What a task is put to do.
LEMMA PutShape ==
  ASSUME Shapes, NEW t \in Tasks, NEW k, task' = [task EXCEPT ![t] = k]
  PROVE  task'[t] = k /\ \A u \in Tasks : u # t => task'[u] = task[u]
  BY DEF Shapes

\* What the watcher does to the rest.
LEMMA WatcherNames ==
  ASSUME WatcherStep
  PROVE  cliSess' = cliSess /\ (dbSess' = dbSess \/ task[Watcher].pc = "update")
  BY DEF WatcherStep, Poll, Seed, NextLine, AppendLine, EndPoll, DetectSwitch, SwitchStep, Names,
     External, UpdateResumeSessionID, Reset, ClearStore, LoadSession, Rebase, Cleared, Tag,
     SaveEvent, Publish

\* The watcher finds no other session to switch to.
LEMMA SingleWatcher ==
  ASSUME Shapes, Tasked, Single, world.sessions = 1, WatcherStep
  PROVE  Single'
  <1> DEFINE w == task[Watcher]
  <1>1. /\ cliSess = 1 /\ sess = 1 /\ dbSess = 1 /\ tail.sess = 1 /\ w.to = 0
        /\ \A s \in Sessions : cli[s] # <<>> => s = 1
        /\ \A r \in store : r.tag = 1
        /\ \A t \in Tasks : task[t].pc = "save" => task[t].tag = 1
    BY DEF Single
  <1>2. 0 \notin Sessions /\ Watcher \in Tasks /\ Latest = 1
    BY <1>1, TasksShape, LatestIsOne, BoundsAssumption DEF Sessions
  <1>3. w.pc \notin {"update", "clear", "reset", "load"} /\ ~w.reload
    BY <1>1, <1>2 DEF Tasked
  <1>4. Attends /\ UNCHANGED cli /\ \A t \in Tasks : t # Watcher => task'[t] = task[t]
    <2>1. Attends
      BY WatcherStepShape
    <2> QED
      BY <2>1 DEF Attends
  <1>5. cliSess' = 1 /\ dbSess' = 1
    BY <1>1, <1>3, WatcherNames
  <1>6. ASSUME sess' = 1, tail'.sess = 1, task'[Watcher].to = 0, \A r \in store' : r.tag = 1,
               task'[Watcher].pc = "save" => task'[Watcher].tag = 1
        PROVE  Single'
    BY <1>1, <1>4, <1>5, <1>6 DEF Single
  <1>7. CASE Polls \/ Skips \/ FeedsOne \/ EndsPoll \/ Finishes
    <2>1. UNCHANGED <<sess, store>> /\ task'[Watcher].pc # "save" /\ task'[Watcher].to = 0
      BY <1>1, <1>7 DEF Polls, Skips, FeedsOne, EndsPoll, Finishes, Moves
    <2>2. tail'.sess = tail.sess
      <3>1. CASE Polls
        BY <3>1 DEF Polls, Tails
      <3>3. CASE EndsPoll
        BY <3>3 DEF EndsPoll, Tails
      <3>2. CASE Skips \/ FeedsOne \/ Finishes
        BY <3>2 DEF Skips, FeedsOne, Finishes
      <3> QED
        BY <1>7, <3>1, <3>2, <3>3
    <2> QED
      BY <1>1, <1>6, <2>1, <2>2
  <1>8. CASE Seeds
    <2>1. UNCHANGED <<sess, store, task>> /\ tail'.sess = tail.sess
      BY <1>8 DEF Seeds, Tails
    <2> QED
      BY <1>1, <1>2, <1>6, <2>1
  <1>9. CASE Carries
    <2>1. UNCHANGED <<sess, tail>> /\ task'[Watcher].to = 0
      BY <1>1, <1>9 DEF Carries, Moves
    <2>2. task'[Watcher].pc = "save" => task'[Watcher].tag = 1
      BY <1>1, <1>9 DEF Carries, Moves
    <2>3. \A r \in store' : r.tag = 1
      <3>1. CASE store' = store
        BY <1>1, <3>1
      <3>2. CASE w.pc = "save" /\ store' = Save(store, Row(w.seq, w.ev, w.tag))
        BY <1>1, <1>2, <3>2 DEF Save, Row
      <3> QED
        BY <1>9, <3>1, <3>2 DEF Carries
    <2> QED
      BY <1>1, <1>6, <2>1, <2>2, <2>3
  <1>10. ~Detects /\ ~Updates /\ ~Resets /\ ~Clears /\ ~Loads /\ ~Rebases
    BY <1>1, <1>2, <1>3 DEF Detects, Updates, Resets, Clears, Loads, Rebases
  <1> QED
    BY <1>4, <1>7, <1>8, <1>9, <1>10 DEF Attends

\* The senders, the clearer and the CLI name no other session.
LEMMA SingleQuiet ==
  ASSUME Shapes, Single, world.sessions = 1, SendStep \/ ClearStep \/ CliStep
  PROVE  Single'
  <1>1. /\ cliSess = 1 /\ sess = 1 /\ dbSess = 1 /\ tail.sess = 1 /\ task[Watcher].to = 0
        /\ \A s \in Sessions : cli[s] # <<>> => s = 1
        /\ \A r \in store : r.tag = 1
        /\ \A t \in Tasks : task[t].pc = "save" => task[t].tag = 1
    BY DEF Single
  <1>2. /\ task \in [Tasks -> Work] /\ Clearer \in Tasks /\ Clearer # Watcher /\ Watcher \in Tasks
        /\ \A c \in Senders : c \in Tasks /\ c # Watcher
    BY TasksShape DEF Shapes
  <1>3. IdleTask.pc = "ready"
    BY DEF IdleTask
  <1>4. ASSUME NEW t \in Tasks, t # Watcher, \A u \in Tasks : u # t => task'[u] = task[u],
               task'[t].pc = "save" => task'[t].tag = 1, UNCHANGED <<cliSess, sess, dbSess, cli>>,
               tail'.sess = 1, \A r \in store' : r.tag = 1
        PROVE  Single'
    BY <1>1, <1>2, <1>4 DEF Single
  <1>5. CASE SendStep
    <2>1. PICK c \in Senders : \/ \E text \in Texts : Send(c, text)
                               \/ Tag(c) \/ SaveEvent(c) \/ Publish(c)
                               \/ BeginSend(c) \/ WriteInput(c) \/ EndSend(c)
      BY <1>5 DEF SendStep
    <2>2. c \in Tasks /\ c # Watcher /\ task[c] \in Work
      BY <1>2
    <2>3. UNCHANGED <<cliSess, sess, dbSess, cli, tail>>
      BY <2>1 DEF Send, Tag, SaveEvent, Publish, BeginSend, WriteInput, EndSend, Names, External
    <2>4. \A r \in store' : r.tag = 1
      <3>1. CASE SaveEvent(c)
        <4>1. task[c].pc = "save" /\ store' = Save(store, Row(task[c].seq, task[c].ev, task[c].tag))
          BY <3>1 DEF SaveEvent
        <4> QED
          BY <1>1, <2>2, <4>1 DEF Save, Row
      <3>2. CASE ~SaveEvent(c)
        <4>1. store' = store
          BY <2>1, <3>2 DEF Send, Tag, Publish, BeginSend, WriteInput, EndSend, Recorded
        <4> QED
          BY <1>1, <4>1
      <3> QED
        BY <3>1, <3>2
    <2>5. \A u \in Tasks : u # c => task'[u] = task[u]
      BY <2>1, <2>2, <1>2 DEF Send, AppendEvent, Tag, SaveEvent, Publish, BeginSend, WriteInput,
         EndSend, Goto
    <2>6. task'[c].pc = "save" => task'[c].tag = 1
      <3>1. CASE Tag(c)
        <4>1. task' = [task EXCEPT ![c].pc = "save", ![c].tag = sess]
          BY <3>1 DEF Tag
        <4> QED
          BY <1>1, <1>2, <2>2, <4>1 DEF Work
      <3>2. CASE ~Tag(c)
        <4>1. CASE \E text \in Texts : Send(c, text)
          <5>1. PICK ev : task' = [task EXCEPT ![c].pc = "tag", ![c].ev = ev, ![c].seq = seq + 1]
            BY <4>1 DEF Send, AppendEvent
          <5>2. task'[c].pc = "tag"
            BY <1>2, <2>2, <5>1 DEF Work
          <5> QED
            BY <5>2
        <4>2. CASE SaveEvent(c) \/ Publish(c) \/ BeginSend(c)
          <5>1. PICK l \in Steps : Goto(c, l) /\ l # "save"
            BY <4>2 DEF SaveEvent, Publish, BeginSend, Steps
          <5> QED
            BY <1>2, <2>2, <5>1, GotoShape
        <4>3. CASE WriteInput(c)
          <5> DEFINE new == IF Claude THEN IdleTask ELSE [task[c] EXCEPT !.pc = "end"]
          <5>1. task' = [task EXCEPT ![c] = new]
            BY <4>3 DEF WriteInput
          <5>2. new.pc # "save"
            BY <1>3, <2>2 DEF Work
          <5> HIDE DEF new
          <5> QED
            BY <1>2, <2>2, <5>1, <5>2
        <4>4. CASE EndSend(c)
          BY <1>2, <1>3, <2>2, <4>4 DEF EndSend
        <4> QED
          BY <2>1, <3>2, <4>1, <4>2, <4>3, <4>4
      <3> QED
        BY <3>1, <3>2
    <2> QED
      BY <1>1, <1>4, <2>2, <2>3, <2>4, <2>5, <2>6
  <1>6. CASE ClearStep
    <2>1. UNCHANGED <<cliSess, sess, dbSess, cli>> /\ store' \in {store, {}}
      BY <1>6 DEF ClearStep, Clear, Reset, ClearStore, StatOffset, ResetWatcherOffset, Cleared, Names,
         External, Recorded
    <2>2. tail'.sess = tail.sess
      <3>1. tail' = tail \/ \E n, lines : tail' = [tail EXCEPT !.pos = n, !.again = lines]
        BY <1>6 DEF ClearStep, Clear, Reset, ClearStore, StatOffset, ResetWatcherOffset, Cleared
      <3> QED
        BY <3>1 DEF Shapes, TailType
    <2>3. task'[Clearer].pc # "save" /\ \A u \in Tasks : u # Clearer => task'[u] = task[u]
      <3>1. CASE Cleared(Clearer)
        BY <1>2, <1>3, <3>1 DEF Cleared
      <3>3. CASE StatOffset
        BY <3>3, StatShape
      <3>2. CASE ~Cleared(Clearer) /\ ~StatOffset
        <4>1. PICK l \in Steps : Goto(Clearer, l) /\ l # "save"
          BY <1>6, <3>2 DEF ClearStep, Clear, Reset, ClearStore, ResetWatcherOffset, Steps
        <4> QED
          BY <1>2, <4>1, GotoShape
      <3> QED
        BY <3>1, <3>2, <3>3
    <2> QED
      BY <1>1, <1>2, <1>4, <2>1, <2>2, <2>3
  <1>7. CASE CliStep
    <2>1. UNCHANGED <<sess, dbSess, tail, task, store>>
      BY <1>7 DEF CliStep, CliReads, CliTyped, CliAnswers, CliNewSession, Write, Names, Recorded
    <2>2. ~CliNewSession
      BY <1>1 DEF CliNewSession
    <2>3. cliSess' = 1 /\ \E l : cli' = [cli EXCEPT ![cliSess] = Append(@, l)]
      BY <1>1, <1>7, <2>2 DEF CliStep, CliReads, CliTyped, CliAnswers, Write
    <2>4. \A s \in Sessions : cli'[s] # <<>> => s = 1
      <3>1. cli \in [Sessions -> Seq(Written)]
        BY DEF Shapes
      <3> QED
        BY <1>1, <2>3, <3>1
    <2> QED
      BY <1>1, <2>1, <2>3, <2>4 DEF Single
  <1> QED
    BY <1>5, <1>6, <1>7

\* A restart takes up that session.
LEMMA SingleRestart ==
  ASSUME Shapes, Single, world.sessions = 1, Restart
  PROVE  Single' /\ sess' = 1 /\ Latest = 1
  <1>1. /\ cliSess = 1 /\ dbSess = 1 /\ task[Watcher].to = 0
        /\ \A s \in Sessions : cli[s] # <<>> => s = 1
        /\ \A r \in store : r.tag = 1
        /\ \A t \in Tasks : task[t].pc = "save" => task[t].tag = 1
    BY DEF Single
  <1>2. Latest = 1
    BY <1>1, LatestIsOne
  <1>3. /\ UNCHANGED <<cliSess, dbSess, cli, task>> /\ sess' = dbSess
        /\ tail'.sess = IF Claude THEN Latest ELSE dbSess
    BY DEF Restart, External
  <1>4. tail'.sess = 1
    BY <1>1, <1>2, <1>3
  <1>5. \A r \in store' : r.tag = 1
    <2>1. PICK rows, n, history : rows \subseteq store /\ Backfill(rows, n, history)
      BY DEF Restart
    <2>2. store' = {r \in rows : r.seq \notin n + 1 .. n + Len(history)}
                       \cup {Row(n + i, history[i], dbSess) : i \in 1..Len(history)}
      BY <2>1 DEF Backfill
    <2>3. ASSUME NEW r \in store' PROVE r \in store \/ \E m, e : r = Row(m, e, 1)
      BY <1>1, <2>1, <2>2, <2>3
    <2> QED
      BY <1>1, <2>3 DEF Row
  <1> QED
    BY <1>1, <1>2, <1>3, <1>4, <1>5 DEF Single

\* Single is inductive.
LEMMA SingleStep == Shapes /\ Tasked /\ Single /\ [Next]_vars => Single'
  <1> SUFFICES ASSUME Shapes, Tasked, Single, [Next]_vars PROVE Single'
    OBVIOUS
  <1>1. CASE world.sessions # 1
    BY <1>1, WorldStays DEF Single
  <1>2. CASE world.sessions = 1
    <2>1. CASE UNCHANGED vars
      BY <2>1 DEF vars, Single
    <2>2. CASE SendStep \/ ClearStep \/ CliStep
      BY <1>2, <2>2, SingleQuiet
    <2>3. CASE WatcherStep
      BY <1>2, <2>3, SingleWatcher
    <2>4. CASE Crash
      <3>1. /\ UNCHANGED <<cliSess, sess, dbSess, cli, tail, store>> /\ Watcher \in Tasks
            /\ \A t \in Tasks : task'[t].to = 0 /\ task'[t].pc = "ready"
        BY <2>4, TasksShape DEF Crash, External, Names, IdleTask
      <3> QED
        BY <1>2, <3>1 DEF Single
    <2>5. CASE Restart
      BY <1>2, <2>5, SingleRestart
    <2> QED
      BY <2>1, <2>2, <2>3, <2>4, <2>5 DEF Next
  <1> QED
    BY <1>1, <1>2

\* It holds at the start.
LEMMA SingleStart == Init => Single
  <1> SUFFICES ASSUME Init PROVE Single
    OBVIOUS
  <1>1. /\ store = {} /\ sess = 1 /\ dbSess = 1 /\ cliSess = 1 /\ tail.sess = 1
        /\ \A s \in Sessions : cli[s] = <<>>
        /\ \A t \in Tasks : task[t] = IdleTask
    BY DEF Init
  <1>2. Watcher \in Tasks /\ IdleTask.to = 0 /\ IdleTask.pc = "ready"
    BY TasksShape DEF IdleTask
  <1> QED
    BY <1>1, <1>2 DEF Single

-----------------------------------------------------------------------------
(* Until the daemon crashes, or if the CLI never leaves its session, a       *)
(* session switch leaves nothing behind.                                     *)

\* The buffer, and the rows, have lines of session s only.
BufferOf(s) == \A i \in DOMAIN buf : buf[i].ev.from[1] \in {0, s}
RowsOf(s)   == \A r \in store : r.ev.from # Typed => r.ev.from[1] = s /\ r.tag = s

\* Nobody but the watcher has a line to record.
Scribes == \A t \in Tasks : t # Watcher => task[t].ev.from = Typed

\* What the watcher has at hand is of the session it feeds, and will be filed under it.
Filed ==
    LET w == task[Watcher] IN
    /\ w.pc \in {"tag", "save"} => w.ev.from[1] = Feeds
    /\ w.pc = "save" => w.tag = Feeds

\* Outside a switch the live agent, the watcher and everything recorded are of one
\* session.
Settled ==
    task[Watcher].to = 0 =>
        sess = tail.sess /\ BufferOf(tail.sess) /\ RowsOf(tail.sess)

\* Inside one they become so step by step.
Moving ==
    LET w == task[Watcher] IN
    /\ w.pc = "ready" \/ (Feeding /\ ~w.reload) => w.to = 0
    /\ w.pc \in {"update", "reset", "clear", "load", "cleared"} => w.to \in Sessions
    /\ Claude => ~w.reload /\ w.pc # "load"
    /\ w.to # 0 =>
          /\ w.pc # "update" => sess = w.to
          /\ w.pc = "cleared" \/ Claude => tail.sess = w.to
          /\ \/ w.pc \in {"load", "cleared"} \/ w.reload
             \/ Claude /\ w.pc = "clear"
             => BufferOf(w.to)
          /\ \/ w.pc \in {"load", "cleared"} \/ w.reload
             \/ ~Claude /\ w.pc = "reset"
             => RowsOf(w.to)

Unparted == spent.crashes = 0 \/ world.sessions = 1

Isolated ==
    /\ spent.crashes = 0 => up
    /\ Unparted => Scribes /\ Filed /\ Settled /\ Moving

BufferOfNext(s) == \A i \in DOMAIN buf' : buf'[i].ev.from[1] \in {0, s}
RowsOfNext(s)   == \A r \in store' : r.ev.from # Typed => r.ev.from[1] = s /\ r.tag = s

\* A step that records no line leaves the buffer to its session.
LEMMA QuietBufferOf ==
  ASSUME Shapes, NoLine
  PROVE  \A s : BufferOf(s) => BufferOfNext(s)
  <1>1. CASE buf' = buf \/ buf' = <<>>
    BY <1>1 DEF BufferOf, BufferOfNext
  <1>2. CASE \E text \in Texts, n \in Nat :
                 buf' = Append(buf, [seq |-> n, ev |-> Ev("user", text, Typed)])
    <2>1. PICK text \in Texts, m \in Nat :
              buf' = Append(buf, [seq |-> m, ev |-> Ev("user", text, Typed)])
      BY <1>2
    <2> DEFINE e == [seq |-> m, ev |-> Ev("user", text, Typed)]
    <2>2. e \in [seq : Nat, ev : EvType] /\ e.ev.from[1] = 0
      BY SentShape DEF Typed
    <2>3. buf \in Seq([seq : Nat, ev : EvType]) /\ buf' = Append(buf, e)
      BY <2>1 DEF Shapes
    <2> HIDE DEF e
    <2>4. \A i \in DOMAIN buf' : buf'[i] = e \/ (i \in DOMAIN buf /\ buf'[i] = buf[i])
      BY <2>2, <2>3
    <2> QED
      BY <2>2, <2>4 DEF BufferOf, BufferOfNext
  <1> QED
    BY <1>1, <1>2 DEF NoLine

\* The senders, the clearer and the CLI record no line.
LEMMA QuietRows ==
  ASSUME Shapes, Scribes, SendStep \/ ClearStep \/ CliStep \/ UNCHANGED vars
  PROVE  /\ Scribes' /\ sess' = sess /\ spent'.crashes = spent.crashes
         /\ \A s : RowsOf(s) => RowsOfNext(s)
  <1>0. /\ task \in [Tasks -> Work] /\ Clearer \in Tasks /\ Clearer # Watcher
        /\ \A c \in Senders : c \in Tasks /\ c # Watcher
        /\ spent \in [sends : Nat, clears : Nat, crashes : Nat, lines : 0..MaxLines]
    BY TasksShape DEF Shapes
  <1>a. NoEv.from = Typed /\ IdleTask.ev = NoEv
    BY DEF NoEv, Ev, IdleTask
  <1>b. ASSUME NEW t \in Tasks, NEW l \in Steps, Goto(t, l) PROVE Scribes'
    BY <1>0, <1>b, GotoShape DEF Scribes
  <1>c. ASSUME NEW t \in Tasks, task' = [task EXCEPT ![t] = IdleTask] PROVE Scribes'
    BY <1>0, <1>a, <1>c DEF Scribes
  <1>d. ASSUME store' \in {store, {}} PROVE \A s : RowsOf(s) => RowsOfNext(s)
    BY <1>d DEF RowsOf, RowsOfNext
  <1>1. CASE UNCHANGED vars
    BY <1>1, <1>d DEF vars, Scribes
  <1>2. CASE SendStep
    <2>1. PICK c \in Senders : \/ \E text \in Texts : Send(c, text)
                               \/ Tag(c) \/ SaveEvent(c) \/ Publish(c)
                               \/ BeginSend(c) \/ WriteInput(c) \/ EndSend(c)
      BY <1>2 DEF SendStep
    <2>0. c \in Tasks /\ c # Watcher /\ task[c] \in Work /\ task[c].ev.from = Typed
      BY <1>0 DEF Scribes
    <2>2. CASE \E text \in Texts : Send(c, text)
      <3>1. PICK text \in Texts : Send(c, text)
        BY <2>2
      <3> DEFINE ev == Ev("user", text, Typed)
      <3>2. /\ task' = [task EXCEPT ![c].pc = "tag", ![c].ev = ev, ![c].seq = seq + 1]
            /\ Spend("sends") /\ sess' = sess /\ store' = store
        BY <3>1 DEF Send, AppendEvent, Names
      <3>3. ev.from = Typed
        BY SentShape
      <3> HIDE DEF ev
      <3>4. task'[c].ev = ev /\ \A t \in Tasks : t # c => task'[t] = task[t]
        BY <1>0, <2>0, <3>2 DEF Work
      <3>5. spent'.crashes = spent.crashes
        BY <1>0, <3>2 DEF Spend
      <3> QED
        BY <1>d, <3>2, <3>3, <3>4, <3>5 DEF Scribes
    <2>3. CASE Tag(c)
      <3>1. task' = [task EXCEPT ![c].pc = "save", ![c].tag = sess] /\ UNCHANGED <<store, sess, spent>>
        BY <2>3 DEF Tag, Recorded, Names
      <3>2. task'[c].ev = task[c].ev /\ \A t \in Tasks : t # c => task'[t] = task[t]
        BY <1>0, <2>0, <3>1 DEF Work
      <3> QED
        BY <1>d, <2>0, <3>1, <3>2 DEF Scribes
    <2>4. CASE SaveEvent(c)
      <3>1. PICK l \in Steps : Goto(c, l)
        BY <2>4 DEF SaveEvent, Steps
      <3>2. /\ store' = Save(store, Row(task[c].seq, task[c].ev, task[c].tag))
            /\ sess' = sess /\ spent' = spent
        BY <2>4 DEF SaveEvent, Names
      <3>3. \A s : RowsOf(s) => RowsOfNext(s)
        BY <2>0, <3>2 DEF Save, Row, RowsOf, RowsOfNext
      <3> QED
        BY <1>b, <2>0, <3>1, <3>2, <3>3
    <2>5. CASE Publish(c) \/ BeginSend(c)
      <3>1. PICK l \in Steps : Goto(c, l)
        BY <2>5 DEF Publish, BeginSend, Steps
      <3>2. UNCHANGED <<store, sess, spent>>
        BY <2>5 DEF Publish, BeginSend, Recorded, Names
      <3> QED
        BY <1>b, <1>d, <2>0, <3>1, <3>2
    <2>6. CASE WriteInput(c)
      <3>1. /\ task' = [task EXCEPT ![c] = IF Claude THEN IdleTask ELSE [@ EXCEPT !.pc = "end"]]
            /\ UNCHANGED <<store, sess, spent>>
        BY <2>6 DEF WriteInput, Recorded, Names
      <3> DEFINE new == IF Claude THEN IdleTask ELSE [task[c] EXCEPT !.pc = "end"]
      <3>2. new.ev.from = Typed
        BY <1>a, <2>0 DEF Work
      <3>3. task' = [task EXCEPT ![c] = new]
        BY <3>1
      <3> HIDE DEF new
      <3> QED
        BY <1>0, <1>d, <2>0, <3>1, <3>2, <3>3 DEF Scribes
    <2>7. CASE EndSend(c)
      <3>1. task' = [task EXCEPT ![c] = IdleTask] /\ UNCHANGED <<store, sess, spent>>
        BY <2>7 DEF EndSend, Recorded, Names
      <3> QED
        BY <1>c, <1>d, <2>0, <3>1
    <2> QED
      BY <2>1, <2>2, <2>3, <2>4, <2>5, <2>6, <2>7
  <1>3. CASE ClearStep
    <2>3. CASE StatOffset
      <3>1. store' = store /\ sess' = sess /\ spent' = spent
        BY <2>3 DEF StatOffset, Recorded, Names
      <3>2. Scribes'
        BY <1>0, <2>3, StatShape DEF Scribes
      <3> QED
        BY <1>0, <1>d, <3>1, <3>2
    <2>1. CASE \/ Clear \/ Reset(Clearer, "clear") \/ ResetWatcherOffset
               \/ ClearStore(Clearer, IF Claude THEN "stat" ELSE "cleared")
      <3>1. PICK l \in Steps : Goto(Clearer, l)
        BY <2>1 DEF Clear, Reset, ClearStore, ResetWatcherOffset, Steps
      <3>2. sess' = sess /\ store' \in {store, {}} /\ (spent' = spent \/ Spend("clears"))
        BY <2>1 DEF Clear, Reset, ClearStore, ResetWatcherOffset, Recorded, Names
      <3>3. spent'.crashes = spent.crashes
        BY <1>0, <3>2 DEF Spend
      <3> QED
        BY <1>0, <1>b, <1>d, <3>1, <3>2, <3>3
    <2>2. CASE Cleared(Clearer)
      <3>1. task' = [task EXCEPT ![Clearer] = IdleTask] /\ UNCHANGED <<store, sess, spent>>
        BY <2>2 DEF Cleared, Recorded, Names
      <3> QED
        BY <1>0, <1>c, <1>d, <3>1
    <2> QED
      BY <1>3, <2>1, <2>2, <2>3 DEF ClearStep
  <1>4. CASE CliStep
    <2>1. UNCHANGED <<store, sess, task>> /\ (spent' = spent \/ Spend("lines"))
      BY <1>4 DEF CliStep, CliReads, CliTyped, CliAnswers, CliNewSession, Write, Recorded, Names
    <2>2. spent'.crashes = spent.crashes
      BY <1>0, <2>1 DEF Spend
    <2> QED
      BY <1>d, <2>1, <2>2 DEF Scribes
  <1> QED
    BY <1>1, <1>2, <1>3, <1>4

\* The parts in the step's result.
LEMMA SettledNext ==
  ASSUME task'[Watcher].to = 0 =>
             /\ sess' = tail'.sess /\ BufferOfNext(tail'.sess) /\ RowsOfNext(tail'.sess)
  PROVE  Settled'
  BY DEF Settled, BufferOf, RowsOf, BufferOfNext, RowsOfNext

MovingNext ==
    LET w == task'[Watcher] IN
    /\ \/ w.pc = "ready"
       \/ w.pc \in {"next", "append", "tag", "save", "publish"} /\ ~w.reload
       => w.to = 0
    /\ w.pc \in {"update", "reset", "clear", "load", "cleared"} => w.to \in Sessions
    /\ Claude => ~w.reload /\ w.pc # "load"
    /\ w.to # 0 =>
          /\ w.pc # "update" => sess' = w.to
          /\ w.pc = "cleared" \/ Claude => tail'.sess = w.to
          /\ \/ w.pc \in {"load", "cleared"} \/ w.reload
             \/ Claude /\ w.pc = "clear"
             => BufferOfNext(w.to)
          /\ \/ w.pc \in {"load", "cleared"} \/ w.reload
             \/ ~Claude /\ w.pc = "reset"
             => RowsOfNext(w.to)

\* MovingNext is Moving after the step.
LEMMA MovingIsNext ==
  ASSUME MovingNext, world' = world
  PROVE  Moving'
  BY DEF MovingNext, Moving, Feeding, Claude, BufferOf, RowsOf, BufferOfNext, RowsOfNext

\* Filed after the step, if s is what the watcher then feeds.
LEMMA FiledNext ==
  ASSUME NEW s,
         \/ task'[Watcher].reload /\ s = task'[Watcher].to
         \/ ~task'[Watcher].reload /\ s = tail'.sess,
         task'[Watcher].pc \in {"tag", "save"} => task'[Watcher].ev.from[1] = s,
         task'[Watcher].pc = "save" => task'[Watcher].tag = s
  PROVE  Filed'
  BY DEF Filed, Feeds

\* A watcher that records nothing has nothing to file.
LEMMA NotFiled ==
  ASSUME task'[Watcher].pc \notin {"tag", "save"}
  PROVE  Filed'
  BY DEF Filed

\* A step that leaves the watcher, and records no line.
LEMMA QuietIsolated ==
  ASSUME Shapes, Filed, Settled, Moving, NoLine, task'[Watcher] = task[Watcher],
         world' = world, tail'.sess = tail.sess, sess' = sess,
         \A s : RowsOf(s) => RowsOfNext(s)
  PROVE  Filed' /\ Settled' /\ Moving'
  <1>1. \A s : BufferOf(s) => BufferOfNext(s)
    BY QuietBufferOf
  <1>2. Filed'
    BY DEF Filed, Feeds
  <1>3. Settled'
    BY <1>1, SettledNext DEF Settled
  <1>4. MovingNext
    BY <1>1 DEF Moving, MovingNext, Feeding
  <1> QED
    BY <1>2, <1>3, <1>4, MovingIsNext

\* Each kind of step of the watcher keeps the sessions apart.
LEMMA AttendIsolated ==
  ASSUME IInv, Attends, Scribes, Filed, Settled, Moving
  PROVE  Scribes' /\ Filed' /\ Settled' /\ Moving'
  <1> DEFINE w == task[Watcher]
  <1>1. /\ Shapes /\ Tasked /\ Fed /\ Kept /\ UNCHANGED <<world, up, cli, spent>>
        /\ w.todo \in Seq(EvType) /\ w.reload \in BOOLEAN /\ 0 \notin Sessions /\ w.ev \in EvType
    BY TranscriptShape, BoundsAssumption DEF IInv, Attends, Sessions, Work
  <1>2. Scribes'
    BY DEF Attends, Scribes
  <1>3. ASSUME NoLine PROVE \A s : BufferOf(s) => BufferOfNext(s)
    BY <1>1, <1>3, QuietBufferOf
  <1>4. ASSUME store' = store PROVE \A s : RowsOf(s) => RowsOfNext(s)
    BY <1>4 DEF RowsOf, RowsOfNext
  <1>5. w.reload => w.to \in Sessions
    BY <1>1 DEF Tasked
  <1>6. CASE Polls \/ Skips
    <2>1. /\ NoLine /\ UNCHANGED <<store, sess>> /\ tail'.sess = tail.sess
          /\ w.pc \in {"ready", "next"} /\ task'[Watcher].pc \in {"next", "append"}
          /\ task'[Watcher].reload = w.reload /\ task'[Watcher].to = w.to
      BY <1>6 DEF Polls, Skips, NoLine, Moves, Tails
    <2>2. Settled'
      BY <1>3, <1>4, <2>1, SettledNext DEF Settled
    <2>3. w.pc = "ready" => ~w.reload
      BY <1>1 DEF Tasked
    <2>4. MovingNext
      BY <1>3, <1>4, <2>1, <2>3 DEF Moving, MovingNext, Feeding
    <2> QED
      BY <1>1, <1>2, <2>1, <2>2, <2>4, MovingIsNext, NotFiled
  <1>7. CASE Seeds
    <2>1. /\ NoLine /\ UNCHANGED <<store, sess, task>> /\ tail'.sess = tail.sess
      BY <1>7 DEF Seeds, NoLine, Tails
    <2> QED
      BY <1>1, <1>2, <1>4, <2>1, QuietIsolated
  <1>8. CASE FeedsOne
    <2> DEFINE s == Feeds
               ev == Head(w.todo)
    <2>1. /\ w.pc = "append" /\ w.todo # <<>> /\ UNCHANGED <<store, sess, tail>>
          /\ buf' = Append(buf, [seq |-> seq + 1, ev |-> ev])
          /\ Moves("tag", Tail(w.todo), w.reload, w.to) /\ task'[Watcher].ev = ev
      BY <1>8 DEF FeedsOne
    <2>2. ev \in EvType /\ ev.from[1] = s
      <3>1. Consecutive(w.todo, s, FeedEnd) /\ FeedEnd \in Nat
        BY <1>1, <2>1, FeedShape DEF Fed, Feeding
      <3>2. ev.from = <<s, First(w.todo)>>
        BY <1>1, <2>1, <3>1, ConsecutiveTail
      <3> QED
        BY <1>1, <2>1, <3>2
    <2>3. /\ w.reload => s = w.to
          /\ ~w.reload => s = tail.sess
      BY DEF Feeds
    <2> HIDE DEF s, ev
    <2>4. ASSUME BufferOf(s) PROVE BufferOfNext(s)
      <3>1. buf \in Seq([seq : Nat, ev : EvType]) /\ seq + 1 \in Nat
        BY <1>1 DEF Shapes
      <3> DEFINE e == [seq |-> seq + 1, ev |-> ev]
      <3>2. e \in [seq : Nat, ev : EvType] /\ e.ev.from[1] = s /\ buf' = Append(buf, e)
        BY <2>1, <2>2, <3>1
      <3> HIDE DEF e
      <3>3. \A i \in DOMAIN buf' : buf'[i] = e \/ (i \in DOMAIN buf /\ buf'[i] = buf[i])
        BY <3>1, <3>2
      <3> QED
        BY <2>4, <3>2, <3>3 DEF BufferOf, BufferOfNext
    <2>5. Filed'
      BY <1>1, <2>1, <2>2, <2>3, FiledNext DEF Moves
    <2>6. Settled'
      <3>1. w.to = 0 => s = tail.sess
        BY <1>1, <1>5, <2>3
      <3> QED
        BY <1>4, <2>1, <2>4, <3>1, SettledNext DEF Settled, Moves
    <2>7. MovingNext
      <3>1. w.to # 0 => w.reload /\ s = w.to /\ BufferOf(s) /\ RowsOf(w.to) /\ sess = w.to /\ ~Claude
        BY <1>1, <2>1, <2>3 DEF Moving, Feeding
      <3>2. (w.reload \/ w.to = 0) /\ (Claude => ~w.reload)
        BY <1>1, <2>1 DEF Moving, Feeding
      <3> QED
        BY <1>4, <2>1, <2>4, <3>1, <3>2 DEF MovingNext, Moves
    <2> QED
      BY <1>1, <1>2, <2>5, <2>6, <2>7, MovingIsNext
  <1>9. CASE Carries
    <2> DEFINE s == Feeds
    <2>1. /\ Feeding /\ NoLine /\ UNCHANGED <<sess, tail>>
          /\ task'[Watcher].pc \in {"save", "publish", "next"}
          /\ task'[Watcher].reload = w.reload /\ task'[Watcher].to = w.to
      BY <1>9 DEF Carries, NoLine, Moves, Feeding
    <2>2. /\ w.reload => s = w.to
          /\ ~w.reload => s = tail.sess
      BY DEF Feeds
    <2>3. /\ w.to = 0 => s = tail.sess /\ sess = s
          /\ w.to # 0 => w.reload /\ s = w.to /\ BufferOf(s) /\ RowsOf(s) /\ sess = s /\ ~Claude
          /\ w.reload \/ w.to = 0
          /\ Claude => ~w.reload
      BY <1>1, <1>5, <2>1, <2>2 DEF Moving, Settled, Feeding
    <2>4. Filed'
      <3>1. CASE w.pc = "tag"
        <4>1. task'[Watcher].ev = w.ev /\ task'[Watcher].tag = s /\ w.ev.from[1] = s
          BY <1>9, <2>3, <3>1 DEF Carries, Filed
        <4> QED
          BY <1>1, <2>1, <2>2, <4>1, FiledNext
      <3>2. CASE w.pc # "tag"
        <4>1. task'[Watcher].pc \notin {"tag", "save"}
          BY <1>9, <3>2 DEF Carries, Moves
        <4> QED
          BY <4>1, NotFiled
      <3> QED
        BY <3>1, <3>2
    <2>5. RowsOf(s) => RowsOfNext(s)
      <3>1. CASE store' = store
        BY <1>4, <3>1
      <3>2. CASE w.pc = "save" /\ store' = Save(store, Row(w.seq, w.ev, w.tag))
        <4>1. w.ev.from[1] = s /\ w.tag = s
          BY <3>2 DEF Filed
        <4> QED
          BY <3>2, <4>1 DEF Save, Row, RowsOf, RowsOfNext
      <3> QED
        BY <1>9, <3>1, <3>2 DEF Carries
    <2>6. BufferOf(s) => BufferOfNext(s)
      BY <1>3, <2>1
    <2> HIDE DEF s
    <2>7. Settled'
      BY <2>1, <2>3, <2>5, <2>6, SettledNext DEF Settled
    <2>8. MovingNext
      BY <1>1, <2>1, <2>3, <2>5, <2>6 DEF MovingNext
    <2> QED
      BY <1>1, <1>2, <2>4, <2>7, <2>8, MovingIsNext
  <1>10. CASE EndsPoll
    <2>1. /\ w.pc = "next" /\ ~w.reload /\ NoLine /\ UNCHANGED <<store, sess>>
          /\ Moves("ready", <<>>, FALSE, 0) /\ tail'.sess = tail.sess
      BY <1>10 DEF EndsPoll, NoLine, Tails
    <2>2. w.to = 0
      BY <2>1 DEF Moving, Feeding
    <2>3. Settled'
      BY <1>3, <1>4, <2>1, <2>2, SettledNext DEF Settled
    <2>4. MovingNext
      BY <2>1 DEF MovingNext, Moves
    <2> QED
      BY <1>1, <1>2, <2>1, <2>3, <2>4, MovingIsNext, NotFiled DEF Moves
  <1>11. CASE Detects
    <2>1. /\ w.pc = "ready" /\ ~w.reload /\ Moves("update", w.todo, w.reload, Latest)
          /\ Claude => tail'.sess = Latest
      BY <1>1, <1>11 DEF Detects, Tails, Tasked
    <2>2. Latest \in Sessions /\ Latest # 0
      BY <1>1, LatestShape
    <2>3. Settled'
      BY <2>1, <2>2, SettledNext DEF Moves
    <2>4. MovingNext
      BY <2>1, <2>2 DEF MovingNext, Moves
    <2> QED
      BY <1>1, <1>2, <2>1, <2>3, <2>4, MovingIsNext, NotFiled DEF Moves
  <1>12. CASE Updates \/ Resets \/ Clears
    <2>1. /\ w.pc \in {"update", "reset", "clear"} /\ tail' = tail
          /\ task'[Watcher].reload = w.reload /\ task'[Watcher].to = w.to
          /\ NoLine
          /\ task'[Watcher].pc \in {"reset", "clear", "cleared", "load"}
      BY <1>12 DEF Updates, Resets, Clears, Moves, NoLine
    <2>2. w.to \in Sessions /\ w.to # 0
      BY <1>1, <2>1 DEF Moving
    <2>3. sess' = w.to
      BY <1>12, <2>2 DEF Updates, Resets, Clears, Moving
    <2>4. Settled'
      BY <2>1, <2>2, SettledNext
    <2>5. w.pc = "update" => ~w.reload
      BY <1>1 DEF Tasked
    <2>6. \A s : buf' = <<>> => BufferOfNext(s)
      BY DEF BufferOfNext
    <2>7. \A s : store' = {} => RowsOfNext(s)
      BY DEF RowsOfNext
    <2>8. CASE Updates
      BY <1>1, <2>1, <2>2, <2>3, <2>4, <2>5, <2>8, <1>2, MovingIsNext, NotFiled DEF Updates,
         Moves, Moving, MovingNext
    <2>9. CASE Resets
      <3>1. MovingNext
        BY <1>4, <2>1, <2>2, <2>3, <2>5, <2>6, <2>9 DEF Resets, Moves, Moving, MovingNext
      <3> QED
        BY <1>1, <1>2, <2>1, <2>4, <3>1, MovingIsNext, NotFiled
    <2>10. CASE Clears
      <3>1. MovingNext
        BY <1>3, <2>1, <2>2, <2>3, <2>5, <2>7, <2>10 DEF Clears, Moves, Moving, MovingNext
      <3> QED
        BY <1>1, <1>2, <2>1, <2>4, <3>1, MovingIsNext, NotFiled
    <2> QED
      BY <1>12, <2>8, <2>9, <2>10
  <1>13. CASE Loads \/ Rebases
    <2>1. /\ NoLine /\ UNCHANGED <<store, sess>>
          /\ w.pc = "load" \/ (w.pc = "next" /\ w.reload)
          /\ task'[Watcher].reload = TRUE /\ task'[Watcher].to = w.to
          /\ \/ task'[Watcher].pc = "next"
             \/ task'[Watcher].pc = "cleared" /\ tail'.sess = w.to
      <3>1. CASE Loads
        BY <3>1 DEF Loads, NoLine, Moves
      <3>2. CASE Rebases
        BY <1>1, <3>2 DEF Rebases, NoLine, Moves, Tails
      <3> QED
        BY <1>13, <3>1, <3>2
    <2>2. /\ w.to \in Sessions /\ w.to # 0 /\ ~Claude /\ sess = w.to
          /\ BufferOf(w.to) /\ RowsOf(w.to)
      BY <1>1, <1>5, <2>1 DEF Moving
    <2>3. Settled'
      BY <2>1, <2>2, SettledNext
    <2>4. MovingNext
      <3>1. BufferOfNext(w.to) /\ RowsOfNext(w.to)
        BY <1>3, <1>4, <2>1, <2>2
      <3>2. sess' = w.to
        BY <2>1, <2>2
      <3> HIDE DEF w
      <3> QED
        BY <2>1, <2>2, <3>1, <3>2 DEF MovingNext
    <2> QED
      BY <1>1, <1>2, <2>1, <2>3, <2>4, MovingIsNext, NotFiled
  <1>14. CASE Finishes
    <2>1. /\ w.pc = "cleared" /\ NoLine /\ UNCHANGED <<store, sess, tail>>
          /\ Moves("ready", <<>>, FALSE, 0)
      BY <1>14 DEF Finishes, NoLine
    <2>2. w.to # 0 /\ sess = w.to /\ tail.sess = w.to /\ BufferOf(w.to) /\ RowsOf(w.to)
      BY <1>1, <2>1 DEF Moving
    <2>3. Settled'
      BY <1>3, <1>4, <2>1, <2>2, SettledNext
    <2>4. MovingNext
      BY <2>1 DEF MovingNext, Moves
    <2> QED
      BY <1>1, <1>2, <2>1, <2>3, <2>4, MovingIsNext, NotFiled DEF Moves
  <1> QED
    BY <1>6, <1>7, <1>8, <1>9, <1>10, <1>11, <1>12, <1>13, <1>14 DEF Attends

\* At the start there is one session and nothing recorded.
LEMMA IsolatedStart == Init => Isolated
  <1> SUFFICES ASSUME Init PROVE Isolated
    OBVIOUS
  <1>1. /\ up /\ buf = <<>> /\ store = {} /\ sess = 1 /\ tail.sess = 1
        /\ \A t \in Tasks : task[t] = IdleTask
    BY DEF Init
  <1>2. IdleTask.ev.from = Typed
    BY DEF IdleTask, NoEv, Ev
  <1>3. task[Watcher] = IdleTask
    BY <1>1, TasksShape
  <1>4. Scribes /\ Filed /\ Settled /\ Moving
    BY <1>1, <1>2, <1>3 DEF Scribes, Filed, Settled, Moving, Feeding, BufferOf, RowsOf, IdleTask
  <1> QED
    BY <1>1, <1>4 DEF Isolated

\* A crash and a restart of a daemon whose agent has one session.
LEMMA FallIsolated ==
  ASSUME Shapes, Single, Settled, world.sessions = 1, Crash
  PROVE  Scribes' /\ Filed' /\ Settled' /\ Moving'
  <1>1. /\ buf' = <<>> /\ UNCHANGED <<world, store, sess, tail>> /\ Watcher \in Tasks
        /\ \A t \in Tasks : task'[t] = IdleTask
    BY TasksShape DEF Crash, ResetBuf, External, Names
  <1>2. /\ IdleTask.pc = "ready" /\ IdleTask.ev.from = Typed /\ IdleTask.to = 0 /\ ~IdleTask.reload
    BY DEF IdleTask, NoEv, Ev
  <1>3. Scribes' /\ Filed'
    BY <1>1, <1>2, NotFiled DEF Scribes
  <1>4. sess = 1 /\ tail.sess = 1 /\ RowsOf(1)
    BY DEF Single, Settled
  <1>5. Settled'
    BY <1>1, <1>4, SettledNext DEF RowsOf, RowsOfNext, BufferOfNext
  <1>6. MovingNext
    BY <1>1, <1>2 DEF MovingNext
  <1> QED
    BY <1>1, <1>3, <1>5, <1>6, MovingIsNext

\* The restart reads the history of that one session.
LEMMA RiseIsolated ==
  ASSUME Shapes, Tasked, Single, Scribes, Settled, world.sessions = 1, Restart
  PROVE  Scribes' /\ Filed' /\ Settled' /\ Moving'
  <1> DEFINE lines == Lines(Latest, 1, Len(cli[Latest]))
  <1>1. /\ UNCHANGED <<world, task>> /\ task[Watcher].pc = "ready" /\ ~task[Watcher].reload
        /\ task[Watcher].to = 0 /\ dbSess = 1 /\ RowsOf(1)
    BY DEF Restart, External, Tasked, Single, Settled
  <1>2. Single' /\ sess' = 1 /\ Latest = 1
    BY SingleRestart
  <1>3. tail'.sess = 1
    BY <1>1, <1>2 DEF Single
  <1>4. \A k \in DOMAIN lines : lines[k].from = <<1, k>>
    <2> DEFINE len == Len(cli[1])
    <2>1. 1 \in Sessions /\ len \in Nat
      BY BoundsAssumption DEF Sessions, Shapes
    <2>2. 1 \in Nat \ {0} /\ 1 <= len + 1 /\ len <= Len(cli[1])
      BY <2>1
    <2> HIDE DEF len
    <2>3. /\ DOMAIN Lines(1, 1, len) = 1..(len - 1 + 1)
          /\ \A k \in DOMAIN Lines(1, 1, len) : Lines(1, 1, len)[k].from = <<1, 1 + k - 1>>
      BY <2>1, <2>2, LinesShape
    <2>4. \A k \in DOMAIN Lines(1, 1, len) : 1 + k - 1 = k
      BY <2>1, <2>3
    <2> QED
      BY <1>2, <2>3, <2>4 DEF len
  <1> HIDE DEF lines
  <1>5. PICK rows, n, history :
            /\ rows \subseteq store /\ history \in {<<>>, lines} /\ Backfill(rows, n, history)
    BY DEF Restart, lines
  <1>6. /\ buf' = [i \in 1..Len(history) |-> [seq |-> n + i, ev |-> history[i]]]
        /\ store' = {r \in rows : r.seq \notin n + 1 .. n + Len(history)}
                        \cup {Row(n + i, history[i], 1) : i \in 1..Len(history)}
    BY <1>1, <1>5 DEF Backfill
  <1>7. \A i \in 1..Len(history) : history[i].from[1] = 1
    <2>1. CASE history = <<>>
      BY <2>1
    <2>2. CASE history = lines
      <3>1. lines \in Seq(EvType)
        <4> DEFINE len == Len(cli[1])
        <4>1. 1 \in Sessions /\ len \in Nat
          BY BoundsAssumption DEF Sessions, Shapes
        <4>2. 1 \in Nat \ {0} /\ 1 <= len + 1 /\ len <= Len(cli[1])
          BY <4>1
        <4> HIDE DEF len
        <4>3. Lines(1, 1, len) \in Seq(EvType)
          BY <4>1, <4>2, LinesShape
        <4> QED
          BY <1>2, <4>3 DEF len, lines
      <3>2. DOMAIN lines = 1..Len(lines)
        BY <3>1
      <3> QED
        BY <1>4, <2>2, <3>2
    <2> QED
      BY <1>5, <2>1, <2>2
  <1>8. BufferOfNext(1)
    BY <1>6, <1>7 DEF BufferOfNext
  <1>9. RowsOfNext(1)
    <2>1. ASSUME NEW r \in store', r.ev.from # Typed PROVE r.ev.from[1] = 1 /\ r.tag = 1
      <3>1. CASE r \in store
        BY <1>1, <2>1, <3>1 DEF RowsOf
      <3>2. CASE \E i \in 1..Len(history) : r = Row(n + i, history[i], 1)
        BY <1>7, <3>2 DEF Row
      <3> QED
        BY <1>5, <1>6, <3>1, <3>2
    <2> QED
      BY <2>1 DEF RowsOfNext
  <1>10. Scribes' /\ Filed'
    BY <1>1, NotFiled DEF Scribes
  <1>11. Settled'
    BY <1>2, <1>3, <1>8, <1>9, SettledNext
  <1>12. MovingNext
    BY <1>1 DEF MovingNext
  <1> QED
    BY <1>1, <1>10, <1>11, <1>12, MovingIsNext

\* Isolated is inductive.
LEMMA IsolatedStep == IInv /\ Single /\ Isolated /\ [Next]_vars => Isolated'
  <1> SUFFICES ASSUME IInv, Single, Isolated, [Next]_vars
               PROVE  /\ spent'.crashes = 0 => up'
                      /\ Unparted' => Scribes' /\ Filed' /\ Settled' /\ Moving'
    BY DEF Isolated
  <1>1. Shapes /\ Numbered /\ Tasked /\ spent.crashes \in Nat /\ world' = world
    BY WorldStays DEF IInv, Shapes
  <1>a. ASSUME spent'.crashes = spent.crashes, Unparted' PROVE Scribes /\ Filed /\ Settled /\ Moving
    BY <1>1, <1>a DEF Isolated, Unparted
  <1>2. CASE SendStep \/ ClearStep \/ CliStep \/ UNCHANGED vars
    <2>1. spent'.crashes = spent.crashes
      <3>1. CASE UNCHANGED vars
        BY <3>1 DEF vars
      <3>2. CASE ~ UNCHANGED vars
        <4>1. spent' = spent \/ \E k \in {"sends", "clears", "lines"} : Spend(k)
          BY <1>2, <3>2 DEF SendStep, Send, Tag, SaveEvent, Publish, BeginSend, WriteInput, EndSend,
             ClearStep, Clear, Reset, ClearStore, StatOffset, ResetWatcherOffset, Cleared,
             CliStep, CliReads, CliTyped, CliAnswers, CliNewSession, Write
        <4>2. spent \in [sends : Nat, clears : Nat, crashes : Nat, lines : 0..MaxLines]
          BY <1>1 DEF Shapes
        <4> QED
          BY <4>1, <4>2 DEF Spend
      <3> QED
        BY <3>1, <3>2
    <2>3. ASSUME Unparted' PROVE Scribes' /\ sess' = sess /\ \A s : RowsOf(s) => RowsOfNext(s)
      BY <1>1, <1>2, <1>a, <2>1, <2>3, QuietRows
    <2>4. /\ NoLine /\ task'[Watcher] = task[Watcher] /\ world' = world /\ up' = up
          /\ tail'.sess = tail.sess
      <3>1. Aside \/ (ResetWatcherOffset /\ task'[Watcher] = task[Watcher])
        <4>1. CASE UNCHANGED vars
          <5>1. \A s \in Sessions : Len(cli'[s]) >= Len(cli[s])
            BY <1>1, <4>1 DEF vars, Shapes
          <5> QED
            BY <4>1, <5>1 DEF vars, Aside, NoLine
        <4>2. CASE SendStep
          BY <1>1, <4>2, SenderStep DEF SendStep
        <4>3. CASE ClearStep
          BY <1>1, <4>3, ClearerStep
        <4>4. CASE CliStep
          BY <1>1, <4>4, CliStepShape
        <4> QED
          BY <1>2, <4>1, <4>2, <4>3, <4>4
      <3>2. CASE Aside
        BY <3>2 DEF Aside
      <3>3. CASE ResetWatcherOffset /\ task'[Watcher] = task[Watcher]
        <4>1. /\ UNCHANGED <<world, up, buf>>
              /\ \E n, lines : tail' = [tail EXCEPT !.pos = n, !.again = lines]
          BY <3>3 DEF ResetWatcherOffset, Recorded
        <4>2. tail'.sess = tail.sess
          BY <1>1, <4>1 DEF Shapes, TailType
        <4> QED
          BY <3>3, <4>1, <4>2 DEF NoLine
      <3> QED
        BY <3>1, <3>2, <3>3
    <2> QED
      BY <1>1, <1>a, <2>1, <2>3, <2>4, QuietIsolated DEF Isolated
  <1>3. CASE WatcherStep
    <2>1. Attends
      BY <1>1, <1>3, WatcherStepShape
    <2>2. spent' = spent /\ up' = up
      BY <2>1 DEF Attends
    <2> QED
      BY <1>a, <2>1, <2>2, AttendIsolated DEF Isolated
  <1>4. CASE Crash
    <2>1. spent'.crashes = spent.crashes + 1
      BY <1>1, <1>4 DEF Crash, Spend, Shapes
    <2>2. spent'.crashes # 0
      BY <1>1, <2>1
    <2>3. ASSUME world.sessions = 1 PROVE Settled
      BY <2>3 DEF Isolated, Unparted
    <2> QED
      BY <1>1, <1>4, <2>2, <2>3, FallIsolated DEF Unparted
  <1>5. CASE Restart
    <2>1. ~up /\ spent' = spent
      BY <1>5 DEF Restart
    <2>2. spent'.crashes # 0
      BY <2>1 DEF Isolated
    <2>3. ASSUME world.sessions = 1 PROVE Scribes /\ Settled
      BY <2>3 DEF Isolated, Unparted
    <2> QED
      BY <1>1, <1>5, <2>2, <2>3, RiseIsolated DEF Unparted
  <1> QED
    BY <1>2, <1>3, <1>4, <1>5 DEF Next

\* Until the daemon first crashes, and for an agent whose CLI never changes session
\* after crashes too, whatever sends and clears run beside it, a session switch leaves
\* nothing of the old session in the buffer or the store, and every row is filed under
\* the session its line came from.  (With a second session a crash can part them: what
\* the restart rebuilds is the newest session's, and agents.resume_session_id may not be.)
THEOREM SessionsApart ==
  Spec => [](spent.crashes = 0 \/ world.sessions = 1 => SessionIsolation)
  <1>1. Init => Single /\ Isolated
    BY SingleStart, IsolatedStart
  <1>2. IInv /\ Single /\ Isolated /\ [Next]_vars => Single' /\ Isolated'
    BY SingleStep, IsolatedStep DEF IInv
  <1>3. Spec => []Isolated
    BY <1>1, <1>2, Invariance, PTL DEF Spec
  <1>4. ASSUME TypeOK, Isolated
        PROVE  spent.crashes = 0 \/ world.sessions = 1 => SessionIsolation
    BY <1>4 DEF Isolated, Unparted, SessionIsolation, Settled, Switching, BufferOf, RowsOf
  <1> QED
    BY <1>3, <1>4, TypeCorrect, PTL

-----------------------------------------------------------------------------
(* The store keeps what is live and what was told.                           *)

\* The agents whose store a restart or a switch cannot renumber under a task: a Hermes
\* agent of one session, crashes and all; or, while the daemon never crashes, any agent
\* of one session, or one nobody sends to.
Orderly(w) ==
    \/ w.provider = "hermes" /\ w.sessions = 1
    \/ w.crashes = 0 /\ (w.sessions = 1 \/ w.sends = 0)

\* Nothing happens to an agent that its world does not have.
Idling ==
    /\ world.sends = 0 => \A c \in Senders : task[c].pc = "ready"
    /\ spent.clears = 0 => task[Clearer].pc = "ready"
    /\ spent.crashes <= world.crashes
    /\ ~up => \A t \in Tasks : task[t].pc = "ready"

Unsaved(t) == task[t].pc \in {"tag", "save"}

\* A row's number is not past the buffer's.
RowsBehind ==
    up /\ task[Watcher].pc # "clear" => \A r \in store : r.seq <= seq

\* The number of an event not saved yet is its own.
OwnNumbers ==
    /\ \A t \in Tasks : Unsaved(t) =>
          /\ task[t].seq \in 1..seq
          /\ \A r \in store : r.seq # task[t].seq
          /\ \A i \in DOMAIN buf : buf[i].seq = task[t].seq => buf[i].ev = task[t].ev
    /\ \A t, u \in Tasks : Unsaved(t) /\ Unsaved(u) /\ task[t].seq = task[u].seq => t = u

\* What is told, or about to be, is saved.
ToldSaved ==
    /\ \A t \in Tasks : task[t].pc = "publish" =>
          \E r \in store : r.seq = task[t].seq /\ r.ev = task[t].ev
    /\ task[Watcher].to = 0 => \A e \in told : HasRow(e)

\* What is live is saved or about to be, except between the halves of a switch.
LiveSaved ==
    /\ task[Watcher].pc # "reset" =>
          \A i \in DOMAIN buf :
              HasRow(buf[i]) \/ \E t \in Tasks : Unsaved(t) /\ task[t].seq = buf[i].seq
    /\ Claude /\ task[Watcher].pc = "clear" => buf = <<>>
    /\ ~Claude /\ task[Watcher].pc = "reset" => store = {}

Sound  == RowsBehind /\ OwnNumbers /\ ToldSaved /\ LiveSaved
Stored == spent.clears = 0 /\ Orderly(world) => Sound

\* Idling holds at the start.
LEMMA IdlingStart == Init => Idling
  <1> SUFFICES ASSUME Init PROVE Idling
    OBVIOUS
  <1>1. /\ up /\ spent.crashes = 0 /\ world \in World
        /\ \A t \in Tasks : task[t].pc = "ready"
    BY WorldsAssumption DEF Init, IdleTask
  <1>2. 0 <= world.crashes
    BY <1>1 DEF World
  <1> QED
    BY <1>1, <1>2, TasksShape DEF Idling

\* Idling is inductive: a request or a crash is spent before anything comes of it.
LEMMA IdlingStep == Shapes /\ Tasked /\ Idling /\ [Next]_vars => Idling'
  <1> SUFFICES ASSUME Shapes, Tasked, Idling, [Next]_vars PROVE Idling'
    OBVIOUS
  <1>1. /\ task \in [Tasks -> Work] /\ world' = world /\ world \in World
        /\ spent \in [sends : Nat, clears : Nat, crashes : Nat, lines : 0..MaxLines]
    BY WorldStays, WorldsAssumption DEF Shapes
  <1>2. CASE UNCHANGED vars
    BY <1>2 DEF vars, Idling
  <1>3. CASE SendStep
    <2>1. PICK c \in Senders : \/ \E text \in Texts : Send(c, text)
                               \/ Tag(c) \/ SaveEvent(c) \/ Publish(c)
                               \/ BeginSend(c) \/ WriteInput(c) \/ EndSend(c)
      BY <1>3 DEF SendStep
    <2>2. task[c].pc # "ready" \/ spent.sends < world.sends
      BY <2>1 DEF Send, Tag, SaveEvent, Publish, BeginSend, WriteInput, EndSend
    <2>3. world.sends # 0
      BY <1>1, <2>2 DEF Idling
    <2>6. \A u \in Tasks : u # c => task'[u] = task[u]
      BY <1>1, <2>1 DEF Send, AppendEvent, Tag, SaveEvent, Publish, BeginSend, WriteInput, EndSend, Goto
    <2>7. up'
      BY <2>1 DEF Send, Tag, SaveEvent, Publish, BeginSend, WriteInput, EndSend, Serving
    <2>4. up' /\ task'[Clearer] = task[Clearer]
      BY <2>6, <2>7, TasksShape
    <2>5. spent'.crashes = spent.crashes /\ spent'.clears = spent.clears
      BY <1>1, <2>1 DEF Send, Spend, Tag, SaveEvent, Publish, BeginSend, WriteInput, EndSend
    <2> QED
      BY <1>1, <2>3, <2>4, <2>5 DEF Idling
  <1>4. CASE ClearStep
    <2>1. spent'.clears # 0 /\ spent'.crashes = spent.crashes
      <3>1. CASE Clear
        BY <1>1, <3>1 DEF Clear, Spend
      <3>2. CASE ~Clear
        <4>1. spent' = spent /\ task[Clearer].pc # "ready"
          BY <1>4, <3>2 DEF ClearStep, Reset, ClearStore, StatOffset, ResetWatcherOffset, Cleared
        <4> QED
          BY <4>1 DEF Idling
      <3> QED
        BY <3>1, <3>2
    <2>2. up' /\ \A c \in Senders : task'[c] = task[c]
      BY <1>1, <1>4, TasksShape DEF ClearStep, Clear, Reset, ClearStore, StatOffset, ResetWatcherOffset, Cleared,
         Goto, Serving
    <2> QED
      BY <1>1, <2>1, <2>2 DEF Idling
  <1>5. CASE WatcherStep
    <2>1. Attends /\ up
      BY <1>5, WatcherStepShape, WatcherRuns
    <2> QED
      BY <1>1, <2>1, TasksShape DEF Attends, Idling
  <1>6. CASE CliStep
    <2>1. UNCHANGED <<up, task>> /\ (spent' = spent \/ Spend("lines"))
      BY <1>6 DEF CliStep, CliReads, CliTyped, CliAnswers, CliNewSession, Write
    <2>2. spent'.crashes = spent.crashes /\ spent'.clears = spent.clears
      BY <1>1, <2>1 DEF Spend
    <2> QED
      BY <1>1, <2>1, <2>2 DEF Idling
  <1>7. CASE Crash
    <2>1. /\ spent'.crashes = spent.crashes + 1 /\ spent.crashes < world.crashes
          /\ spent'.clears = spent.clears
      BY <1>1, <1>7 DEF Crash, Spend
    <2>2. \A t \in Tasks : task'[t].pc = "ready"
      BY <1>7 DEF Crash, IdleTask
    <2>3. spent'.crashes <= world.crashes
      BY <1>1, <2>1 DEF World
    <2> QED
      BY <1>1, <2>1, <2>2, <2>3, TasksShape DEF Idling
  <1>8. CASE Restart
    BY <1>1, <1>8 DEF Restart, Idling
  <1> QED
    BY <1>2, <1>3, <1>4, <1>5, <1>6, <1>7, <1>8 DEF Next

\* An event is recorded under the next number.
LEMMA AppendStored ==
  ASSUME Shapes, Numbered, Sound, up, NEW t \in Tasks, NEW ev \in EvType,
         task[t].pc \in {"ready", "append"}, task[Watcher].pc \notin {"clear", "reset"},
         seq' = seq + 1, buf' = Append(buf, [seq |-> seq + 1, ev |-> ev]),
         UNCHANGED <<world, up, store, told>>, \A u \in Tasks : u # t => task'[u] = task[u],
         task'[t].pc = "tag", task'[t].ev = ev, task'[t].seq = seq + 1, task'[t].to = task[t].to
  PROVE  Sound'
  <1>1. /\ seq \in Nat /\ buf \in Seq([seq : Nat, ev : EvType]) /\ Len(buf) \in Nat
        /\ store \subseteq [seq : Nat, ev : EvType, tag : Sessions]
        /\ \A r \in store : r.seq <= seq /\ r.seq \in Nat
    <2>1. store \subseteq [seq : Nat, ev : EvType, tag : Sessions]
      BY DEF Shapes
    <2>2. \A r \in store : r.seq <= seq
      BY DEF Sound, RowsBehind
    <2>3. \A r \in store : r.seq \in Nat
      BY <2>1
    <2>4. seq \in Nat /\ buf \in Seq([seq : Nat, ev : EvType])
      BY DEF Shapes
    <2> QED
      BY <2>1, <2>2, <2>3, <2>4
  <1>2. /\ Len(buf') = Len(buf) + 1 /\ buf'[Len(buf')].ev = ev
        /\ \A i \in DOMAIN buf : i \in DOMAIN buf' /\ buf'[i] = buf[i]
        /\ \A i \in DOMAIN buf' : i = Len(buf') \/ i \in DOMAIN buf
        /\ \A i \in DOMAIN buf' : buf'[i].seq = seq' - Len(buf') + i
    BY AppendShape
  <1>3. buf'[Len(buf')].seq = seq + 1
    <2>1. Len(buf') \in DOMAIN buf'
      BY <1>1
    <2>2. buf'[Len(buf')].seq = seq' - Len(buf') + Len(buf')
      BY <1>2, <2>1
    <2>3. Len(buf') \in Nat
      BY <1>1, <1>2
    <2> QED
      BY <1>1, <2>2, <2>3
  <1>4. \A i \in DOMAIN buf : buf[i].seq \in Nat /\ buf[i].seq <= seq
    <2>1. ASSUME NEW i \in DOMAIN buf PROVE buf[i].seq \in Nat /\ buf[i].seq <= seq
      <3>3. buf[i].seq = seq - Len(buf) + i
        BY DEF Numbered
      <3>4. buf[i] \in [seq : Nat, ev : EvType]
        BY <1>1, ElementShape
      <3>1. buf[i].seq = seq - Len(buf) + i /\ buf[i].seq \in Nat
        BY <3>3, <3>4
      <3>2. i \in 1..Len(buf)
        BY <1>1
      <3> QED
        BY <1>1, <3>1, <3>2
    <2> QED
      BY <2>1
  <1>5. \A u \in Tasks : u # t =>
            /\ task'[u] = task[u]
            /\ Unsaved(u) => task[u].seq \in 1..seq /\ task[u].seq # seq + 1
    BY <1>1 DEF Sound, OwnNumbers
  <1>6. RowsBehind'
    <2>1. \A r \in store : r.seq <= seq + 1
      BY <1>1
    <2> QED
      BY <2>1 DEF RowsBehind
  <1>7. OwnNumbers'
    <2>1. ASSUME NEW u \in Tasks, Unsaved(u)'
          PROVE  /\ task'[u].seq \in 1..seq'
                 /\ \A r \in store' : r.seq # task'[u].seq
                 /\ \A i \in DOMAIN buf' : buf'[i].seq = task'[u].seq => buf'[i].ev = task'[u].ev
      <3>1. CASE u = t
        <4>1. \A r \in store' : r.seq # seq + 1
          BY <1>1
        <4>2. \A i \in DOMAIN buf' : buf'[i].seq = seq + 1 => buf'[i].ev = ev
          <5>1. \A i \in DOMAIN buf : buf[i].seq # seq + 1
            BY <1>1, <1>4
          <5> QED
            BY <1>2, <5>1
        <4> QED
          BY <1>1, <3>1, <4>1, <4>2
      <3>2. CASE u # t
        <4>1. task'[u] = task[u] /\ Unsaved(u)
          BY <1>5, <2>1, <3>2 DEF Unsaved
        <4>2. /\ task[u].seq \in 1..seq /\ task[u].seq # seq + 1
              /\ \A r \in store : r.seq # task[u].seq
              /\ \A i \in DOMAIN buf : buf[i].seq = task[u].seq => buf[i].ev = task[u].ev
          BY <1>5, <3>2, <4>1 DEF Sound, OwnNumbers
        <4>3. \A i \in DOMAIN buf' : buf'[i].seq = task[u].seq => buf'[i].ev = task[u].ev
          <5>1. ASSUME NEW i \in DOMAIN buf', buf'[i].seq = task[u].seq PROVE buf'[i].ev = task[u].ev
            <6>1. i # Len(buf')
              BY <1>3, <4>2, <5>1
            <6>2. i \in DOMAIN buf /\ buf'[i] = buf[i]
              BY <1>2, <6>1
            <6> QED
              BY <4>2, <5>1, <6>2
          <5> QED
            BY <5>1
        <4> QED
          BY <1>1, <4>1, <4>2, <4>3
      <3> QED
        BY <3>1, <3>2
    <2>2. ASSUME NEW u \in Tasks, NEW v \in Tasks, Unsaved(u)', Unsaved(v)',
                 task'[u].seq = task'[v].seq
          PROVE  u = v
      BY <1>1, <1>5, <2>2 DEF Unsaved, Sound, OwnNumbers
    <2> QED
      BY <2>1, <2>2 DEF OwnNumbers
  <1>8. task'[Watcher].to = task[Watcher].to /\ task'[Watcher].pc \notin {"clear", "reset"}
    BY <1>5, TasksShape
  <1>9. ToldSaved'
    <2>1. ASSUME NEW u \in Tasks, task'[u].pc = "publish"
          PROVE  task[u].pc = "publish" /\ task'[u] = task[u]
      BY <1>5, <2>1
    <2> QED
      BY <1>8, <2>1 DEF ToldSaved, Sound, HasRow
  <1>10. LiveSaved'
    <2>1. ASSUME NEW i \in DOMAIN buf'
          PROVE  (HasRow(buf[i]))' \/ \E u \in Tasks : Unsaved(u)' /\ task'[u].seq = buf'[i].seq
      <3>1. CASE i \in DOMAIN buf
        <4>1. HasRow(buf[i]) \/ \E u \in Tasks : Unsaved(u) /\ task[u].seq = buf[i].seq
          BY <3>1 DEF Sound, LiveSaved
        <4>2. buf'[i] = buf[i]
          BY <1>2, <3>1
        <4>3. ASSUME NEW u \in Tasks, Unsaved(u) PROVE Unsaved(u)' /\ task'[u] = task[u]
          BY <1>5, <4>3 DEF Unsaved
        <4> QED
          BY <4>1, <4>2, <4>3 DEF HasRow
      <3>2. CASE i = Len(buf')
        BY <1>3, <3>2 DEF Unsaved
      <3> QED
        BY <1>2, <3>1, <3>2
    <2> QED
      BY <1>8, <2>1 DEF LiveSaved
  <1> QED
    BY <1>6, <1>7, <1>9, <1>10 DEF Sound

\* A task moves on without saving.
LEMMA CarryStored ==
  ASSUME Sound, NEW t \in Tasks, UNCHANGED <<world, up, buf, seq, store>>,
         \A u \in Tasks : u # t => task'[u] = task[u],
         \/ task[t].pc = "tag" /\ task'[t].pc = "save" /\ told' = told
         \/ /\ task[t].pc = "publish" /\ task'[t].pc \in {"next", "write", "begin"}
            /\ told' = told \cup {[seq |-> task[t].seq, ev |-> task[t].ev]},
         task'[t].seq = task[t].seq, task'[t].ev = task[t].ev, task'[t].to = task[t].to
  PROVE  Sound'
  <1>1. \A u \in Tasks :
            /\ task'[u].seq = task[u].seq /\ task'[u].ev = task[u].ev /\ task'[u].to = task[u].to
            /\ Unsaved(u)' = Unsaved(u)
            /\ task'[u].pc = "publish" => task[u].pc = "publish"
            /\ \A l \in {"clear", "reset"} : (task'[u].pc = l) = (task[u].pc = l)
    <2>1. ASSUME NEW u \in Tasks
          PROVE  /\ task'[u].seq = task[u].seq /\ task'[u].ev = task[u].ev /\ task'[u].to = task[u].to
                 /\ Unsaved(u)' <=> Unsaved(u)
                 /\ task'[u].pc = "publish" => task[u].pc = "publish"
                 /\ \A l \in {"clear", "reset"} : (task'[u].pc = l) <=> (task[u].pc = l)
      <3>1. CASE u = t
        BY <3>1 DEF Unsaved
      <3>2. CASE u # t
        BY <3>2 DEF Unsaved
      <3> QED
        BY <3>1, <3>2
    <2> QED
      BY <2>1 DEF Unsaved
  <1>2. Watcher \in Tasks
    BY TasksShape
  <1>3. RowsBehind'
    BY <1>1, <1>2 DEF Sound, RowsBehind
  <1>4. OwnNumbers'
    BY <1>1 DEF Sound, OwnNumbers
  <1>5. \A e : HasRow(e) => HasRow(e)'
    BY DEF HasRow
  <1>6. ToldSaved'
    <2>1. \A u \in Tasks : task'[u].pc = "publish" =>
              \E r \in store' : r.seq = task'[u].seq /\ r.ev = task'[u].ev
      BY <1>1 DEF Sound, ToldSaved, HasRow
    <2>2. ASSUME task'[Watcher].to = 0 PROVE \A e \in told' : HasRow(e)'
      <3>1. \A e \in told : HasRow(e)
        BY <1>1, <1>2, <2>2 DEF Sound, ToldSaved
      <3>2. task[t].pc = "publish" => HasRow([seq |-> task[t].seq, ev |-> task[t].ev])
        BY DEF Sound, ToldSaved, HasRow
      <3> QED
        BY <1>5, <3>1, <3>2
    <2> QED
      BY <2>1, <2>2 DEF ToldSaved
  <1>7. LiveSaved'
    BY <1>1, <1>2 DEF Sound, LiveSaved, HasRow, Claude
  <1> QED
    BY <1>3, <1>4, <1>6, <1>7 DEF Sound

\* A row is saved under the event's own number.
LEMMA RowStored ==
  ASSUME Shapes, Numbered, Sound, NEW t \in Tasks, UNCHANGED <<world, up, buf, seq, told>>,
         \A u \in Tasks : u # t => task'[u] = task[u],
         task[t].pc = "save", task'[t].pc \in {"publish", "next"},
         task'[t].seq = task[t].seq, task'[t].ev = task[t].ev, task'[t].to = task[t].to,
         task[Watcher].pc \notin {"clear", "reset"},
         store' = Save(store, Row(task[t].seq, task[t].ev, task[t].tag))
  PROVE  /\ Sound'
         /\ \A r \in store : \A q \in store' : q.seq = r.seq => q.ev = r.ev
  <1> DEFINE n == task[t].seq
             w == Row(n, task[t].ev, task[t].tag)
  <1>1. /\ seq \in Nat /\ n \in 1..seq /\ \A r \in store : r.seq # n
        /\ \A i \in DOMAIN buf : buf[i].seq = n => buf[i].ev = task[t].ev
        /\ \A u \in Tasks : Unsaved(u) /\ task[u].seq = n => u = t
    BY DEF Shapes, Sound, OwnNumbers, Unsaved
  <1>2. w.seq = n /\ w.ev = task[t].ev
    BY DEF Row
  <1>3. store' = store \cup {w}
    BY <1>1, <1>2 DEF Save
  <1> HIDE DEF n, w
  <1>4. \A e : HasRow(e) => HasRow(e)'
    BY <1>3 DEF HasRow
  <1>5. \A u \in Tasks : task'[u].to = task[u].to /\ task'[u].seq = task[u].seq /\ task'[u].ev = task[u].ev
    OBVIOUS
  <1>6. Watcher \in Tasks /\ task'[Watcher].pc \notin {"clear", "reset"}
    BY TasksShape
  <1>7. RowsBehind'
    <2>1. up' => \A r \in store' : r.seq <= seq
      BY <1>1, <1>2, <1>3 DEF Sound, RowsBehind
    <2> QED
      BY <2>1 DEF RowsBehind
  <1>8. \A u \in Tasks : Unsaved(u)' => u # t /\ Unsaved(u) /\ task[u].seq # n
    BY <1>1 DEF Unsaved
  <1>9. OwnNumbers'
    <2>1. ASSUME NEW u \in Tasks, Unsaved(u)'
          PROVE  /\ task'[u].seq \in 1..seq'
                 /\ \A r \in store' : r.seq # task'[u].seq
                 /\ \A i \in DOMAIN buf' : buf'[i].seq = task'[u].seq => buf'[i].ev = task'[u].ev
      <3>1. u # t /\ Unsaved(u) /\ task[u].seq # n /\ task'[u] = task[u]
        BY <1>8, <2>1
      <3>2. /\ task[u].seq \in 1..seq
            /\ \A r \in store : r.seq # task[u].seq
            /\ \A i \in DOMAIN buf : buf[i].seq = task[u].seq => buf[i].ev = task[u].ev
        BY <3>1 DEF Sound, OwnNumbers
      <3> QED
        BY <1>2, <1>3, <3>1, <3>2
    <2>2. ASSUME NEW u \in Tasks, NEW v \in Tasks, Unsaved(u)', Unsaved(v)',
                 task'[u].seq = task'[v].seq
          PROVE  u = v
      BY <1>5, <1>8, <2>2 DEF Sound, OwnNumbers
    <2> QED
      BY <2>1, <2>2 DEF OwnNumbers
  <1>10. ToldSaved'
    <2>1. ASSUME NEW u \in Tasks, task'[u].pc = "publish"
          PROVE  \E r \in store' : r.seq = task'[u].seq /\ r.ev = task'[u].ev
      <3>1. CASE u = t
        BY <1>2, <1>3, <1>5, <3>1 DEF HasRow, n
      <3>2. CASE u # t
        <4>1. task'[u] = task[u] /\ task[u].pc = "publish"
          BY <2>1, <3>2
        <4>2. PICK r \in store : r.seq = task[u].seq /\ r.ev = task[u].ev
          BY <4>1 DEF Sound, ToldSaved
        <4> QED
          BY <1>3, <4>1, <4>2
      <3> QED
        BY <3>1, <3>2
    <2>2. task'[Watcher].to = 0 => \A e \in told' : HasRow(e)'
      BY <1>4, <1>5, <1>6 DEF Sound, ToldSaved
    <2> QED
      BY <2>1, <2>2 DEF ToldSaved
  <1>11. LiveSaved'
    <2>1. ASSUME NEW i \in DOMAIN buf
          PROVE  HasRow(buf[i])' \/ \E u \in Tasks : Unsaved(u)' /\ task'[u].seq = buf[i].seq
      <3>1. CASE HasRow(buf[i])
        BY <1>4, <3>1
      <3>2. CASE buf[i].seq = n
        BY <1>1, <1>2, <1>3, <3>2 DEF HasRow
      <3>3. CASE ~HasRow(buf[i]) /\ buf[i].seq # n
        <4>1. PICK u \in Tasks : Unsaved(u) /\ task[u].seq = buf[i].seq
          BY <3>3 DEF Sound, LiveSaved
        <4>2. u # t
          BY <3>3, <4>1 DEF n
        <4> QED
          BY <4>1, <4>2 DEF Unsaved
      <3> QED
        BY <3>1, <3>2, <3>3
    <2> QED
      BY <1>6, <2>1 DEF LiveSaved, HasRow
  <1>12. \A r \in store : \A q \in store' : q.seq = r.seq => q.ev = r.ev
    BY <1>1, <1>2, <1>3 DEF Numbered
  <1> QED
    BY <1>7, <1>9, <1>10, <1>11, <1>12 DEF Sound

\* A task that records nothing before or after the step.
LEMMA IdleStored ==
  ASSUME Sound, NEW t \in Tasks, UNCHANGED <<world, up, buf, seq, store>>,
         \A u \in Tasks : u # t => task'[u] = task[u],
         task[t].pc \notin {"tag", "save"}, task'[t].pc \notin {"tag", "save", "publish"},
         task[Watcher].pc \notin {"clear", "reset"},
         task'[Watcher].pc = "reset" => Claude,
         task'[Watcher].pc = "clear" => ~Claude,
         \/ told' = told /\ (task'[Watcher].to = 0 => task[Watcher].to = 0)
         \/ told' = {}
  PROVE  Sound'
  <1>1. \A u \in Tasks :
            /\ Unsaved(u)' <=> Unsaved(u)
            /\ Unsaved(u) => task'[u] = task[u]
            /\ task'[u].pc = "publish" => task[u].pc = "publish" /\ task'[u] = task[u]
    <2>1. ASSUME NEW u \in Tasks
          PROVE  /\ Unsaved(u)' <=> Unsaved(u)
                 /\ Unsaved(u) => task'[u] = task[u]
                 /\ task'[u].pc = "publish" => task[u].pc = "publish" /\ task'[u] = task[u]
      <3>1. CASE u = t
        BY <3>1 DEF Unsaved
      <3>2. CASE u # t
        BY <3>2 DEF Unsaved
      <3> QED
        BY <3>1, <3>2
    <2> QED
      BY <2>1
  <1>2. RowsBehind'
    BY DEF Sound, RowsBehind
  <1>3. OwnNumbers'
    BY <1>1 DEF Sound, OwnNumbers
  <1>4. ToldSaved'
    BY <1>1 DEF Sound, ToldSaved, HasRow
  <1>5. LiveSaved'
    BY <1>1 DEF Sound, LiveSaved, HasRow, Claude
  <1> QED
    BY <1>2, <1>3, <1>4, <1>5 DEF Sound

\* What the watcher's steps do to the numbers and to what is told.
LEMMA WatcherRest ==
  ASSUME WatcherStep
  PROVE  /\ task[Watcher].pc \notin {"append", "reset"} => seq' = seq
         /\ task[Watcher].pc = "reset" => seq' = 0
         /\ task[Watcher].pc \notin {"publish", "cleared"} => told' = told
         /\ task[Watcher].pc = "cleared" => told' = {}
         /\ \/ task[Watcher].pc = "tag" /\ Tag(Watcher)
            \/ task[Watcher].pc = "save" /\ SaveEvent(Watcher)
            \/ task[Watcher].pc = "publish" /\ Publish(Watcher)
            \/ task[Watcher].pc = "append" /\ AppendLine
            \/ task[Watcher].pc \notin {"tag", "save", "publish", "append"}
  <1> USE DEF Recorded
  <1>1. CASE Poll \/ Seed \/ NextLine \/ EndPoll \/ DetectSwitch
    BY <1>1 DEF Poll, Seed, NextLine, EndPoll, DetectSwitch, Idle
  <1>2. CASE AppendLine
    BY <1>2 DEF AppendLine
  <1>3. CASE SwitchStep
    BY <1>3 DEF SwitchStep, UpdateResumeSessionID, Reset, ResetBuf, ClearStore, LoadSession, Rebase, Cleared
  <1>4. CASE Tag(Watcher) \/ SaveEvent(Watcher) \/ Publish(Watcher)
    BY <1>4 DEF Tag, SaveEvent, Publish
  <1> QED
    BY <1>1, <1>2, <1>3, <1>4 DEF WatcherStep

\* An orderly agent in the middle of a switch has nobody sending, and a daemon that does
\* not crash.
LEMMA OrderlyWorld ==
  ASSUME Shapes, Tasked, Single, Idling, Orderly(world), task[Watcher].to # 0
  PROVE  world.crashes = 0 /\ \A c \in Senders : task[c].pc = "ready"
  BY DEF Orderly, Single, Idling

\* Tag, SaveEvent and Publish, of whoever takes them.
LEMMA RecordStored ==
  ASSUME Shapes, Numbered, Sound, NEW t \in Tasks, Tag(t) \/ SaveEvent(t) \/ Publish(t),
         task[Watcher].pc \notin {"clear", "reset"}
  PROVE  /\ Sound'
         /\ \A r \in store : \A q \in store' : q.seq = r.seq => q.ev = r.ev
  <1>1. task \in [Tasks -> Work] /\ task[t] \in Work
    BY DEF Shapes
  <1>2. \A r \in store : \A q \in store : q.seq = r.seq => q.ev = r.ev
    BY DEF Numbered
  <1>3. CASE Tag(t)
    <2>1. /\ task' = [task EXCEPT ![t].pc = "save", ![t].tag = sess] /\ task[t].pc = "tag"
          /\ UNCHANGED <<world, up, buf, seq, store, told>>
      BY <1>3 DEF Tag, Recorded
    <2>2. /\ task'[t].pc = "save" /\ task'[t].seq = task[t].seq /\ task'[t].ev = task[t].ev
          /\ task'[t].to = task[t].to
      BY <1>1, <2>1 DEF Work
    <2>3. \A u \in Tasks : u # t => task'[u] = task[u]
      BY <1>1, <2>1
    <2> QED
      BY <1>2, <2>1, <2>2, <2>3, CarryStored
  <1>4. CASE SaveEvent(t)
    <2>1. PICK l \in {"publish", "next"} : Goto(t, l)
      BY <1>4 DEF SaveEvent
    <2>2. /\ task[t].pc = "save" /\ store' = Save(store, Row(task[t].seq, task[t].ev, task[t].tag))
          /\ UNCHANGED <<world, up, buf, seq, told>>
      BY <1>4 DEF SaveEvent
    <2>3. l \in Steps
      BY DEF Steps
    <2> QED
      BY <1>1, <2>1, <2>2, <2>3, GotoShape, RowStored
  <1>5. CASE Publish(t)
    <2>1. PICK l \in {"next", "write", "begin"} : Goto(t, l)
      BY <1>5 DEF Publish
    <2>2. /\ task[t].pc = "publish" /\ UNCHANGED <<world, up, buf, seq, store>>
          /\ told' = told \cup {[seq |-> task[t].seq, ev |-> task[t].ev]}
      BY <1>5 DEF Publish, Recorded
    <2>3. l \in Steps
      BY DEF Steps
    <2>4. /\ task'[t].pc = l /\ task'[t].seq = task[t].seq /\ task'[t].ev = task[t].ev
          /\ task'[t].to = task[t].to /\ \A u \in Tasks : u # t => task'[u] = task[u]
      BY <1>1, <2>1, <2>3, GotoShape
    <2>5. Sound'
      BY <2>2, <2>4, CarryStored
    <2> QED
      BY <1>2, <2>2, <2>5
  <1> QED
    BY <1>3, <1>4, <1>5

Steady == \A r \in store : \A q \in store' : q.seq = r.seq => q.ev = r.ev

\* Rows that stay, or all go, change no event.
LEMMA SameRows ==
  ASSUME Numbered, store' = store \/ store' = {}
  PROVE  Steady
  BY DEF Numbered, Steady

\* The handlers of conversation.send.
LEMMA SendStored ==
  ASSUME Shapes, Numbered, Tasked, Single, Idling, Orderly(world), Sound, SendStep
  PROVE  Sound' /\ Steady
  <1>1. /\ task \in [Tasks -> Work] /\ world \in World /\ 0 \notin Sessions
        /\ spent \in [sends : Nat, clears : Nat, crashes : Nat, lines : 0..MaxLines]
    BY WorldsAssumption, BoundsAssumption DEF Shapes, Sessions
  <1>2. PICK c \in Senders : \/ \E text \in Texts : Send(c, text)
                             \/ Tag(c) \/ SaveEvent(c) \/ Publish(c)
                             \/ BeginSend(c) \/ WriteInput(c) \/ EndSend(c)
    BY DEF SendStep
  <1>3. c \in Tasks /\ c # Watcher /\ task[c] \in Work
    BY <1>1, TasksShape
  <1>4. world.sends # 0
    <2>1. task[c].pc # "ready" \/ spent.sends < world.sends
      BY <1>2 DEF Send, Tag, SaveEvent, Publish, BeginSend, WriteInput, EndSend
    <2> QED
      BY <1>1, <2>1 DEF Idling
  <1>5. task[Watcher].pc \notin {"clear", "reset"} /\ task[Watcher].to = 0
    BY <1>1, <1>4 DEF Orderly, Single, Tasked
  <1>6. CASE \E text \in Texts : Send(c, text)
    <2>1. PICK text \in Texts : Send(c, text)
      BY <1>6
    <2> DEFINE ev == Ev("user", text, Typed)
    <2>2. /\ task' = [task EXCEPT ![c].pc = "tag", ![c].ev = ev, ![c].seq = seq + 1]
          /\ up /\ task[c].pc = "ready" /\ seq' = seq + 1
          /\ buf' = Append(buf, [seq |-> seq + 1, ev |-> ev])
          /\ UNCHANGED <<world, up, store, told>>
      BY <2>1 DEF Send, AppendEvent, Serving
    <2>3. ev \in EvType
      BY SentShape
    <2> HIDE DEF ev
    <2>4. /\ task'[c].pc = "tag" /\ task'[c].ev = ev /\ task'[c].seq = seq + 1
          /\ task'[c].to = task[c].to /\ \A u \in Tasks : u # c => task'[u] = task[u]
      BY <1>1, <1>3, <2>2 DEF Work
    <2> QED
      BY <1>3, <1>5, <2>2, <2>3, <2>4, AppendStored, SameRows
  <1>7. CASE Tag(c) \/ SaveEvent(c) \/ Publish(c)
    BY <1>3, <1>5, <1>7, RecordStored DEF Steady
  <1>8. CASE BeginSend(c) \/ WriteInput(c) \/ EndSend(c)
    <2>1. /\ task[c].pc \in {"begin", "write", "end"} /\ UNCHANGED <<world, up, buf, seq, store, told>>
          /\ \A u \in Tasks : u # c => task'[u] = task[u]
      BY <1>1, <1>3, <1>8 DEF BeginSend, WriteInput, EndSend, Goto, Recorded
    <2>2. task'[c].pc \in {"write", "end", "ready"}
      <3>1. CASE BeginSend(c)
        BY <1>1, <1>3, <3>1, GotoShape DEF BeginSend, Steps
      <3>2. CASE WriteInput(c)
        <4> DEFINE new == IF Claude THEN IdleTask ELSE [task[c] EXCEPT !.pc = "end"]
        <4>1. task' = [task EXCEPT ![c] = new]
          BY <3>2 DEF WriteInput
        <4>2. new.pc \in {"ready", "end"}
          BY <1>3 DEF Work, IdleTask
        <4> HIDE DEF new
        <4> QED
          BY <1>1, <1>3, <4>1, <4>2
      <3>3. CASE EndSend(c)
        BY <1>1, <1>3, <3>3 DEF EndSend, IdleTask
      <3> QED
        BY <1>8, <3>1, <3>2, <3>3
    <2>3. task'[Watcher] = task[Watcher]
      BY <1>3, <2>1, TasksShape
    <2> QED
      BY <1>3, <1>5, <2>1, <2>2, <2>3, IdleStored, SameRows
  <1> QED
    BY <1>2, <1>6, <1>7, <1>8

\* The watcher.
LEMMA WatcherStored ==
  ASSUME Shapes, Numbered, Tasked, Single, Idling, Moving, Orderly(world), spent.clears = 0,
         Sound, WatcherStep
  PROVE  Sound' /\ Steady
  <1> DEFINE w == task[Watcher]
  <1>1. /\ task \in [Tasks -> Work] /\ Watcher \in Tasks /\ w \in Work /\ 0 \notin Sessions /\ up
        /\ w.pc = "append" => w.todo # <<>>
    BY BoundsAssumption, TasksShape, WatcherRuns DEF Shapes, Sessions, Tasked
  <1>2. Attends /\ \A u \in Tasks : u # Watcher => task'[u] = task[u]
    <2>1. Attends
      BY WatcherStepShape
    <2> QED
      BY <2>1 DEF Attends
  <1>3. UNCHANGED <<world, up>>
    BY <1>2 DEF Attends
  <1>4. CASE w.pc \in {"tag", "save", "publish"}
    <2>1. Tag(Watcher) \/ SaveEvent(Watcher) \/ Publish(Watcher)
      BY <1>4, WatcherRest
    <2> QED
      BY <1>1, <1>4, <2>1, RecordStored DEF Steady
  <1>5. CASE w.pc = "append"
    <2> DEFINE new == [w EXCEPT !.pc = "tag", !.ev = Head(w.todo), !.seq = seq + 1,
                                !.todo = Tail(w.todo)]
    <2>1. /\ task' = [task EXCEPT ![Watcher] = new] /\ seq' = seq + 1
          /\ buf' = Append(buf, [seq |-> seq + 1, ev |-> Head(w.todo)])
          /\ UNCHANGED <<store, told>>
      <3>1. AppendLine
        BY <1>5, WatcherRest
      <3> QED
        BY <3>1 DEF AppendLine
    <2>2. Head(w.todo) \in EvType
      <3>1. w.todo \in Seq(EvType) /\ w.todo # <<>>
        BY <1>1, <1>5 DEF Work
      <3> QED
        BY <3>1
    <2>3. /\ new.pc = "tag" /\ new.ev = Head(w.todo) /\ new.seq = seq + 1 /\ new.to = w.to
      BY <1>1 DEF Work
    <2> HIDE DEF new
    <2>4. task'[Watcher] = new
      BY <1>1, <2>1
    <2> QED
      BY <1>1, <1>2, <1>3, <1>5, <2>1, <2>2, <2>3, <2>4, AppendStored, SameRows
  <1>6. CASE w.pc \notin {"tag", "save", "publish", "append", "reset", "clear"}
    <2>1. seq' = seq /\ (w.pc # "cleared" => told' = told) /\ (w.pc = "cleared" => told' = {})
      BY <1>6, WatcherRest
    <2>2. ~FeedsOne /\ ~Carries /\ ~Resets /\ ~Clears
      BY <1>6 DEF FeedsOne, Carries, Resets, Clears
    <2>3. CASE Polls \/ Skips \/ Loads
      <3>1. /\ task'[Watcher].pc \in {"next", "append"} /\ task'[Watcher].to = w.to
            /\ UNCHANGED <<buf, store>> /\ w.pc # "cleared"
        BY <2>3 DEF Polls, Skips, Loads, Moves
      <3> QED
        BY <1>1, <1>2, <1>3, <1>6, <2>1, <3>1, IdleStored, SameRows
    <2>4. CASE Seeds
      <3>1. task' = task /\ UNCHANGED <<buf, store>> /\ w.pc = "ready"
        BY <2>4 DEF Seeds
      <3> QED
        BY <1>1, <1>2, <1>3, <1>6, <2>1, <3>1, IdleStored, SameRows
    <2>5. CASE EndsPoll
      <3>1. /\ task'[Watcher].pc = "ready" /\ w.pc = "next" /\ ~w.reload /\ UNCHANGED <<buf, store>>
        BY <2>5 DEF EndsPoll, Moves
      <3>2. w.to = 0
        BY <3>1 DEF Moving, Feeding
      <3> QED
        BY <1>1, <1>2, <1>3, <1>6, <2>1, <3>1, <3>2, IdleStored, SameRows
    <2>6. CASE Detects
      <3>1. /\ task'[Watcher].pc = "update" /\ task'[Watcher].to = Latest /\ w.pc = "ready"
            /\ UNCHANGED <<buf, store>>
        BY <2>6 DEF Detects, Moves
      <3>2. Latest # 0
        BY <1>1, LatestShape
      <3> QED
        BY <1>1, <1>2, <1>3, <1>6, <2>1, <3>1, <3>2, IdleStored, SameRows
    <2>7. CASE Updates
      <3>1. /\ task'[Watcher].pc = IF Claude THEN "reset" ELSE "clear"
            /\ task'[Watcher].to = w.to /\ w.pc = "update" /\ UNCHANGED <<buf, store>>
        BY <2>7 DEF Updates, Moves
      <3> QED
        BY <1>1, <1>2, <1>3, <1>6, <2>1, <3>1, IdleStored, SameRows
    <2>8. CASE Rebases
      <3>1. /\ task'[Watcher].pc = "cleared" /\ task'[Watcher].to = w.to /\ w.pc = "next"
            /\ UNCHANGED <<buf, store>>
        BY <2>8 DEF Rebases, Moves
      <3> QED
        BY <1>1, <1>2, <1>3, <1>6, <2>1, <3>1, IdleStored, SameRows
    <2>9. CASE Finishes
      <3>1. task'[Watcher].pc = "ready" /\ w.pc = "cleared" /\ UNCHANGED <<buf, store>>
        BY <2>9 DEF Finishes, Moves
      <3> QED
        BY <1>1, <1>2, <1>3, <1>6, <2>1, <3>1, IdleStored, SameRows
    <2> QED
      BY <1>2, <2>2, <2>3, <2>4, <2>5, <2>6, <2>7, <2>8, <2>9 DEF Attends
  <1>7. CASE w.pc \in {"reset", "clear"}
    <2>1. w.to \in Sessions /\ w.to # 0
      BY <1>1, <1>7 DEF Tasked
    <2>2. \A u \in Tasks : u # Watcher => task'[u].pc = "ready"
      <3>1. \A c \in Senders : task[c].pc = "ready"
        BY <2>1, OrderlyWorld
      <3>2. task[Clearer].pc = "ready"
        BY DEF Idling
      <3> QED
        BY <1>2, <3>1, <3>2 DEF Tasks
    <2>3. /\ Resets \/ Clears
          /\ told' = told
      <3>1. told' = told
        BY <1>7, WatcherRest
      <3>2. /\ ~Polls /\ ~Seeds /\ ~Skips /\ ~FeedsOne /\ ~Carries /\ ~EndsPoll /\ ~Detects
            /\ ~Updates /\ ~Loads /\ ~Rebases /\ ~Finishes
        BY <1>7 DEF Polls, Seeds, Skips, FeedsOne, Carries, EndsPoll, Detects, Updates, Loads,
           Rebases, Finishes
      <3> QED
        BY <1>2, <3>1, <3>2 DEF Attends
    <2>4. task'[Watcher].to = w.to /\ task'[Watcher].pc \in {"clear", "load", "cleared", "reset"}
      BY <2>3 DEF Resets, Clears, Moves
    <2>5. \A u \in Tasks : ~Unsaved(u)' /\ task'[u].pc # "publish"
      BY <2>2, <2>4 DEF Unsaved
    <2>6. OwnNumbers'
      BY <2>5 DEF OwnNumbers
    <2>7. ToldSaved'
      BY <2>1, <2>4, <2>5 DEF ToldSaved
    <2>8. CASE Resets
      <3>1. /\ w.pc = "reset" /\ buf' = <<>> /\ store' = store /\ seq' = 0
            /\ task'[Watcher].pc = IF Claude THEN "clear" ELSE "load"
        BY <2>8, WatcherRest DEF Resets, Moves
      <3>2. ~Claude => store = {}
        BY <3>1 DEF Sound, LiveSaved
      <3>3. RowsBehind' /\ LiveSaved'
        BY <1>3, <3>1, <3>2 DEF RowsBehind, LiveSaved, Claude
      <3> QED
        BY <2>6, <2>7, <3>1, <3>3, SameRows DEF Sound
    <2>9. CASE Clears
      <3>1. /\ w.pc = "clear" /\ buf' = buf /\ store' = {}
            /\ task'[Watcher].pc = IF Claude THEN "cleared" ELSE "reset"
        BY <2>9 DEF Clears, Moves
      <3>2. Claude => buf = <<>>
        BY <3>1 DEF Sound, LiveSaved
      <3>3. RowsBehind' /\ LiveSaved'
        BY <1>3, <3>1, <3>2 DEF RowsBehind, LiveSaved, Claude
      <3> QED
        BY <2>6, <2>7, <3>1, <3>3, SameRows DEF Sound
    <2> QED
      BY <2>3, <2>8, <2>9
  <1> QED
    BY <1>4, <1>5, <1>6, <1>7

\* A crash leaves what was told where it was saved.
LEMMA CrashStored ==
  ASSUME Single, world.sessions = 1, Sound, Crash
  PROVE  Sound' /\ store' = store
  <1>1. /\ ~up' /\ buf' = <<>> /\ UNCHANGED <<world, store, told>> /\ Watcher \in Tasks
        /\ \A t \in Tasks : task'[t].pc = "ready"
    BY TasksShape DEF Crash, ResetBuf, IdleTask
  <1>2. \A e \in told : HasRow(e)
    BY DEF Sound, ToldSaved, Single
  <1>3. RowsBehind' /\ OwnNumbers' /\ ToldSaved' /\ LiveSaved'
    BY <1>1, <1>2 DEF RowsBehind, OwnNumbers, ToldSaved, LiveSaved, Unsaved, HasRow
  <1> QED
    BY <1>1, <1>3 DEF Sound

\* A restart of a Hermes agent of one session numbers its history after every row.
LEMMA RestartStored ==
  ASSUME Shapes, Numbered, Tasked, Single, Idling, world.provider = "hermes", world.sessions = 1,
         Sound, Restart
  PROVE  Sound' /\ Steady
  <1> DEFINE last    == LastRowSeq(store)
             history == Lines(Latest, 1, Len(cli[Latest]))
             len     == Len(history)
  <1>1. /\ ~up /\ up' /\ UNCHANGED <<world, told, task>> /\ Watcher \in Tasks /\ ~Claude
        /\ task[Watcher].to = 0 /\ dbSess = 1 /\ \A r \in store : r.tag = 1
        /\ \A t \in Tasks : task[t].pc = "ready"
    BY TasksShape DEF Restart, Claude, Single, Idling
  <1>2. {r \in store : r.tag = dbSess} = store
    BY <1>1
  <1>3. Backfill(store, last, history)
    BY <1>1, <1>2 DEF Restart
  <1>4. len \in Nat
    <2> DEFINE l == Len(cli[Latest])
    <2>1. Latest \in Sessions /\ l \in Nat
      BY LatestShape DEF Shapes
    <2>2. 1 \in Nat \ {0} /\ 1 <= l + 1 /\ l <= Len(cli[Latest])
      BY <2>1
    <2> HIDE DEF l
    <2>3. Lines(Latest, 1, l) \in Seq(EvType)
      BY <2>1, <2>2, LinesShape
    <2>4. Len(Lines(Latest, 1, l)) \in Nat
      BY <2>3
    <2> QED
      BY <2>4 DEF l
  <1>5. last \in Nat /\ \A r \in store : r.seq \in Nat /\ r.seq <= last
    <2>1. PICK n \in Nat : \A r \in store : r.seq <= n
      BY DEF Shapes
    <2>2. store \subseteq [seq : Nat, ev : EvType, tag : Sessions]
      BY DEF Shapes
    <2>3. \A r \in store : r.seq \in 0..n
      BY <2>1, <2>2
    <2>4. last \in 0..n /\ \A r \in store : r.seq <= last
      BY <2>3, LastRowSeqShape
    <2> QED
      BY <2>3, <2>4
  <1> HIDE DEF last, history, len
  <1>6. /\ seq' = last + len
        /\ buf' = [i \in 1..len |-> [seq |-> last + i, ev |-> history[i]]]
        /\ store' = {r \in store : r.seq \notin last + 1 .. last + len}
                        \cup {Row(last + i, history[i], dbSess) : i \in 1..len}
    BY <1>3 DEF Backfill, len
  <1>7. store \subseteq store'
    <2>1. \A r \in store : r.seq \notin last + 1 .. last + len
      BY <1>4, <1>5
    <2> QED
      BY <1>6, <2>1
  <1>8. \A q \in store' : q \in store \/ \E i \in 1..len : q = Row(last + i, history[i], dbSess)
    BY <1>6
  <1>9. Steady
    <2>1. ASSUME NEW r \in store, NEW q \in store', q.seq = r.seq PROVE q.ev = r.ev
      <3>1. CASE q \in store
        BY <2>1, <3>1 DEF Numbered
      <3>2. CASE q \notin store
        <4>1. PICK i \in 1..len : q = Row(last + i, history[i], dbSess)
          BY <1>8, <3>2
        <4>2. q.seq = last + i /\ r.seq <= last /\ r.seq \in Nat
          BY <1>5, <4>1 DEF Row
        <4> QED
          BY <1>4, <1>5, <2>1, <4>2
      <3> QED
        BY <3>1, <3>2
    <2> QED
      BY <2>1 DEF Steady
  <1>10. RowsBehind'
    <2>1. ASSUME NEW q \in store' PROVE q.seq <= last + len
      <3>1. CASE q \in store
        BY <1>4, <1>5, <3>1
      <3>2. CASE \E i \in 1..len : q = Row(last + i, history[i], dbSess)
        BY <1>4, <1>5, <3>2 DEF Row
      <3> QED
        BY <1>8, <3>1, <3>2
    <2> QED
      BY <1>6, <2>1 DEF RowsBehind
  <1>11. OwnNumbers' /\ ToldSaved'
    BY <1>1, <1>7 DEF OwnNumbers, ToldSaved, Unsaved, HasRow, Sound
  <1>12. LiveSaved'
    <2>1. ASSUME NEW i \in DOMAIN buf'
          PROVE  \E r \in store' : r.seq = buf'[i].seq /\ r.ev = buf'[i].ev
      <3>1. i \in 1..len /\ buf'[i].seq = last + i /\ buf'[i].ev = history[i]
        BY <1>6, <2>1
      <3>2. Row(last + i, history[i], dbSess) \in store'
        BY <1>6, <3>1
      <3> QED
        BY <3>1, <3>2 DEF Row
    <2> QED
      BY <1>1, <2>1 DEF LiveSaved, HasRow
  <1> QED
    BY <1>9, <1>10, <1>11, <1>12 DEF Sound

\* Stored is inductive, and no step that it speaks of gives a number away twice.
LEMMA StoredStep ==
  ASSUME IInv, Single, Isolated, Idling, Stored, [Next]_vars
  PROVE  /\ Stored'
         /\ spent.clears = 0 /\ Orderly(world) => Steady
  <1>1. /\ Shapes /\ Numbered /\ Tasked /\ world' = world /\ world \in World
        /\ spent \in [sends : Nat, clears : Nat, crashes : Nat, lines : 0..MaxLines]
    BY WorldStays, WorldsAssumption DEF IInv, Shapes
  <1>2. Orderly(world)' <=> Orderly(world)
    BY <1>1 DEF Orderly
  <1>3. CASE ClearStep
    <2>1. CASE Clear
      <3>1. spent'.clears = spent.clears + 1 /\ store' = store
        BY <1>1, <2>1 DEF Clear, Spend, Recorded
      <3>2. spent'.clears # 0
        BY <1>1, <3>1
      <3> QED
        BY <1>1, <3>1, <3>2, SameRows DEF Stored
    <2>2. CASE ~Clear
      <3>1. spent' = spent /\ task[Clearer].pc # "ready"
        BY <1>3, <2>2 DEF ClearStep, Reset, ClearStore, StatOffset, ResetWatcherOffset, Cleared
      <3>2. spent.clears # 0 /\ spent'.clears # 0
        BY <3>1 DEF Idling
      <3> QED
        BY <3>2 DEF Stored
    <2> QED
      BY <2>1, <2>2
  <1>4. SUFFICES ASSUME ~ClearStep, spent.clears = 0, Orderly(world) PROVE Sound' /\ Steady
    <2>1. ASSUME ~ClearStep PROVE spent'.clears = spent.clears
      <3>1. CASE WatcherStep
        <4>1. Attends
          BY <1>1, <3>1, WatcherStepShape
        <4> QED
          BY <4>1 DEF Attends
      <3>2. CASE ~WatcherStep
        <4>1. spent' = spent \/ \E k \in {"sends", "crashes", "lines"} : Spend(k)
          BY <2>1, <3>2 DEF Next, vars, SendStep, Send, Tag, SaveEvent, Publish, BeginSend, WriteInput,
             EndSend, CliStep, CliReads, CliTyped, CliAnswers, CliNewSession, Write, Crash, Restart
        <4> QED
          BY <1>1, <4>1 DEF Spend
      <3> QED
        BY <3>1, <3>2
    <2> QED
      BY <1>2, <1>3, <1>4, <2>1 DEF Stored
  <1>5. Sound /\ world.crashes \in Nat
    BY <1>1, <1>4 DEF Stored, World
  <1>6. CASE UNCHANGED <<world, up, buf, seq, store, task, told>>
    <2>1. Sound'
      BY <1>5, <1>6 DEF Sound, RowsBehind, OwnNumbers, ToldSaved, LiveSaved, Unsaved, HasRow, Claude
    <2> QED
      BY <1>1, <1>6, <2>1, SameRows
  <1>7. CASE SendStep
    BY <1>1, <1>4, <1>5, <1>7, SendStored
  <1>8. CASE WatcherStep
    <2>1. spent.crashes = 0 \/ world.sessions = 1
      BY <1>1, <1>4, <1>5 DEF Orderly, Idling
    <2>2. Moving
      BY <2>1 DEF Isolated, Unparted
    <2> QED
      BY <1>1, <1>4, <1>5, <1>8, <2>2, WatcherStored
  <1>9. CASE CliStep
    <2>1. UNCHANGED <<world, up, buf, seq, store, task, told>>
      BY <1>9 DEF CliStep, CliReads, CliTyped, CliAnswers, CliNewSession, Recorded
    <2> QED
      BY <1>6, <2>1
  <1>10. CASE Crash
    <2>1. world.crashes # 0
      BY <1>1, <1>5, <1>10 DEF Crash
    <2>2. world.sessions = 1
      BY <1>4, <2>1 DEF Orderly
    <2> QED
      BY <1>1, <1>5, <1>10, <2>2, CrashStored, SameRows
  <1>11. CASE Restart
    <2>1. spent.crashes # 0
      BY <1>11 DEF Restart, Isolated
    <2>2. world.crashes # 0
      BY <1>1, <1>5, <2>1 DEF Idling
    <2>3. world.provider = "hermes" /\ world.sessions = 1
      BY <1>4, <2>2 DEF Orderly
    <2> QED
      BY <1>1, <1>5, <1>11, <2>3, RestartStored
  <1>12. CASE UNCHANGED vars
    BY <1>6, <1>12 DEF vars
  <1> QED
    BY <1>4, <1>7, <1>8, <1>9, <1>10, <1>11, <1>12 DEF Next

\* Nothing is recorded at the start.
LEMMA StoredStart == Init => Stored
  <1> SUFFICES ASSUME Init PROVE Stored
    OBVIOUS
  <1>1. /\ buf = <<>> /\ store = {} /\ told = {} /\ Watcher \in Tasks
        /\ \A t \in Tasks : task[t].pc = "ready"
    BY TasksShape DEF Init, IdleTask
  <1> QED
    BY <1>1 DEF Stored, Sound, RowsBehind, OwnNumbers, ToldSaved, LiveSaved, Unsaved

AllInv == IInv /\ Single /\ Isolated /\ Idling /\ Stored

\* All parts together are an invariant.
LEMMA AllInvariance == Spec => []AllInv
  <1>1. Init => AllInv
    BY Start, SingleStart, IsolatedStart, IdlingStart, StoredStart DEF AllInv
  <1>2. AllInv /\ [Next]_vars => AllInv'
    <2> SUFFICES ASSUME AllInv, [Next]_vars PROVE AllInv'
      OBVIOUS
    <2>1. IInv' /\ Single' /\ Idling' /\ Isolated'
      BY Step, SingleStep, IdlingStep, IsolatedStep DEF AllInv, IInv
    <2>2. Stored'
      BY StoredStep DEF AllInv
    <2> QED
      BY <2>1, <2>2 DEF AllInv
  <1> QED
    BY <1>1, <1>2, PTL DEF Spec

\* While nobody clears it, the conversation of an agent whose numbers nothing gives out
\* twice (Orderly) has every event a client was told of in the store, crashes of the
\* daemon included, and every live event there or about to be.
THEOREM ToldIsStored == Spec => [](Orderly(world) => Persisted)
  <1>1. ASSUME AllInv, Orderly(world) PROVE Persisted
    <2>1. CASE spent.clears = 0 /\ task[Watcher].to = 0
      <3>1. Sound
        BY <1>1, <2>1 DEF AllInv, Stored
      <3>2. task[Watcher].pc # "reset"
        <4>1. 0 \notin Sessions /\ Tasked
          BY <1>1, BoundsAssumption DEF AllInv, IInv, Sessions
        <4> QED
          BY <2>1, <4>1 DEF Tasked
      <3> QED
        BY <2>1, <3>1, <3>2 DEF Sound, ToldSaved, LiveSaved, Unsaved, Persisted
    <2>2. CASE ~(spent.clears = 0 /\ task[Watcher].to = 0)
      BY <2>2 DEF Persisted, Switching
    <2> QED
      BY <2>1, <2>2
  <1> QED
    BY <1>1, AllInvariance, PTL

\* Where every agent is such a one, a number a client pages by is never given to another
\* event, a crash between the append and the save included.
THEOREM NumbersKept ==
  ASSUME \A w \in Worlds : Orderly(w)
  PROVE  Spec => RowsKept
  <1>1. AllInv /\ [Next]_vars =>
            [spent.clears = 0 =>
                 \A r \in store : \A q \in store' : q.seq = r.seq => q.ev = r.ev]_vars
    <2> SUFFICES ASSUME AllInv, [Next]_vars, spent.clears = 0
                 PROVE  \A r \in store : \A q \in store' : q.seq = r.seq => q.ev = r.ev
      OBVIOUS
    <2>1. Orderly(world)
      BY DEF AllInv, IInv, Shapes
    <2> QED
      BY <2>1, StoredStep DEF AllInv, Steady
  <1> QED
    BY <1>1, AllInvariance, PTL DEF Spec, RowsKept

-----------------------------------------------------------------------------
(***************************************************************************)
(* The processes of an agent.  Whatever the number of connections and      *)
(* processes, the process an agent refers to has somebody who will reap    *)
(* it.  Reaped is inductive once it is known which requests reach which    *)
(* statement, and that a handler about to publish a process has one in its *)
(* hands.                                                                  *)
(***************************************************************************)

Calls == [op : Ops, pc : PCs, p : Procs \cup {None}]

InHand(c) ==
    call[c].pc \in {"writefirst", "setproc", "setidle", "go"} => call[c].p \in Procs

OpFits(c) ==
    call[c].pc \in {"reread", "wait", "begin", "spawn", "writefirst", "setproc", "setidle", "go"} =>
        call[c].op \in {"restart", "restartWithMessage", "startWithMessage"}

LifeInv ==
    /\ LifeTypeOK
    /\ Reaped
    /\ \A c \in Clients : InHand(c) /\ OpFits(c)

USE DEF Status, Ops, PCs, Procs, None

(* The first process, if there is one, has its reader.                       *)
LEMMA LifeEstablished == LifeInit => LifeInv
  BY MaxProcsAssumption DEF LifeInit, Pipe, LifeInv, LifeTypeOK, Reaped, InHand, OpFits, Ready

(* A handler's step moves its own call only: what the other handlers hold is *)
(* as it was.                                                                *)
LEMMA LifePreserved == LifeInv /\ [LifeNext]_lifeVars => LifeInv'
  <1> SUFFICES ASSUME LifeInv, [LifeNext]_lifeVars PROVE LifeInv'
    OBVIOUS
  <1> USE DEF LifeInv, LifeTypeOK, Reaped, InHand, OpFits, Starting, Ready
  <1>1. ASSUME NEW c \in Clients, Stop(c) PROVE LifeInv'
    BY <1>1 DEF Stop, Ask, Enter, Kill
  <1>2. ASSUME NEW c \in Clients, SetStopped(c) PROVE LifeInv'
    <2>1. LifeTypeOK'
      BY <1>2 DEF SetStopped, Proceed, Return
    <2>2. Reaped'
      BY <1>2 DEF SetStopped, Proceed, Return
    <2>3. ASSUME NEW d \in Clients PROVE InHand(d)' /\ OpFits(d)'
      BY <1>2 DEF SetStopped, Proceed, Return
    <2> QED
      BY <2>1, <2>2, <2>3
  <1>3. ASSUME NEW c \in Clients, Unlist(c) PROVE LifeInv'
    BY <1>3 DEF Unlist, Return
  <1>4. ASSUME NEW c \in Clients, RestartKill(c) PROVE LifeInv'
    <2>1. LifeTypeOK'
      BY <1>4 DEF RestartKill, Ask, Enter, Kill, Pipe
    <2>2. Reaped'
      BY <1>4 DEF RestartKill, Ask, Enter, Kill, Pipe
    <2>3. ASSUME NEW d \in Clients PROVE InHand(d)' /\ OpFits(d)'
      BY <1>4 DEF RestartKill, Ask, Enter, Kill, Pipe
    <2> QED
      BY <2>1, <2>2, <2>3
  <1>5. ASSUME NEW c \in Clients, RestartReread(c) PROVE LifeInv'
    BY <1>5 DEF RestartReread, Take
  <1>6. ASSUME NEW c \in Clients, RestartWait(c) PROVE LifeInv'
    <2>1. LifeTypeOK'
      BY <1>6 DEF RestartWait, Take
    <2>2. Reaped'
      BY <1>6 DEF RestartWait, Take
    <2>3. ASSUME NEW d \in Clients PROVE InHand(d)' /\ OpFits(d)'
      <3>1. CASE d = c
        BY <1>6, <3>1 DEF RestartWait, Take
      <3>2. CASE d # c
        BY <1>6, <3>2 DEF RestartWait, Take
      <3> QED
        BY <3>1, <3>2
    <2> QED
      BY <2>1, <2>2, <2>3
  <1>7. ASSUME NEW c \in Clients, SendFirst(c) PROVE LifeInv'
    BY <1>7 DEF SendFirst, Enter
  <1>8. ASSUME NEW c \in Clients, StartBegin(c) PROVE LifeInv'
    <2>1. LifeTypeOK'
      <3>1. CASE Proceed(c, "spawn")
        BY <1>8, <3>1 DEF StartBegin, Proceed
      <3>2. CASE Return(c)
        BY <1>8, <3>2 DEF StartBegin, Return
      <3> QED
        BY <1>8, <3>1, <3>2 DEF StartBegin
    <2>2. Reaped'
      BY <1>8 DEF StartBegin, Proceed, Return
    <2>3. ASSUME NEW d \in Clients PROVE InHand(d)' /\ OpFits(d)'
      <3>1. CASE d = c
        BY <1>8, <3>1 DEF StartBegin, Proceed, Return
      <3>2. CASE d # c
        BY <1>8, <3>2 DEF StartBegin, Proceed, Return
      <3> QED
        BY <3>1, <3>2
    <2> QED
      BY <2>1, <2>2, <2>3
  <1>9. ASSUME NEW c \in Clients, NEW p \in Procs, Spawn(c, p) PROVE LifeInv'
    BY <1>9 DEF Spawn, Take, Fresh, Unborn
  <1>10. ASSUME NEW c \in Clients, SpawnFailed(c) PROVE LifeInv'
    BY <1>10 DEF SpawnFailed, Return
  <1>11. ASSUME NEW c \in Clients, WriteFirst(c) PROVE LifeInv'
    <2>1. LifeTypeOK'
      <3>1. CASE Proceed(c, "setproc")
        BY <1>11, <3>1 DEF WriteFirst, Proceed
      <3>2. CASE Return(c)
        BY <1>11, <3>2 DEF WriteFirst, Return
      <3> QED
        BY <1>11, <3>1, <3>2 DEF WriteFirst
    <2>2. Reaped'
      BY <1>11 DEF WriteFirst, Proceed, Return
    <2>3. ASSUME NEW d \in Clients PROVE InHand(d)' /\ OpFits(d)'
      <3>1. CASE d = c
        BY <1>11, <3>1 DEF WriteFirst, Proceed, Return
      <3>2. CASE d # c
        BY <1>11, <3>2 DEF WriteFirst, Proceed, Return
      <3> QED
        BY <3>1, <3>2
    <2> QED
      BY <2>1, <2>2, <2>3
  <1>12. ASSUME NEW c \in Clients, SetProcess(c) PROVE LifeInv'
    BY <1>12 DEF SetProcess, Proceed
  <1>13. ASSUME NEW c \in Clients, SetIdle(c) PROVE LifeInv'
    BY <1>13 DEF SetIdle, Proceed
  <1>14. ASSUME NEW c \in Clients, Go(c) PROVE LifeInv'
    <2> call[c].p \in Procs /\ call[c] \in Calls
      BY <1>14 DEF Go, Calls
    <2> PICK l \in PCs, q \in Procs \cup {None} :
            /\ l \in {"ready", "write", "setworking"}
            /\ \E o \in Ops : call' = [call EXCEPT ![c] = [op |-> o, pc |-> l, p |-> q]]
      <3>1. CASE call[c].op = "restart"
        BY <1>14, <3>1 DEF Go, Return, Calls
      <3>2. CASE call[c].op = "restartWithMessage"
        BY <1>14, <3>2 DEF Go, Proceed, Calls
      <3>3. CASE call[c].op = "startWithMessage"
        BY <1>14, <3>3 DEF Go, Proceed, Calls
      <3> QED
        BY <1>14, <3>1, <3>2, <3>3 DEF Go
    <2>1. LifeTypeOK'
      BY <1>14 DEF Go, Pipe
    <2>2. Reaped'
      BY <1>14 DEF Go
    <2>3. ASSUME NEW d \in Clients PROVE InHand(d)' /\ OpFits(d)'
      <3>1. CASE d = c
        BY <1>14, <3>1 DEF Go
      <3>2. CASE d # c
        BY <1>14, <3>2 DEF Go
      <3> QED
        BY <3>1, <3>2
    <2> QED
      BY <2>1, <2>2, <2>3
  <1>15. ASSUME NEW c \in Clients, WriteMessage(c) PROVE LifeInv'
    <2>1. LifeTypeOK'
      <3>1. CASE Proceed(c, "setworking")
        BY <1>15, <3>1 DEF WriteMessage, Proceed
      <3>2. CASE Return(c)
        BY <1>15, <3>2 DEF WriteMessage, Return
      <3> QED
        BY <1>15, <3>1, <3>2 DEF WriteMessage
    <2>2. Reaped'
      BY <1>15 DEF WriteMessage, Proceed, Return
    <2>3. ASSUME NEW d \in Clients PROVE InHand(d)' /\ OpFits(d)'
      BY <1>15 DEF WriteMessage, Proceed, Return
    <2> QED
      BY <2>1, <2>2, <2>3
  <1>16. ASSUME NEW c \in Clients, SetWorking(c) PROVE LifeInv'
    BY <1>16 DEF SetWorking, Return
  <1>17. ASSUME NEW p \in Procs, Exit(p) PROVE LifeInv'
    BY <1>17 DEF Exit
  <1>18. ASSUME NEW p \in Procs, Output(p) PROVE LifeInv'
    BY <1>18 DEF Output
  <1>19. ASSUME NEW p \in Procs, ReaderEOF(p) PROVE LifeInv'
    BY <1>19 DEF ReaderEOF
  <1>20. ASSUME NEW p \in Procs, ReaderCheck(p) PROVE LifeInv'
    BY <1>20 DEF ReaderCheck
  <1>21. ASSUME NEW p \in Procs, ReaderClear(p) PROVE LifeInv'
    BY <1>21 DEF ReaderClear, Pipe
  <1>22. ASSUME NEW p \in Procs, ReaderSettle(p) PROVE LifeInv'
    BY <1>22 DEF ReaderSettle
  <1>23. ASSUME NEW p \in Procs, ReaderIdle(p) PROVE LifeInv'
    BY <1>23 DEF ReaderIdle
  <1>24. ASSUME NEW p \in Procs, ReaderStopped(p) PROVE LifeInv'
    BY <1>24 DEF ReaderStopped
  <1>25. ASSUME NEW p \in Procs, Seek(p) PROVE LifeInv'
    BY <1>25 DEF Seek
  <1>26. ASSUME NEW p \in Procs, WatchStart(p) PROVE LifeInv'
    BY <1>26 DEF WatchStart
  <1>27. ASSUME NEW p \in Procs, SetWatcher(p) PROVE LifeInv'
    BY <1>27 DEF SetWatcher
  <1>28. ASSUME NEW p \in Procs, WatchEvent(p) PROVE LifeInv'
    BY <1>28 DEF WatchEvent
  <1>29. CASE UNCHANGED lifeVars
    BY <1>29 DEF lifeVars
  <1> QED
    BY <1>1, <1>2, <1>3, <1>4, <1>5, <1>6, <1>7, <1>8, <1>9, <1>10, <1>11, <1>12, <1>13, <1>14,
       <1>15, <1>16, <1>17, <1>18, <1>19, <1>20, <1>21, <1>22, <1>23, <1>24, <1>25, <1>26, <1>27,
       <1>28, <1>29 DEF LifeNext, Request, Handler, Reader

(* Whatever overlaps, processes and handlers stay as the code holds them.    *)
THEOREM LifeInvariant == LifeSpec => []LifeInv
  BY LifeEstablished, LifePreserved, PTL DEF LifeSpec

(* Every variable keeps its type: every statement a handler reaches is one   *)
(* of the request it serves.                                                 *)
THEOREM LifecycleTypes == LifeSpec => []LifeTypeOK
  <1>1. LifeInv => LifeTypeOK
    BY DEF LifeInv
  <1> QED
    BY <1>1, LifeInvariant, PTL

(* However requests, exits and readers overlap, in RestartInPlace above all, *)
(* the process the agent refers to has a reader that will reap it.           *)
THEOREM ReapedAlways == LifeSpec => []Reaped
  <1>1. LifeInv => Reaped
    BY DEF LifeInv
  <1> QED
    BY <1>1, LifeInvariant, PTL

-----------------------------------------------------------------------------
(* A connection that has the agent to itself: the others never ask, and the  *)
(* process it killed, or waits for, is not brought back to life.             *)
OthersRest(c) == \A d \in Clients \ {c} : call[d].pc = "ready"

NothingSpared(c) ==
    /\ call[c].pc = "reread" /\ process # None => proc[process] # "alive"
    /\ call[c].pc = "wait" /\ call[c].p # None => proc[call[c].p] # "alive"

AloneInv ==
    \A c \in Clients : Users[provider] = {c} => OthersRest(c) /\ NothingSpared(c)

(* With one connection nobody else is busy at first.                         *)
LEMMA AloneInit == LifeInit => AloneInv
  BY DEF LifeInit, AloneInv, OthersRest, NothingSpared, Ready

(* Nothing a step does makes another client busy or spares a killed process. *)
LEMMA AlonePreserved == LifeInv /\ AloneInv /\ [LifeNext]_lifeVars => AloneInv'
  <1> SUFFICES ASSUME LifeInv, AloneInv, [LifeNext]_lifeVars PROVE AloneInv'
    OBVIOUS
  <1> SUFFICES ASSUME NEW c \in Clients, Users[provider] = {c}, provider' = provider
               PROVE  OthersRest(c)' /\ NothingSpared(c)'
    <2>1. provider' = provider
      BY DEF lifeVars, LifeNext, Request, Handler, Reader, Stop, SetStopped, Unlist, RestartKill,
         RestartReread,
             RestartWait, SendFirst, StartBegin, Spawn, SpawnFailed, WriteFirst, SetProcess, SetIdle, Go,
             WriteMessage, SetWorking, Exit, Output, ReaderEOF, ReaderCheck, ReaderClear, ReaderSettle,
             ReaderIdle, ReaderStopped, Seek, WatchStart, SetWatcher, WatchEvent
    <2> QED
      BY <2>1 DEF AloneInv
  <1> USE DEF LifeInv, LifeTypeOK, InHand, OthersRest, NothingSpared
  <1> OthersRest(c) /\ NothingSpared(c)
    BY DEF AloneInv
  (* Whoever takes a step of a handler is c: the others are at "ready".        *)
  <1>1. ASSUME NEW d \in Clients, Request(d) \/ Handler(d) PROVE d = c
    BY <1>1 DEF Request, Handler, Ask, Stop, SetStopped, Unlist, RestartKill, RestartReread, RestartWait,
                SendFirst, StartBegin, Spawn, SpawnFailed, WriteFirst, SetProcess, SetIdle, Go,
                WriteMessage, SetWorking
  <1>2. CASE Request(c)
    <2>1. CASE Stop(c)
      BY <2>1 DEF Stop, Ask, Enter, Kill
    <2>2. CASE RestartKill(c)
      BY <2>2 DEF RestartKill, Ask, Enter, Kill
    <2>3. CASE SendFirst(c)
      BY <2>3 DEF SendFirst, Ask, Enter
    <2> QED
      BY <1>2, <2>1, <2>2, <2>3 DEF Request
  <1>3. CASE Handler(c)
    <2>1. CASE SetStopped(c) \/ Unlist(c) \/ SetWorking(c)
      BY <2>1 DEF SetStopped, Unlist, SetWorking, Proceed, Return, Ready
    <2>2. CASE RestartReread(c)
      BY <2>2 DEF RestartReread, Take
    <2>3. CASE RestartWait(c)
      BY <2>3 DEF RestartWait, Take
    <2>4. CASE StartBegin(c) \/ WriteMessage(c)
      BY <2>4 DEF StartBegin, WriteMessage, Proceed, Return, Ready
    <2>5. ASSUME NEW p \in Procs, Spawn(c, p) PROVE OthersRest(c)' /\ NothingSpared(c)'
      BY <2>5 DEF Spawn, Take
    <2>6. CASE SpawnFailed(c)
      BY <2>6 DEF SpawnFailed, Return, Ready
    <2>7. CASE WriteFirst(c)
      BY <2>7 DEF WriteFirst, Proceed, Return, Ready
    <2>8. CASE SetProcess(c) \/ SetIdle(c)
      BY <2>8 DEF SetProcess, SetIdle, Proceed
    <2>9. CASE Go(c)
      <3>1. \E r \in {Ready, [call[c] EXCEPT !.pc = "write"], [call[c] EXCEPT !.pc = "setworking"]} :
               call' = [call EXCEPT ![c] = r]
        <4>1. call[c].op \in {"restart", "restartWithMessage", "startWithMessage"}
          BY <2>9 DEF Go, OpFits
        <4> QED
          BY <2>9, <4>1 DEF Go, Proceed, Return
      <3>2. call'[c].pc \in {"ready", "write", "setworking"}
        BY <3>1 DEF Ready
      <3>3. \A d \in Clients \ {c} : call'[d] = call[d]
        BY <3>1
      <3> QED
        BY <3>2, <3>3
    <2> QED
      BY <1>3, <2>1, <2>2, <2>3, <2>4, <2>5, <2>6, <2>7, <2>8, <2>9 DEF Handler
  <1>4. ASSUME NEW p \in Procs, Exit(p) PROVE OthersRest(c)' /\ NothingSpared(c)'
    BY <1>4 DEF Exit
  <1>5. ASSUME NEW p \in Procs, Reader(p) PROVE OthersRest(c)' /\ NothingSpared(c)'
    BY <1>5 DEF Reader, ReaderEOF, ReaderCheck, ReaderClear, ReaderSettle, ReaderIdle, ReaderStopped
  <1>6. ASSUME NEW p \in Procs, Output(p) \/ Seek(p) \/ WatchStart(p) \/ SetWatcher(p) \/ WatchEvent(p)
        PROVE  OthersRest(c)' /\ NothingSpared(c)'
    BY <1>6 DEF Output, Seek, WatchStart, SetWatcher, WatchEvent
  <1>7. CASE UNCHANGED lifeVars
    BY <1>7 DEF lifeVars
  <1> QED
    BY <1>1, <1>2, <1>3, <1>4, <1>5, <1>6, <1>7 DEF LifeNext

(* RestartInPlace of a connection that has the agent to itself waits only    *)
(* for a process that is dead or being killed, however many there were.      *)
THEOREM WaitsForTheDeadAlways == LifeSpec => []WaitsForTheDead
  <1>1. LifeInv /\ AloneInv => WaitsForTheDead
    BY DEF AloneInv, NothingSpared, WaitsForTheDead
  <1> QED
    BY <1>1, LifeInvariant, AloneInit, AlonePreserved, PTL DEF LifeSpec
=============================================================================

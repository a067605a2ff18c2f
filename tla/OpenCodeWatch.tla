---------------------------- MODULE OpenCodeWatch ----------------------------
(***************************************************************************)
(* agentd/internal/watcher/opencode_db.go and what agent/manager.go does   *)
(* with its events: a watcher polls OpenCode's database, in which a        *)
(* message grows part by part while it is answered, and turns it into      *)
(* events of the agent's buffer and into its status.  The last message is  *)
(* queried again and again, since it may still grow; the ones before it    *)
(* are taken as complete.  Meanwhile the user may clear the conversation,  *)
(* a handler that resets what the watcher remembers, move to another       *)
(* session, or send a message, which a handler records by itself.  The     *)
(* daemon's store follows the buffer and is left out; so is the buffer's   *)
(* bound.                                                                  *)
(***************************************************************************)
EXTENDS Naturals, Sequences, FiniteSets, SequencesExt

CONSTANTS
    MaxSessions,   \* bound on OpenCode sessions of the directory
    MaxMessages,   \* bound on messages of a session
    MaxText,       \* bound on text parts of a message
    MaxWrites,     \* bound on parts written and messages sent
    MaxClears,     \* bound on conversation.clear requests
    MaxFails,      \* bound on part queries that fail
    MaxSends,      \* bound on conversation.send requests
    MaxAsks,       \* bound on copies kept of one question, which is recorded for ever
    Patience       \* unchanged polls after which a message is done (10)

ASSUME WatchAssumption ==
    /\ {MaxSessions, MaxMessages, MaxText, MaxAsks, Patience} \subseteq Nat \ {0}
    /\ {MaxWrites, MaxClears, MaxFails, MaxSends} \subseteq Nat

VARIABLES
    db,        \* the messages of each session, by time
    latest,    \* the session of the directory updated last
    w,         \* what the watcher remembers
    poll,      \* the poll under way: the messages still to process, as read
    buf,       \* the agent's event buffer
    status,
    clearing,  \* a conversation.clear has emptied the buffer, not yet reset the watcher
    base,      \* messages of the session that were there at Start or at a clear
    missed,    \* messages no longer looked at: written or not read once they were not last
    raced,     \* a clear and a poll overlapped
    dirty,     \* written since the last complete poll began
    spent      \* parts, clears, failures, sends and answers so far

vars == <<db, latest, w, poll, buf, status, clearing, base, missed, raced, dirty, spent>>

None     == 0
Sessions == 1..MaxSessions
Messages == 1..MaxMessages

\* A message: text parts; one reasoning or tool part, as which the marks of a step count;
\* an OpenCode question, whose input follows its part.
Message == [role : {"user", "assistant"}, text : 0..MaxText, sub : BOOLEAN,
            ask : {"no", "pending", "asked"}]
New(role) == [role |-> role, text |-> 0, sub |-> FALSE, ask |-> "no"]
HasTool(m) == m.sub \/ m.ask # "no"

\* The key of an event is its msg_id; questions have none, but keep the number of their
\* message here.  What conversation.send records has None.
Event(id, kind, m) == [id |-> id, kind |-> kind, role |-> m.role, text |-> m.text]
Ids == Messages \cup {None}

Count(s) == Len(db[s])

\* The state of a watcher that starts, or starts over, after message n.
Seeded(s, n) == [sess |-> s, last |-> n, stream |-> None, text |-> 0, tool |-> FALSE,
                 same |-> 0, subs |-> {}, due |-> TRUE]
Idle == [pc |-> "idle", ids |-> <<>>, msgs |-> <<>>]

Init ==
    /\ \E m \in {<<>>, <<New("user")>>, <<[New("assistant") EXCEPT !.text = 1]>>} :
          db = [s \in Sessions |-> IF s = 1 THEN m ELSE <<>>]
    /\ latest = 1
    /\ w = Seeded(1, Count(1)) /\ base = Count(1)
    /\ poll = Idle
    /\ buf = <<>> /\ status = "idle"
    /\ clearing = FALSE /\ missed = {} /\ raced = FALSE /\ dirty = FALSE
    /\ spent = [writes |-> 0, clears |-> 0, fails |-> 0, sends |-> 0, answers |-> 0]

Spend(k, most) == spent[k] < most /\ spent' = [spent EXCEPT ![k] = @ + 1]

-----------------------------------------------------------------------------
(* OpenCode (external).  Parts may come for a message that is not the last,    *)
(* as when the user types while an answer is under way.                        *)
Room  == spent.writes + spent.sends < MaxWrites
Wrote == Room /\ Spend("writes", MaxWrites) /\ dirty' = TRUE
            /\ UNCHANGED <<w, poll, buf, status, clearing, base, raced>>

NewMessage(role) ==
    /\ Count(latest) < MaxMessages
    /\ db' = [db EXCEPT ![latest] = Append(@, New(role))]
    /\ Wrote /\ UNCHANGED <<latest, missed>>

Grown(m) ==
    (IF m.text < MaxText THEN {[m EXCEPT !.text = @ + 1]} ELSE {})
    \cup IF m.role = "user" THEN {}
         ELSE {[m EXCEPT !.sub = TRUE],
               [m EXCEPT !.ask = IF @ = "no" THEN "pending" ELSE "asked"]} \ {m}

NewPart(i) ==
    /\ i \in DOMAIN db[latest]
    /\ \E m \in Grown(db[latest][i]) : db' = [db EXCEPT ![latest][i] = m]
    /\ missed' = IF i < Count(latest) THEN missed \cup {<<latest, i>>} ELSE missed
    /\ Wrote /\ UNCHANGED latest

NewSession ==
    /\ latest < MaxSessions
    /\ latest' = latest + 1
    /\ Wrote /\ UNCHANGED <<db, missed>>

-----------------------------------------------------------------------------
(* makeWatcherCallback and NormalizeWatcherEvent.                             *)
\* An event as the watcher gives it; a heartbeat has no role.
Given(id, kind, m, st) == [ev |-> Event(id, kind, m), ask |-> kind = "text" /\ m.ask = "asked", st |-> st]

\* UpdateOrAppend: in place if there is one of that id.
Recorded(b, e) ==
    LET here == {i \in DOMAIN b : b[i].id = e.id /\ b[i].kind = e.kind}
    IN IF here = {} THEN Append(b, e) ELSE [i \in DOMAIN b |-> IF i \in here THEN e ELSE b[i]]

Asked(b, e) ==
    IF Cardinality({i \in DOMAIN b : b[i] = e}) < MaxAsks THEN Append(b, e) ELSE b

\* A user's message that repeats the last event is dropped; a question goes without
\* its msg_id and is appended.
Callback(a, g) ==
    IF g.ev.role = "user" /\ a.buf # <<>> /\ a.buf[Len(a.buf)].role = "user"
       /\ a.buf[Len(a.buf)].text = g.ev.text
    THEN a
    ELSE [buf |-> IF g.ask THEN Asked(a.buf, [g.ev EXCEPT !.kind = "ask"]) ELSE Recorded(a.buf, g.ev),
          status |-> IF g.st = "none" THEN a.status ELSE g.st]
Called(gs) ==
    LET after[i \in 0..Len(gs)] ==
            IF i = 0 THEN [buf |-> buf, status |-> status] ELSE Callback(after[i - 1], gs[i])
    IN after
Calls(gs) == buf' = Called(gs)[Len(gs)].buf /\ status' = Called(gs)[Len(gs)].status

Assistant(m, st) == IF m.role = "assistant" THEN st ELSE "none"

\* emitSubEvents: the reasoning and tool parts not yet given.
Pending(id, m) == m.sub /\ id \notin w.subs
Subs(id, m, st) == IF Pending(id, m) THEN <<Given(id, "sub", m, Assistant(m, st))>> ELSE <<>>
Shown(m) == m.text > 0 \/ m.ask # "no"
Text(id, m, st) == IF Shown(m) THEN <<Given(id, "text", m, Assistant(m, st))>> ELSE <<>>

\* OpenCodeDBHistory, loaded when the session switches.
HistoryOf(id, m) ==
    (IF m.sub THEN <<Event(id, "sub", m)>> ELSE <<>>)
    \o (IF Shown(m) THEN <<Event(id, IF m.ask = "asked" THEN "ask" ELSE "text", m)>> ELSE <<>>)
Loaded(s) ==
    LET after[i \in 0..Count(s)] ==
            IF i = 0 THEN <<>> ELSE after[i - 1] \o HistoryOf(i, db[s][i])
    IN after
OpenCodeDBHistory(s) == Loaded(s)[Count(s)]

-----------------------------------------------------------------------------
(* The poll.  The ids are queried first, then the parts of each message, then   *)
(* the messages are processed one by one.                                       *)
Begin(s, from) ==
    poll' = [Idle EXCEPT !.pc = "parts",
                 !.ids = [i \in 1..(Count(s) - from) |-> from + i]]

\* What is queried: from the message that may still grow, or after the last done.
From(v) == IF v.stream # None THEN v.stream - 1 ELSE v.last

\* refreshSession looks at every second poll.  A switch forgets what was known (but not
\* how long nothing changed) and replaces the events with the new session's history.
PollStart ==
    /\ poll.pc = "idle"
    /\ dirty' = FALSE
    /\ raced' = (raced \/ clearing)
    /\ IF w.due /\ latest # w.sess
       THEN /\ w' = [Seeded(latest, None) EXCEPT !.same = w.same, !.due = FALSE]
            /\ buf' = OpenCodeDBHistory(latest)
            /\ base' = 0
            /\ Begin(latest, None)
       ELSE /\ w' = [w EXCEPT !.due = ~@]
            /\ Begin(w.sess, From(w))
            /\ UNCHANGED <<buf, base>>
    /\ UNCHANGED <<db, latest, status, clearing, missed, spent>>

\* A message whose parts cannot be read is left out, whether it is the last or not.
Reading(ids, bad) ==
    LET after[i \in 0..Len(ids)] ==
            IF i = 0 THEN <<>>
            ELSE IF ids[i] \in bad THEN after[i - 1] ELSE Append(after[i - 1], ids[i])
    IN after
Readable(ids, bad) == Reading(ids, bad)[Len(ids)]

PollParts ==
    /\ poll.pc = "parts"
    /\ \E bad \in SUBSET Range(poll.ids) :
          LET read == Readable(poll.ids, bad)
          IN /\ spent.fails + Cardinality(bad) <= MaxFails
             /\ spent' = [spent EXCEPT !.fails = @ + Cardinality(bad)]
             /\ dirty' = (dirty \/ bad # {})
             /\ missed' = missed \cup {<<w.sess, i>> : i \in {j \in bad : \E k \in Range(read) : j < k}}
             /\ poll' = IF read = <<>> THEN Idle
                        ELSE [pc |-> "emit", ids |-> read, msgs |-> [i \in DOMAIN read |-> db[w.sess][read[i]]]]
    /\ UNCHANGED <<db, latest, w, buf, status, clearing, base, raced>>

\* A message with a later one is complete.
Unstreamed(v) == [v EXCEPT !.stream = None, !.text = 0, !.tool = FALSE]
PollComplete ==
    /\ poll.pc = "emit" /\ Len(poll.ids) > 1
    /\ LET id == Head(poll.ids)  m == Head(poll.msgs)
           v  == IF id = w.stream THEN Unstreamed(w) ELSE w
       IN /\ w' = [v EXCEPT !.last = id, !.subs = IF m.sub THEN @ \cup {id} ELSE @]
          /\ Calls(Subs(id, m, "idle") \o Text(id, m, IF HasTool(m) THEN "working" ELSE "idle"))
    /\ poll' = [poll EXCEPT !.ids = Tail(@), !.msgs = Tail(@)]
    /\ UNCHANGED <<db, latest, clearing, base, missed, raced, dirty, spent>>

Lasting == poll.pc = "emit" /\ Len(poll.ids) = 1
Id == Head(poll.ids)
M  == Head(poll.msgs)
\* Mutant: reasoning and tools that come after the first make no difference.
UnchangedText == M.text = w.text /\ HasTool(M) = w.tool
Unchanged == M.text = w.text /\ HasTool(M) = w.tool /\ ~Pending(Id, M)
PollOver == poll' = Idle /\ UNCHANGED <<db, latest, clearing, base, missed, raced, dirty, spent>>

\* The last message is the same as before.  In the end it is taken as done, but is not
\* noted as done: it may grow yet.  The heartbeat that says so is no event.
\* Mutants: what is taken as done is noted as done; what was done before is forgotten
\* with it.
LeftDone          == [Unstreamed(w) EXCEPT !.same = 0, !.last = Id]
Waited    == w.same + 1 >= Patience /\ M.role = "assistant"
Left      == [Unstreamed(w) EXCEPT !.same = 0]
Heartbeat == status' = "idle" /\ UNCHANGED buf

\* Mutant: unchanged polls are not counted.
PollSameUncounted ==
    /\ Lasting /\ Id = w.stream /\ Unchanged
    /\ UNCHANGED <<w, buf, status>>
    /\ PollOver
PollSame ==
    /\ Lasting /\ Id = w.stream /\ Unchanged
    /\ IF Waited
       THEN w' = Left /\ Heartbeat
       ELSE w' = [w EXCEPT !.same = IF @ < Patience THEN @ + 1 ELSE @] /\ UNCHANGED <<buf, status>>
    /\ PollOver

\* It has grown.  An event announces the first of its tools, another its text.
PollGrown ==
    /\ Lasting /\ Id = w.stream /\ ~Unchanged
    /\ LET tooled == HasTool(M) /\ ~w.tool /\ M.role = "assistant"
           asks   == M.text # w.text \/ M.ask # "no"
       IN /\ Calls(Subs(Id, M, "working")
                   \o (IF tooled THEN <<[Given(Id, "text", M, "working") EXCEPT !.ask = FALSE]>> ELSE <<>>)
                   \o (IF asks THEN Text(Id, M, "working") ELSE <<>>))
          /\ w' = [w EXCEPT !.same = 0, !.tool = HasTool(M), !.text = M.text,
                            !.subs = IF M.sub THEN @ \cup {Id} ELSE @]
    /\ PollOver

\* Another message is the last now.  An answer without text is announced with a blank.
PollNew ==
    /\ Lasting /\ Id # w.stream
    /\ w' = [w EXCEPT !.stream = Id, !.text = M.text, !.tool = HasTool(M),
                      !.subs = IF M.sub THEN @ \cup {Id} ELSE @]
    /\ Calls(Subs(Id, M, "working")
             \o IF Shown(M) THEN Text(Id, M, "working")
                ELSE IF M.role = "assistant" THEN <<Given(Id, "text", M, "working")>> ELSE <<>>)
    /\ PollOver

-----------------------------------------------------------------------------
(* conversation.clear: the buffer and the status, then the watcher (ResetOffset), *)
(* on another goroutine than the poll and with no lock.                           *)
ClearBuffer ==
    /\ ~clearing
    /\ Spend("clears", MaxClears)
    /\ clearing' = TRUE
    /\ buf' = <<>> /\ status' = "idle"
    /\ raced' = (raced \/ poll.pc # "idle")
    /\ UNCHANGED <<db, latest, w, poll, base, missed, dirty>>

\* Mutant: it forgets the last message without noting a new one.
ResetOffsetAll ==
    /\ clearing /\ clearing' = FALSE
    /\ w' = [Unstreamed(w) EXCEPT !.subs = {}, !.last = None]
    /\ base' = Count(w.sess)
    /\ raced' = (raced \/ poll.pc # "idle")
    /\ UNCHANGED <<db, latest, poll, buf, status, missed, dirty, spent>>
ResetOffset ==
    /\ clearing
    /\ clearing' = FALSE
    /\ w' = [Unstreamed(w) EXCEPT !.subs = {}, !.last = IF Count(w.sess) = 0 THEN @ ELSE Count(w.sess)]
    /\ base' = Count(w.sess)
    /\ raced' = (raced \/ poll.pc # "idle")
    /\ UNCHANGED <<db, latest, poll, buf, status, missed, dirty, spent>>

-----------------------------------------------------------------------------
(* conversation.send records the user's text at once and without a msg_id, and    *)
(* has it typed or gives it to `opencode run`, whose answer it records as well.    *)
(* OpenCode writes both to its database in its own time.                           *)
RecordConversationEvent(role, t) ==
    /\ buf' = Append(buf, [Event(None, "text", New(role)) EXCEPT !.text = t])
    /\ UNCHANGED <<db, latest, w, poll, status, clearing, base, missed, raced, dirty>>

Send(t) == Room /\ Spend("sends", MaxSends) /\ RecordConversationEvent("user", t)
\* What an answer says makes no difference, other than for a user's text.
Answer  == Spend("answers", spent.sends) /\ RecordConversationEvent("assistant", 1)

-----------------------------------------------------------------------------
OpenCode == NewSession \/ (\E r \in {"user", "assistant"} : NewMessage(r)) \/ \E i \in Messages : NewPart(i)
Poll     == PollStart \/ PollParts \/ PollComplete \/ PollSame \/ PollGrown \/ PollNew
Clear    == ClearBuffer \/ ResetOffset

Sent     == Answer \/ \E t \in 1..MaxText : Send(t)

Next == Sent \/ OpenCode \/ Poll \/ Clear
\* The ticker polls for ever; a handler that has begun goes on.
Spec == Init /\ [][Next]_vars /\ WF_vars(Poll) /\ WF_vars(ResetOffset)
-----------------------------------------------------------------------------
(* Properties.                                                               *)

TypeOK ==
    /\ db \in [Sessions -> Seq(Message)] /\ \A s \in Sessions : Count(s) <= MaxMessages
    /\ latest \in Sessions
    /\ w \in [sess : 1..latest, last : Ids, stream : Ids, text : 0..MaxText, tool : BOOLEAN,
              same : 0..Patience, subs : SUBSET Messages, due : BOOLEAN]
    /\ poll \in [pc : {"idle", "parts", "emit"}, ids : Seq(Messages), msgs : Seq(Message)]
    /\ buf \in Seq([id : Ids, kind : {"sub", "text", "ask"}, role : {"user", "assistant"},
                    text : 0..MaxText])
    /\ status \in {"working", "idle"} /\ {clearing, raced, dirty} \subseteq BOOLEAN
    /\ base \in Ids /\ missed \subseteq Sessions \X Messages
    /\ spent \in [writes : Nat, clears : Nat, fails : Nat, sends : Nat, answers : Nat]

Looked(i) == i > base /\ <<w.sess, i>> \notin missed /\ ~clearing /\ ~raced
HasEvent(i, kind) == \E e \in Range(buf) : e.id = i /\ e.kind = kind

\* When nothing was written since the last poll began, the buffer holds what the
\* database says of every message since Start or the last clear, as far as it grew while
\* it was the last: its reasoning or tool part, and all of its text unless it is a
\* question, or what a user says once more.
NothingMissed ==
    /\ TypeOK
    /\ poll.pc = "idle" /\ ~dirty =>
        \A i \in DOMAIN db[w.sess] : Looked(i) =>
            LET m == db[w.sess][i]
            IN /\ m.sub => HasEvent(i, "sub")
               /\ m.text > 0 /\ m.ask # "asked" =>
                      \E e \in Range(buf) : /\ e.text = m.text /\ e.role = m.role
                                            /\ (e.id = i /\ e.kind = "text") \/ m.role = "user"

\* Messages that were there when the user cleared stay cleared, unless a poll was under
\* way.
ClearedStaysCleared ==
    ~clearing /\ ~raced => \A i \in DOMAIN buf : buf[i].id = None \/ buf[i].id > base


\* A question that OpenCode's last message asks is shown in the end, though its input
\* comes after its part and changes nothing the watcher compares.
QuestionShown ==
    \A i \in Messages :
        []<>(i = Count(w.sess) /\ Looked(i) /\ db[w.sess][i].ask = "asked" => HasEvent(i, "ask"))

\* An answer that has ended does not leave the agent working for ever.
WorkingEnds ==
    []<>(~raced /\ ~clearing /\ Count(w.sess) > 0 /\ db[w.sess][Count(w.sess)].role = "assistant"
         => status = "idle")
=============================================================================

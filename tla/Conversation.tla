---------------------------- MODULE Conversation ----------------------------
(***************************************************************************)
(* One attached agent's conversation in agentd: the CLI writes its session *)
(* transcript, the session watcher turns new lines into events, handlers   *)
(* of conversation.send record what users type, conversation.clear empties *)
(* everything, and a switch of the CLI to another session does so too.     *)
(* Events live twice, in the agent's event buffer (EventLog says what it   *)
(* promises; nothing is evicted at these sizes) and in the store.          *)
(*                                                                         *)
(* Recording an event is three steps with no lock around them: append to   *)
(* the buffer, read the agent's session id, save the row.  A fourth tells  *)
(* the clients.  Clearing is two or more.  The daemon may crash between    *)
(* any two steps; LoadFromStore then restores the agent.                   *)
(***************************************************************************)
EXTENDS Naturals, Sequences, FiniteSets, SequencesExt, FiniteSetsExt

CONSTANTS
    Senders,      \* connections that send messages
    Texts,        \* what users type
    MaxLines,     \* no world has more lines
    MaxSessions,  \* nor more sessions
    Worlds        \* the agents, and how much happens to them

\* provider: "claude" tails a JSONL file, "hermes" reads state.db.  The others
\* bound the conversation.send and conversation.clear requests, what the CLI
\* writes, its sessions, and the daemon's crashes.
World == [provider : {"claude", "hermes"}, sends : Nat, clears : Nat,
          lines : 0..MaxLines, sessions : 1..MaxSessions, crashes : Nat]
ASSUME WorldsAssumption == Worlds \subseteq World
ASSUME BoundsAssumption == MaxLines \in Nat /\ MaxSessions \in Nat \ {0}

VARIABLES
    world,    \* the agent's
    up,       \* the daemon runs
    buf, seq, \* the agent's event buffer and its last sequence number
    store,    \* conversation_events rows of the agent
    sess,     \* ag.ResumeSessionID()
    dbSess,   \* agents.resume_session_id
    cli,      \* the transcript of each CLI session
    cliSess,  \* the session the CLI is in
    pane,     \* what was typed into the CLI's terminal and is not read yet
    tail,     \* the watcher: session, lines done, end of the poll, whether seeded,
              \* and (for InOrder only) the lines a clear took it back over
    task,     \* what each handler, and the watcher's goroutine, is doing
    sending,  \* ag.sendingFlag
    told,     \* what a client has been told since the last conversation.cleared
    spent     \* requests, crashes and lines of the transcripts so far

vars == <<world, up, buf, seq, store, sess, dbSess, cli, cliSess, pane, tail,
          task, sending, told, spent>>

Sessions == 1..MaxSessions
Claude   == world.provider = "claude"
Watcher  == "watcher"
Clearer  == "clearer"
Tasks    == Senders \cup {Watcher, Clearer}
ASSUME TasksAssumption == Senders \cap {Watcher, Clearer} = {}

\* A recorded event; from is the transcript line it came from, <<0, 0>> for a
\* message recorded by conversation.send.
Ev(role, text, from) == [role |-> role, text |-> text, from |-> from]
Typed    == <<0, 0>>
NoEv     == Ev("none", "", Typed)
IdleTask == [pc |-> "ready", ev |-> NoEv, seq |-> 0, tag |-> 0,
             todo |-> <<>>, reload |-> FALSE, to |-> 0, size |-> 0]

Line(s, i)    == Ev(cli[s][i].role, cli[s][i].text, <<s, i>>)
Lines(s, a, b) == [k \in 1..(b - a + 1) |-> Line(s, a + k - 1)]
Row(n, ev, tag) == [seq |-> n, ev |-> ev, tag |-> tag]
LastRowSeq(rows) == Max({r.seq : r \in rows} \cup {0})
Save(rows, r) == {q \in rows : q.seq # r.seq} \cup {r}      \* INSERT OR REPLACE

\* What discovery finds: the session with the newest message, or the newest
\* session whose file exists.  Session 1 existed when the agent was attached.
Latest == Max({s \in Sessions : cli[s] # <<>>} \cup {1})

Init ==
    /\ world \in Worlds
    /\ up = TRUE
    /\ buf = <<>> /\ seq = 0
    /\ store = {}
    /\ sess = 1 /\ dbSess = 1
    /\ cli = [s \in Sessions |-> <<>>]
    /\ cliSess = 1
    /\ pane = <<>>
    /\ tail = [sess |-> 1, pos |-> 0, end |-> 0, seeded |-> TRUE, again |-> {}]
    /\ task = [t \in Tasks |-> IdleTask]
    /\ sending = FALSE
    /\ told = {}
    /\ spent = [sends |-> 0, clears |-> 0, crashes |-> 0, lines |-> 0]

Goto(t, l) == task' = [task EXCEPT ![t].pc = l]
Spend(k)   == spent' = [spent EXCEPT ![k] = @ + 1]

\* LoadFromStore has started the JSONL watcher by the time requests are served.
Serving == up /\ (Claude => tail.seeded)

External == <<cli, cliSess, pane>>
Recorded == <<buf, seq, store>>
Names    == <<sess, dbSess>>

-----------------------------------------------------------------------------
(* The CLI process (external).                                               *)
Write(role, text) ==
    /\ spent.lines < world.lines /\ Spend("lines")
    /\ cli' = [cli EXCEPT ![cliSess] = Append(@, [role |-> role, text |-> text])]

CliReads ==
    /\ pane # <<>>
    /\ Write("user", Head(pane))
    /\ pane' = Tail(pane)
    /\ UNCHANGED <<world, up, Recorded, Names, cliSess, tail, task, sending, told>>

CliTyped(text) ==
    /\ Write("user", text)
    /\ UNCHANGED <<world, up, Recorded, Names, cliSess, pane, tail, task, sending, told>>

CliAnswers ==
    /\ Write("assistant", "reply")
    /\ UNCHANGED <<world, up, Recorded, Names, cliSess, pane, tail, task, sending, told>>

\* /clear typed at the terminal.
CliNewSession ==
    /\ cliSess < world.sessions
    /\ cliSess' = cliSess + 1
    /\ UNCHANGED <<world, up, Recorded, Names, cli, pane, tail, task, sending, told, spent>>

-----------------------------------------------------------------------------
(* AppendAndPersistEvent.                                                    *)
AppendEvent(t, ev) ==
    /\ seq' = seq + 1
    /\ buf' = Append(buf, [seq |-> seq + 1, ev |-> ev])
    /\ task' = [task EXCEPT ![t].pc = "tag", ![t].ev = ev, ![t].seq = seq + 1]

Tag(t) ==
    /\ up /\ task[t].pc = "tag"
    /\ task' = [task EXCEPT ![t].pc = "save", ![t].tag = sess]
    /\ UNCHANGED <<world, up, Recorded, Names, External, tail, sending, told, spent>>

\* Mutant: the row is not saved.
SaveDropped(t) ==
    /\ up /\ task[t].pc = "save"
    /\ Goto(t, IF task[t].reload THEN "next" ELSE "publish")
    /\ UNCHANGED <<world, up, Recorded, Names, External, tail, sending, told, spent>>

\* Reloaded history is not sent to the clients event by event.
SaveEvent(t) ==
    /\ up /\ task[t].pc = "save"
    /\ store' = Save(store, Row(task[t].seq, task[t].ev, task[t].tag))
    /\ Goto(t, IF task[t].reload THEN "next" ELSE "publish")
    /\ UNCHANGED <<world, up, buf, seq, Names, External, tail, sending, told, spent>>

Publish(t) ==
    /\ up /\ task[t].pc = "publish"
    /\ told' = told \cup {[seq |-> task[t].seq, ev |-> task[t].ev]}
    /\ Goto(t, IF t = Watcher THEN "next" ELSE IF Claude THEN "write" ELSE "begin")
    /\ UNCHANGED <<world, up, Recorded, Names, External, tail, sending, spent>>

-----------------------------------------------------------------------------
(* conversation.send to a CLI in a tmux pane: record, tell, type.            *)
Send(c, text) ==
    /\ Serving /\ task[c].pc = "ready" /\ spent.sends < world.sends
    /\ AppendEvent(c, Ev("user", text, Typed))
    /\ Spend("sends")
    /\ UNCHANGED <<world, up, store, Names, External, tail, sending, told>>

BeginSend(c) ==
    /\ up /\ task[c].pc = "begin"
    /\ sending' = TRUE
    /\ Goto(c, "write")
    /\ UNCHANGED <<world, up, Recorded, Names, External, tail, told, spent>>

\* sendTmuxInput: in chunks and keys that the pane receives as one line.
Types(text) == pane' = Append(pane, text)

WriteInput(c) ==
    /\ up /\ task[c].pc = "write"
    /\ Types(task[c].ev.text)
    /\ task' = [task EXCEPT ![c] = IF Claude THEN IdleTask ELSE [@ EXCEPT !.pc = "end"]]
    /\ UNCHANGED <<world, up, Recorded, Names, cli, cliSess, tail, sending, told, spent>>

EndSend(c) ==
    /\ up /\ task[c].pc = "end"
    /\ sending' = FALSE
    /\ task' = [task EXCEPT ![c] = IdleTask]
    /\ UNCHANGED <<world, up, Recorded, Names, External, tail, told, spent>>

-----------------------------------------------------------------------------
(* The two halves of every clearing, and the push that ends it.              *)
ResetBuf == buf' = <<>> /\ seq' = 0

Reset(t, next) ==
    /\ up /\ task[t].pc = "reset"
    /\ ResetBuf
    /\ Goto(t, next)
    /\ UNCHANGED <<world, up, store, Names, External, tail, sending, told, spent>>

ClearStore(t, next) ==
    /\ up /\ task[t].pc = "clear"
    /\ store' = {}
    /\ Goto(t, next)
    /\ UNCHANGED <<world, up, buf, seq, Names, External, tail, sending, told, spent>>

Cleared(t) ==
    /\ up /\ task[t].pc = "cleared"
    /\ told' = {}
    /\ task' = [task EXCEPT ![t] = IdleTask]
    /\ UNCHANGED <<world, up, Recorded, Names, External, tail, sending, spent>>

(* conversation.clear.                                                       *)
Clear ==
    /\ Serving /\ task[Clearer].pc = "ready" /\ spent.clears < world.clears
    /\ Goto(Clearer, "reset")
    /\ Spend("clears")
    /\ UNCHANGED <<world, up, Recorded, Names, External, tail, sending, told>>

\* ResetOffset, of the JSONL watcher only: the size of its file, then, with no
\* lock held, the offset.  A poll or a switch may come between the two.  Lines
\* count as equally long, so a size is a number of lines.
StatOffset ==
    /\ up /\ task[Clearer].pc = "stat"
    /\ task' = [task EXCEPT ![Clearer].pc = "assign", ![Clearer].size = Len(cli[tail.sess])]
    /\ UNCHANGED <<world, up, Recorded, Names, External, tail, sending, told, spent>>

\* A poll in progress will set the offset itself when it ends.
Polling == task[Watcher].pc \in {"next", "append", "tag", "save", "publish"}

\* The next poll starts at the offset, and at 0 if the file is smaller.
StartPos(s, pos) == IF pos > Len(cli[s]) THEN 0 ELSE pos

Retaken(s, size, pos) == {<<s, i>> : i \in StartPos(s, size) + 1 .. pos}

ResetWatcherOffset ==
    LET size == task[Clearer].size IN
    /\ up /\ task[Clearer].pc = "assign"
    /\ tail' = [tail EXCEPT !.pos = size,
                   !.again = IF Polling THEN @ ELSE @ \cup Retaken(tail.sess, size, tail.pos)]
    /\ Goto(Clearer, "cleared")
    /\ UNCHANGED <<world, up, Recorded, Names, External, sending, told, spent>>

ClearStep ==
    \/ Clear
    \/ Reset(Clearer, "clear")
    \/ ClearStore(Clearer, IF Claude THEN "stat" ELSE "cleared")
    \/ StatOffset \/ ResetWatcherOffset
    \/ Cleared(Clearer)

-----------------------------------------------------------------------------
(* The watcher's goroutine.  A poll hands the new lines to the callback one  *)
(* by one; a poll that finds none, or for Hermes a newer session, switches.  *)
Idle == up /\ task[Watcher].pc = "ready"
Behind == tail.pos # Len(cli[tail.sess])

Poll ==
    /\ Idle /\ Behind /\ tail.seeded
    /\ Claude \/ Latest = tail.sess
    /\ tail' = [tail EXCEPT !.end = Len(cli[tail.sess])]
    /\ task' = [task EXCEPT ![Watcher].pc = "next",
                            ![Watcher].todo = Lines(tail.sess, StartPos(tail.sess, tail.pos) + 1, Len(cli[tail.sess]))]
    /\ UNCHANGED <<world, up, Recorded, Names, External, sending, told, spent>>

\* After a restart the Claude watcher starts at the end of the file
\* (SetSkipExisting), and the Hermes watcher's first poll at the newest message.
Seed ==
    /\ Idle /\ ~tail.seeded
    /\ Claude \/ Latest = tail.sess
    /\ tail' = [tail EXCEPT !.pos = Len(cli[tail.sess]), !.seeded = TRUE]
    /\ UNCHANGED <<world, up, Recorded, Names, External, task, sending, told, spent>>

\* makeWatcherCallback: a user message equal to the last event is taken for
\* the one conversation.send recorded.
Known(ev) ==
    /\ ev.role = "user"
    /\ buf # <<>>
    /\ Last(buf).ev.role = "user" /\ Last(buf).ev.text = ev.text

NextLine ==
    LET w == task[Watcher] IN
    /\ up /\ w.pc = "next" /\ w.todo # <<>>
    /\ task' = [task EXCEPT ![Watcher] =
                    IF Known(Head(w.todo)) /\ ~w.reload
                    THEN [w EXCEPT !.todo = Tail(w.todo)]
                    ELSE [w EXCEPT !.pc = "append"]]
    /\ UNCHANGED <<world, up, Recorded, Names, External, tail, sending, told, spent>>

AppendLine ==
    LET w == task[Watcher] IN
    /\ up /\ w.pc = "append"
    /\ seq' = seq + 1
    /\ buf' = Append(buf, [seq |-> seq + 1, ev |-> Head(w.todo)])
    /\ task' = [task EXCEPT ![Watcher] = [w EXCEPT !.pc = "tag", !.ev = Head(w.todo),
                                                   !.seq = seq + 1, !.todo = Tail(w.todo)]]
    /\ UNCHANGED <<world, up, store, Names, External, tail, sending, told, spent>>

\* Mutant: the offset is the size of the file, not the position read.
EndPollAtEOF ==
    LET w == task[Watcher] IN
    /\ up /\ w.pc = "next" /\ w.todo = <<>> /\ ~w.reload
    /\ tail' = [tail EXCEPT !.pos = Len(cli[tail.sess])]
    /\ task' = [task EXCEPT ![Watcher] = IdleTask]
    /\ UNCHANGED <<world, up, Recorded, Names, External, sending, told, spent>>

EndPoll ==
    LET w == task[Watcher] IN
    /\ up /\ w.pc = "next" /\ w.todo = <<>> /\ ~w.reload
    /\ tail' = [tail EXCEPT !.pos = tail.end]
    /\ task' = [task EXCEPT ![Watcher] = IdleTask]
    /\ UNCHANGED <<world, up, Recorded, Names, External, sending, told, spent>>

\* switchToFile moves the JSONL watcher at once; the Hermes watcher moves in
\* Rebase, and not at all while a send is in flight.
DetectSwitch ==
    /\ Idle /\ Latest # tail.sess
    /\ IF Claude
       THEN tail.seeded /\ ~Behind /\ tail' = [tail EXCEPT !.sess = Latest, !.pos = 0]
       ELSE ~sending /\ tail' = tail
    /\ task' = [task EXCEPT ![Watcher].pc = "update", ![Watcher].to = Latest]
    /\ UNCHANGED <<world, up, Recorded, Names, External, sending, told, spent>>

\* Mutant: the live agent keeps its old session id.
UpdateStoreOnly ==
    LET w == task[Watcher] IN
    /\ up /\ w.pc = "update"
    /\ dbSess' = w.to /\ sess' = sess
    /\ Goto(Watcher, IF Claude THEN "reset" ELSE "clear")
    /\ UNCHANGED <<world, up, Recorded, External, tail, sending, told, spent>>

UpdateResumeSessionID ==
    LET w == task[Watcher] IN
    /\ up /\ w.pc = "update"
    /\ dbSess' = w.to /\ sess' = w.to
    /\ Goto(Watcher, IF Claude THEN "reset" ELSE "clear")
    /\ UNCHANGED <<world, up, Recorded, External, tail, sending, told, spent>>

LoadSession ==
    LET w == task[Watcher] IN
    /\ up /\ w.pc = "load"
    /\ task' = [task EXCEPT ![Watcher] = [w EXCEPT !.pc = "next", !.reload = TRUE,
                                              !.todo = Lines(w.to, 1, Len(cli[w.to]))]]
    /\ UNCHANGED <<world, up, Recorded, Names, External, tail, sending, told, spent>>

\* Mutant: the new session is tailed from its start although it was loaded.
RebaseToStart ==
    LET w == task[Watcher] IN
    /\ up /\ w.pc = "next" /\ w.todo = <<>> /\ w.reload
    /\ tail' = [tail EXCEPT !.sess = w.to, !.pos = 0, !.end = 0, !.seeded = TRUE]
    /\ Goto(Watcher, "cleared")
    /\ UNCHANGED <<world, up, Recorded, Names, External, sending, told, spent>>

\* SetSessionID: "reset lastTS to the latest message timestamp".
Rebase ==
    LET w == task[Watcher] IN
    /\ up /\ w.pc = "next" /\ w.todo = <<>> /\ w.reload
    /\ tail' = [tail EXCEPT !.sess = w.to, !.pos = Len(cli[w.to]), !.end = Len(cli[w.to]),
                            !.seeded = TRUE]
    /\ Goto(Watcher, "cleared")
    /\ UNCHANGED <<world, up, Recorded, Names, External, sending, told, spent>>

\* OnSessionSwitch.  For Claude the buffer is reset first; for Hermes the store is
\* cleared first, and the new session's history is loaded.
SwitchStep ==
    \/ UpdateResumeSessionID
    \/ Reset(Watcher, IF Claude THEN "clear" ELSE "load")
    \/ ClearStore(Watcher, IF Claude THEN "cleared" ELSE "reset")
    \/ LoadSession \/ Rebase \/ Cleared(Watcher)

WatcherStep ==
    \/ Poll \/ Seed \/ NextLine \/ AppendLine \/ EndPoll
    \/ DetectSwitch \/ SwitchStep
    \/ Tag(Watcher) \/ SaveEvent(Watcher) \/ Publish(Watcher)

-----------------------------------------------------------------------------
(* A crash loses what is in memory; the terminal keeps what was typed.       *)
Crash ==
    /\ up /\ spent.crashes < world.crashes
    /\ up' = FALSE
    /\ ResetBuf
    /\ task' = [t \in Tasks |-> IdleTask]
    /\ sending' = FALSE
    /\ Spend("crashes")
    /\ UNCHANGED <<world, store, Names, External, tail, told>>

\* Mutant: numbering restarts at 1 (InitSeq forgotten).
BackfillFromOne(rows, n, history) ==
    /\ seq' = Len(history)
    /\ buf' = [i \in 1..Len(history) |-> [seq |-> i, ev |-> history[i]]]
    /\ store' = {r \in rows : r.seq \notin 1 .. Len(history)}
                    \cup {Row(i, history[i], dbSess) : i \in 1..Len(history)}

\* History appended to a buffer whose last sequence number is n, and saved.
Backfill(rows, n, history) ==
    /\ seq' = n + Len(history)
    /\ buf' = [i \in 1..Len(history) |-> [seq |-> n + i, ev |-> history[i]]]
    /\ store' = {r \in rows : r.seq \notin n + 1 .. n + Len(history)}
                    \cup {Row(n + i, history[i], dbSess) : i \in 1..Len(history)}

\* LoadFromStore runs before the server listens (Serving).  Rows of other sessions are
\* pruned and numbering continues after the rest.  Hermes: the newest
\* session's history is appended.  Claude: history is rebuilt from the file
\* when the file has more lines than the last sequence number.
Restart ==
    LET kept    == {r \in store : r.tag = dbSess}
        lastSeq == LastRowSeq(kept)
        history == Lines(Latest, 1, Len(cli[Latest]))
    IN
    /\ ~up /\ up' = TRUE
    /\ sess' = dbSess
    /\ IF ~Claude THEN Backfill(kept, lastSeq, history)
       ELSE IF lastSeq < Len(history) THEN Backfill({}, 0, history)
       ELSE Backfill(kept, lastSeq, <<>>)
    /\ tail' = [sess |-> IF Claude THEN Latest ELSE dbSess, pos |-> 0, end |-> 0, seeded |-> FALSE,
                 again |-> {}]
    /\ UNCHANGED <<world, dbSess, External, task, sending, told, spent>>

SendStep ==
    \E c \in Senders :
        \/ \E text \in Texts : Send(c, text)
        \/ Tag(c) \/ SaveEvent(c) \/ Publish(c) \/ BeginSend(c) \/ WriteInput(c) \/ EndSend(c)

CliStep ==
    \/ CliReads \/ CliAnswers \/ CliNewSession
    \/ \E text \in Texts : CliTyped(text)

Next == SendStep \/ ClearStep \/ WatcherStep \/ CliStep \/ Crash \/ Restart

\* The watcher's ticker never stops; users and the CLI owe nothing.
Spec == Init /\ [][Next]_vars /\ WF_vars(WatcherStep)

-----------------------------------------------------------------------------
(* Properties.                                                               *)

EvType == [role : {"user", "assistant", "none"}, text : Texts \cup {"reply", ""},
           from : (0..MaxSessions) \X (0..MaxLines)]

TypeOK ==
    /\ world \in Worlds /\ up \in BOOLEAN /\ sending \in BOOLEAN
    /\ seq \in Nat /\ sess \in Sessions /\ dbSess \in Sessions /\ cliSess \in Sessions
    /\ \A i \in DOMAIN buf : buf[i].ev \in EvType /\ buf[i].seq = seq - Len(buf) + i
    /\ \A r \in store : r.ev \in EvType /\ r.seq \in Nat /\ r.tag \in Sessions
    /\ \A r, q \in store : r.seq = q.seq => r = q
    /\ tail.sess \in Sessions /\ tail.pos \in 0..MaxLines

Switching == task[Watcher].to # 0
Quiet     == up /\ \A t \in Tasks : task[t].pc = "ready"
HasRow(e) == \E r \in store : r.seq = e.seq /\ r.ev = e.ev

Shown(s, i) == \E k \in DOMAIN buf : buf[k].ev.from = <<s, i>>

\* A session switch leaves nothing of the old session, live or persisted, and
\* every row is filed under the session its line came from.
SessionIsolation ==
    /\ TypeOK
    /\ up /\ ~Switching =>
        /\ \A i \in DOMAIN buf : buf[i].ev.from[1] \in {0, tail.sess}
        /\ \A r \in store : r.ev.from # Typed => r.ev.from[1] = tail.sess /\ r.tag = tail.sess

\* The watcher neither repeats a transcript line nor swaps two, whatever
\* clears, switches and sends run beside it, with one exception: a clear whose
\* ResetOffset was overtaken, between its two steps, by a poll or a switch puts
\* the watcher back over lines it has read.  Those it reads again; no others.
InOrder ==
    \A i, j \in DOMAIN buf :
        LET a == buf[i].ev.from
            b == buf[j].ev.from
        IN i < j /\ a # Typed /\ b # Typed /\ a[1] = b[1] /\ b \notin tail.again
           => a[2] < b[2]

\* A row, once saved, keeps its event: a sequence number clients page by is
\* never given to another event, a crash between append and save included.  (A
\* clear starts the numbers again, and a row saved between its two halves stays.)
RowsKept ==
    [][spent.clears = 0 =>
           \A r \in store : \A q \in store' : q.seq = r.seq => q.ev = r.ev]_vars

\* What a client was told survives a crash of the daemon, and every live event
\* is in the store or a task is about to put it there.  (A clear, which empties
\* the buffer and the store in two steps, parts them for good when an event is
\* recorded in between; a switch parts them until it ends.)
Persisted ==
    spent.clears = 0 /\ ~Switching =>
        /\ \A e \in told : HasRow(e)
        /\ \A i \in DOMAIN buf :
              \/ HasRow(buf[i])
              \/ \E t \in Tasks : task[t].pc \in {"tag", "save"} /\ task[t].seq = buf[i].seq

\* A user line equal to the user line before it, which Known cannot tell from
\* an echo of conversation.send.
Repeats(s, i) ==
    i > 1 /\ cli[s][i].role = "user" /\ cli[s][i - 1] = cli[s][i]

\* Every line a Claude CLI writes reaches the conversation unless the CLI moves
\* to another session first or somebody clears the conversation.
Followed ==
    \A s \in Sessions, i \in 1..MaxLines :
        (Claude /\ i \in DOMAIN cli[s] /\ ~Repeats(s, i))
            ~> (Shown(s, i) \/ Latest # s \/ spent.clears > 0)
=============================================================================

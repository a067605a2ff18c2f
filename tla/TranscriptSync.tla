--------------------------- MODULE TranscriptSync ---------------------------
(***************************************************************************)
(* The agent screen of the app (_AgentDetailScreenState) and the           *)
(* conversation it shows.  agentd numbers an agent's events (the order in  *)
(* which it stores them is EventBuffer's and Conversation's business), and *)
(* pushes each to the app; the app also polls for the events after its     *)
(* cursor, _lastSeq, and loads the history when the screen opens.  Pushes  *)
(* arrive in the order they are sent; a response is matched by its id and  *)
(* may overtake pushes or be overtaken.  A link that is down loses pushes  *)
(* and fails requests.                                                     *)
(***************************************************************************)
EXTENDS Naturals, Sequences, FiniteSets

CONSTANTS
    MaxEvents,   \* bound on the events ever recorded
    MaxClears,   \* bound on conversation.clear requests
    MaxSessions, \* bound on sessions of the agent
    MaxFaults    \* bound on lost pushes and failed requests
ASSUME BoundsAssumption == MaxEvents \in Nat /\ MaxSessions \in Nat \ {0}

VARIABLES
    log,      \* the agent's events: the i-th has sequence number i
    sess,     \* the agent's session
    phase,    \* of a session switch: "none", "updated", "emptied"
    unsent,   \* recorded events whose broadcast is still to come
    pushes,   \* pushes on their way to the app
    poll,     \* the app's poll request
    load,     \* the app's history request
    events,   \* _rawEvents
    lastSeq,  \* _lastSeq
    initial,  \* _initialLoading
    live,     \* _currentSessionId()
    spent     \* events, clears and faults so far

vars == <<log, sess, phase, unsent, pushes, poll, load, events, lastSeq, initial, live, spent>>
server  == <<log, sess, phase>>
screen  == <<events, lastSeq, initial>>

Off == [pc |-> "off", cursor |-> 0, expected |-> 0, events |-> {}, lastSeq |-> 0, sess |-> 0]
Asked(cursor) == [Off EXCEPT !.pc = "asked", !.cursor = cursor, !.expected = live]

\* The events after sequence number n.  Cursor 0 asks for the latest ones, which
\* at these sizes are all.
After(n) == {[seq |-> i, id |-> log[i].id] : i \in n + 1 .. Len(log)}
LatestEvents == After(0)
History(cursor) == IF cursor = 0 THEN LatestEvents ELSE After(cursor)

Seqs(es) == {e.seq : e \in es}
\* mergeConversationEvents: by sequence number, the incoming event wins.
Merge(old, incoming) == {e \in old : e.seq \notin Seqs(incoming)} \cup incoming

\* The screen has just opened with nothing cached.
Init ==
    /\ log = <<>> /\ sess = 1 /\ phase = "none"
    /\ unsent = {} /\ pushes = <<>>
    /\ live = 1
    /\ poll = Off /\ load = [Off EXCEPT !.pc = "asked", !.expected = 1]
    /\ events = {} /\ lastSeq = 0 /\ initial = TRUE
    /\ spent = [events |-> 0, clears |-> 0, faults |-> 0]

Spend(k) == spent' = [spent EXCEPT ![k] = @ + 1]

-----------------------------------------------------------------------------
(* agentd.                                                                   *)

\* A handler or the watcher records an event, and broadcasts it later.
Record ==
    LET e == [id |-> spent.events + 1, sess |-> sess] IN
    /\ spent.events < MaxEvents
    /\ log' = Append(log, e)
    /\ unsent' = unsent \cup {[kind |-> "message", seq |-> Len(log) + 1, id |-> e.id, sess |-> sess]}
    /\ Spend("events")
    /\ UNCHANGED <<sess, phase, pushes, poll, load, screen, live>>

Broadcast(m) ==
    /\ m \in unsent
    /\ unsent' = unsent \ {m}
    /\ pushes' = Append(pushes, m)
    /\ UNCHANGED <<server, poll, load, screen, live, spent>>

ClearedPush == [kind |-> "cleared", seq |-> 0, id |-> 0, sess |-> 0]
StatusPush  == [kind |-> "status", seq |-> 0, id |-> 0, sess |-> sess]

\* conversation.clear: empty the conversation, then say so.
Clear ==
    /\ spent.clears < MaxClears /\ phase = "none"
    /\ log' = <<>>
    /\ phase' = "clearing"
    /\ Spend("clears")
    /\ UNCHANGED <<sess, unsent, pushes, poll, load, screen, live>>

ClearTold ==
    /\ phase = "clearing"
    /\ phase' = "none"
    /\ pushes' = Append(pushes, ClearedPush)
    /\ UNCHANGED <<log, sess, unsent, poll, load, screen, live, spent>>

\* A session switch: the id first, then the events, then cleared and status.
SwitchSession ==
    /\ sess < MaxSessions /\ phase = "none"
    /\ sess' = sess + 1
    /\ phase' = "updated"
    /\ UNCHANGED <<log, unsent, pushes, poll, load, screen, live, spent>>

SwitchEmpty ==
    /\ phase = "updated"
    /\ log' = <<>>
    /\ phase' = "emptied"
    /\ UNCHANGED <<sess, unsent, pushes, poll, load, screen, live, spent>>

SwitchTold ==
    /\ phase = "emptied"
    /\ phase' = "none"
    /\ pushes' = pushes \o <<ClearedPush, StatusPush>>
    /\ UNCHANGED <<log, sess, unsent, poll, load, screen, live, spent>>

\* conversation.history reads the events and then, under no common lock, the
\* last sequence number and the session id.
Read(r)       == [r EXCEPT !.pc = "read", !.events = History(r.cursor)]
Answer(r)     == [r EXCEPT !.pc = "answered", !.lastSeq = Len(log), !.sess = sess]

HistoryEvents ==
    \/ poll.pc = "asked" /\ poll' = Read(poll) /\ load' = load
    \/ load.pc = "asked" /\ load' = Read(load) /\ poll' = poll

HistoryAnswer ==
    \/ poll.pc = "read" /\ poll' = Answer(poll) /\ load' = load
    \/ load.pc = "read" /\ load' = Answer(load) /\ poll' = poll

ConversationHistory ==
    /\ HistoryEvents \/ HistoryAnswer
    /\ UNCHANGED <<server, unsent, pushes, screen, live, spent>>

-----------------------------------------------------------------------------
(* The app.                                                                  *)

\* _onPushEvent, and nodesProvider for a status change.  A message of another
\* session is ignored, and so is one whose sequence number is shown already.
PushCleared ==
    /\ Head(pushes).kind = "cleared"
    /\ events' = {} /\ lastSeq' = 0
    /\ UNCHANGED <<initial, live>>

PushStatus ==
    /\ Head(pushes).kind = "status"
    /\ live' = Head(pushes).sess
    /\ UNCHANGED screen

\* Mutant: the app numbers pushed events itself.
PushRenumbered ==
    LET m == Head(pushes) IN
    /\ m.kind = "message"
    /\ IF m.sess # live \/ lastSeq + 1 \in Seqs(events)
       THEN UNCHANGED <<events, lastSeq>>
       ELSE /\ events' = events \cup {[seq |-> lastSeq + 1, id |-> m.id]}
            /\ lastSeq' = lastSeq + 1
    /\ UNCHANGED <<initial, live>>

PushMessage ==
    LET m == Head(pushes) IN
    /\ m.kind = "message"
    /\ IF m.sess # live \/ m.seq \in Seqs(events)
       THEN UNCHANGED <<events, lastSeq>>
       ELSE /\ events' = events \cup {[seq |-> m.seq, id |-> m.id]}
            /\ lastSeq' = IF m.seq > lastSeq THEN m.seq ELSE lastSeq
    /\ UNCHANGED <<initial, live>>

OnPush ==
    /\ pushes # <<>>
    /\ PushCleared \/ PushStatus \/ PushMessage
    /\ pushes' = Tail(pushes)
    /\ UNCHANGED <<server, unsent, poll, load, spent>>

\* _pollNewEvents, every second, unless loading or polling.
PollTick ==
    /\ ~initial /\ poll.pc = "off"
    /\ poll' = Asked(lastSeq)
    /\ UNCHANGED <<server, unsent, pushes, load, screen, live, spent>>

\* "Detect sequence regression": start over.  _loadHistory returns at once
\* when a load is already in flight.
PollRegressed ==
    /\ poll.lastSeq < lastSeq
    /\ events' = {} /\ lastSeq' = 0 /\ initial' = TRUE
    /\ load' = IF load.pc = "off" THEN Asked(0) ELSE load

\* Mutant: the cursor moves only when there is nothing to merge.
PollForgetsCursor ==
    /\ poll.lastSeq >= lastSeq
    /\ lastSeq' = IF poll.events = {} THEN poll.lastSeq ELSE lastSeq
    /\ events' = Merge(events, poll.events)
    /\ UNCHANGED <<initial, load>>

PollMerged ==
    /\ poll.lastSeq >= lastSeq
    /\ lastSeq' = poll.lastSeq
    /\ events' = IF Seqs(poll.events) \subseteq Seqs(events) THEN events
                 ELSE Merge(events, poll.events)
    /\ UNCHANGED <<initial, load>>

OnPollResponse ==
    /\ poll.pc = "answered"
    /\ PollRegressed \/ PollMerged
    /\ poll' = Off
    /\ UNCHANGED <<server, unsent, pushes, live, spent>>

\* _loadHistory drops a response of a session that is neither the one it
\* expected nor the live one.
LoadDropped ==
    /\ load.sess # load.expected /\ load.sess # live
    /\ UNCHANGED screen

LoadMerged ==
    /\ load.sess = load.expected \/ load.sess = live
    /\ events' = IF load.lastSeq < lastSeq THEN load.events ELSE Merge(events, load.events)
    /\ lastSeq' = load.lastSeq
    /\ initial' = FALSE

OnLoadResponse ==
    /\ load.pc = "answered"
    /\ LoadDropped \/ LoadMerged
    /\ load' = Off
    /\ UNCHANGED <<server, unsent, pushes, poll, live, spent>>

-----------------------------------------------------------------------------
(* The link goes down: a push is lost, a request fails.                      *)
LosePush ==
    /\ pushes # <<>>
    /\ pushes' = Tail(pushes)
    /\ UNCHANGED <<poll, load, initial>>

PollFails ==
    /\ poll.pc # "off"
    /\ poll' = Off
    /\ UNCHANGED <<pushes, load, initial>>

\* Mutant: a failed load leaves the screen loading.
LoadFailsLoading ==
    /\ load.pc # "off"
    /\ load' = Off
    /\ UNCHANGED <<pushes, poll, initial>>

LoadFails ==
    /\ load.pc # "off"
    /\ load' = Off
    /\ initial' = FALSE
    /\ UNCHANGED <<pushes, poll>>

Fault ==
    /\ spent.faults < MaxFaults
    /\ LosePush \/ PollFails \/ LoadFails
    /\ Spend("faults")
    /\ UNCHANGED <<server, unsent, events, lastSeq, live>>

Daemon ==
    \/ \E m \in unsent : Broadcast(m)
    \/ ClearTold \/ SwitchEmpty \/ SwitchTold
    \/ ConversationHistory

App == OnPush \/ PollTick \/ OnPollResponse \/ OnLoadResponse

Next == Record \/ Clear \/ SwitchSession \/ Daemon \/ App \/ Fault

\* Handlers run, pushes arrive and the poll timer fires; nobody has to write,
\* clear or switch.
Spec ==
    /\ Init /\ [][Next]_vars
    /\ WF_vars(\E m \in unsent : Broadcast(m))
    /\ WF_vars(ClearTold \/ SwitchEmpty \/ SwitchTold)
    /\ WF_vars(ConversationHistory)
    /\ WF_vars(OnPush) /\ WF_vars(PollTick) /\ WF_vars(OnPollResponse) /\ WF_vars(OnLoadResponse)

-----------------------------------------------------------------------------
(* Properties.                                                               *)

Requests == [pc : {"off", "asked", "read", "answered"}, cursor : 0..MaxEvents,
             expected : 0..MaxSessions, events : SUBSET [seq : 1..MaxEvents, id : 1..MaxEvents],
             lastSeq : 0..MaxEvents, sess : 0..MaxSessions]

TypeOK ==
    /\ Len(log) <= spent.events
    /\ sess \in 1..MaxSessions /\ live \in 1..MaxSessions
    /\ phase \in {"none", "clearing", "updated", "emptied"}
    /\ poll \in Requests /\ load \in Requests
    /\ events \in SUBSET [seq : 1..MaxEvents, id : 1..MaxEvents]
    /\ \A e, f \in events : e.seq = f.seq => e = f
    /\ lastSeq \in 0..MaxEvents /\ initial \in BOOLEAN

Conversation == LatestEvents

\* A conversation that was never emptied shows no event that is not its own,
\* each under its own number, however pushes, polls and loads overlap, and two
\* events it shows never have one number.  (After a clear an event that was recorded before it may still be pushed.)
NothingForeign ==
    /\ TypeOK
    /\ spent.clears = 0 /\ sess = 1 => events \subseteq Conversation

\* When the conversation stops changing, the cursor comes to rest at its last
\* event, on a screen that is not left loading: the polls repair a cursor left
\* too low by a lost push, and the regression check one left too high by a push
\* or a response that outlived a clear.
CursorCatchesUp == []<>~initial => <>[](lastSeq = Len(log))

\* A screen whose load is in flight does not load for ever, also when the load
\* fails or a regression starts another one, unless the agent's session
\* switches meanwhile: _loadHistory then returns and leaves _initialLoading set.
LoadingEnds ==
    \A s \in 1..MaxSessions :
        (initial /\ load.pc # "off" /\ live = s /\ sess = s) ~> (~initial \/ sess # s)
=============================================================================

----------------------------- MODULE Rebinding -----------------------------
(***************************************************************************)
(* One attached Claude agent whose process goes from session to session.   *)
(* Two goroutines follow it: the agent's ClaudeWatcher (watcher/claude.go),*)
(* whose poll finds the new transcript and calls OnSessionSwitch, and      *)
(* Attach (agent/manager.go), which rebinds the agent and gives it another *)
(* watcher.  Stop only closes a channel, which the loop looks at between   *)
(* two polls: until then a watcher that was stopped goes on recording, and *)
(* switching.  The registry, and calls of Attach that overlap, are         *)
(* AttachRegistry's; how a line is recorded, and crashes, Conversation's.  *)
(***************************************************************************)
EXTENDS Naturals

CONSTANTS
    Sessions,       \* conversations the process may be in
    First,          \* the one it is in when the agent is attached
    NumWatchers,    \* bound on the watchers of the agent whose loops run
    MaxLines,       \* bound on the lines of a transcript
    MaxMoves,       \* bound on the process's changes of session
    MaxAttaches     \* bound on the calls of Attach

Watchers == 1..NumWatchers
Lines    == Sessions \X (1..MaxLines)

ASSUME RebindingAssumption ==
    /\ {NumWatchers, MaxLines, MaxMoves, MaxAttaches} \subseteq Nat
    /\ NumWatchers > 0 /\ First \in Sessions

VARIABLES
    session,    \* the session the process is in
    lines,      \* the length of each session's transcript
    watcher,    \* every ClaudeWatcher whose loop runs
    current,    \* ag.w, 0 for none
    row,        \* the agent's stored session
    conv,       \* the lines stored as the agent's conversation
    attach,     \* the call of Attach
    missed,     \* lines written between Attach's reading a transcript and its watching it
    crossed,    \* since the last wipe, a watcher has done something after it was stopped, or
                \* Attach and a switch have come between each other's steps
    moves, attaches

vars == <<session, lines, watcher, current, row, conv, attach, missed, crossed, moves, attaches>>
outside == <<session, lines, moves>>
calling == <<current, attach, missed, attaches>>

\* at: how far the poll under way has read; fresh: it has recorded nothing; first: it is
\* the one in Start.
Off    == [pc |-> "off", path |-> First, offset |-> 0, at |-> 0,
           fresh |-> TRUE, first |-> FALSE, stopped |-> FALSE]
NoCall == [pc |-> "idle", to |-> First, w |-> 0, read |-> 0, added |-> 0]

File(s, from, to) == {s} \X (from..to)

\* An agent that was attached before anything was said.
Init ==
    /\ session = First /\ row = First
    /\ lines = [s \in Sessions |-> 0]
    /\ watcher = [w \in Watchers |-> IF w = 1 THEN [Off EXCEPT !.pc = "wait"] ELSE Off]
    /\ current = 1
    /\ conv = {} /\ missed = {} /\ crossed = FALSE
    /\ attach = NoCall
    /\ moves = 0 /\ attaches = 0

-----------------------------------------------------------------------------
(* The process (external).                                                   *)

WriteLine ==
    /\ lines[session] < MaxLines
    /\ lines' = [lines EXCEPT ![session] = @ + 1]
    /\ UNCHANGED <<session, watcher, current, row, conv, attach, missed, crossed, moves, attaches>>

\* /clear, or --resume.
Move(s) ==
    /\ s # session /\ moves < MaxMoves
    /\ session' = s /\ moves' = moves + 1
    /\ UNCHANGED <<lines, watcher, current, row, conv, attach, missed, crossed, attaches>>

-----------------------------------------------------------------------------
(* A watcher.  None of its steps but LoopEnds looks whether it was stopped.  *)

Switching(v)   == v.pc \in {"row", "wipe"}
At(w, l)       == watcher[w].pc = l
\* A switch wipes what was crossed, unless the row is not the watcher's, or Attach has looked.
Mends(w)       == crossed' = (watcher[w].stopped \/ (crossed /\ (row # watcher[w].path \/ attach.pc = "restart")))
Goes(w, l)     == watcher' = [watcher EXCEPT ![w].pc = l]

\* The ticker; select takes either channel when both are ready.
Poll(w) ==
    /\ At(w, "wait")
    /\ watcher' = [watcher EXCEPT ![w].pc = "read", ![w].at = watcher[w].offset, ![w].fresh = TRUE]
    /\ UNCHANGED <<outside, calling, row, conv, crossed>>

ReadLine(w) ==
    /\ At(w, "read") /\ watcher[w].at < lines[watcher[w].path]
    /\ conv' = conv \cup {<<watcher[w].path, watcher[w].at + 1>>}
    /\ watcher' = [watcher EXCEPT ![w].at = @ + 1, ![w].fresh = FALSE]
    /\ crossed' = (crossed \/ watcher[w].stopped)
    /\ UNCHANGED <<outside, calling, row>>

\* A poll that met no line, and that is not the one in Start, looks where the process is.
PollEnds(w) ==
    /\ At(w, "read") /\ watcher[w].at = lines[watcher[w].path]
    /\ watcher' = [watcher EXCEPT ![w].offset = watcher[w].at,
                                  ![w].pc = IF watcher[w].fresh /\ ~watcher[w].first THEN "look" ELSE "wait",
                                  ![w].first = FALSE]
    /\ UNCHANGED <<outside, calling, row, conv, crossed>>

\* Mutant: the transcript is taken up at its end.
RefreshAtEnd(w) ==
    /\ At(w, "look")
    /\ \/ Goes(w, "wait")
       \/ /\ watcher[w].path # session
          /\ watcher' = [watcher EXCEPT ![w].path = session, ![w].offset = lines[session], ![w].pc = "row"]
    /\ UNCHANGED <<outside, calling, row, conv, crossed>>

\* refreshSessionFile, and switchToFile, whose first step ends before the callback.
\* Either may decline, by its rate limit or its cooldown.
RefreshSessionFile(w) ==
    /\ At(w, "look")
    /\ \/ Goes(w, "wait")
       \/ /\ watcher[w].path # session
          /\ watcher' = [watcher EXCEPT ![w].path = session, ![w].offset = 0, ![w].pc = "row"]
    /\ UNCHANGED <<outside, calling, row, conv, crossed>>

\* OnSessionSwitch: the row, then the buffer and the stored conversation.
SwitchRow(w) ==
    /\ At(w, "row")
    /\ row' = watcher[w].path
    /\ Goes(w, "wipe")
    /\ crossed' = (crossed \/ watcher[w].stopped \/ attach.pc = "restart")
    /\ UNCHANGED <<outside, calling, conv>>

\* Mutant: ClearPersistedEvents is not in the policy.
SwitchKeeps(w) ==
    /\ At(w, "wipe")
    /\ Mends(w)
    /\ Goes(w, "wait")
    /\ UNCHANGED <<outside, calling, row, conv>>

SwitchWipe(w) ==
    /\ At(w, "wipe")
    /\ conv' = {}
    /\ Mends(w)
    /\ Goes(w, "wait")
    /\ UNCHANGED <<outside, calling, row>>

LoopEnds(w) ==
    /\ At(w, "wait") /\ watcher[w].stopped
    /\ watcher' = [watcher EXCEPT ![w] = Off]
    /\ UNCHANGED <<outside, calling, row, conv, crossed>>

-----------------------------------------------------------------------------
(* Attach, of a process whose agent is in the registry.  Bound: one call at a *)
(* time.                                                                      *)

Calls(l) == attach' = [attach EXCEPT !.pc = l]
\* Stop of the agent's watcher, if it has one, and setWatcher(nil).
Stopped  == /\ watcher' = [w \in Watchers |-> [watcher[w] EXCEPT !.stopped = @ \/ w = current]]
            /\ current' = 0
            /\ crossed' = (crossed \/ (current # 0 /\ Switching(watcher[current])))

\* The process's transcript is found.
AttachBegins ==
    /\ attach.pc = "idle" /\ attaches < MaxAttaches
    /\ attaches' = attaches + 1
    /\ attach' = [NoCall EXCEPT !.pc = "compare", !.to = session]
    /\ UNCHANGED <<outside, watcher, current, row, conv, missed, crossed>>

Compare ==
    /\ attach.pc = "compare"
    /\ Calls(IF row = attach.to THEN "restart" ELSE "rebind")
    /\ UNCHANGED <<outside, watcher, current, row, conv, missed, crossed, attaches>>

\* rebindAttachedSession.
RebindStop ==
    /\ attach.pc = "rebind"
    /\ Stopped /\ Calls("wipe")
    /\ UNCHANGED <<outside, row, conv, missed, attaches>>

RebindWipe ==
    /\ attach.pc = "wipe"
    /\ conv' = {} /\ crossed' = FALSE
    /\ Calls("row")
    /\ UNCHANGED <<outside, watcher, current, row, missed, attaches>>

RebindRow ==
    /\ attach.pc = "row"
    /\ row' = attach.to
    /\ Calls("restart")
    /\ UNCHANGED <<outside, watcher, current, conv, missed, crossed, attaches>>

Restart ==
    /\ attach.pc = "restart"
    /\ Stopped /\ Calls("load")
    /\ UNCHANGED <<outside, row, conv, missed, attaches>>

\* LoadClaudeJSONLHistory reads the transcript; then its lines are appended.
LoadHistory ==
    /\ attach.pc = "load"
    /\ attach' = [attach EXCEPT !.pc = "append", !.read = lines[attach.to]]
    /\ UNCHANGED <<outside, watcher, current, row, conv, missed, crossed, attaches>>

AppendHistory ==
    /\ attach.pc = "append" /\ attach.added < attach.read
    /\ conv' = conv \cup {<<attach.to, attach.added + 1>>}
    /\ attach' = [attach EXCEPT !.added = @ + 1]
    /\ UNCHANGED <<outside, watcher, current, row, missed, crossed, attaches>>

\* Start of a watcher that skips what the transcript holds: its first poll begins.
StartWatcher ==
    /\ attach.pc = "append" /\ attach.added = attach.read
    /\ \E w \in Watchers :
          /\ At(w, "off") /\ \A v \in 1..(w - 1) : ~At(v, "off")
          /\ watcher' = [watcher EXCEPT ![w] = [Off EXCEPT !.pc = "read", !.path = attach.to, !.first = TRUE,
                                                           !.offset = lines[attach.to], !.at = lines[attach.to]]]
          /\ attach' = [attach EXCEPT !.pc = "start", !.w = w]
    /\ missed' = missed \cup File(attach.to, attach.read + 1, lines[attach.to])
    /\ UNCHANGED <<outside, current, row, conv, crossed, attaches>>

\* Start returns, and the agent gets the watcher.
SetWatcher ==
    /\ attach.pc = "start" /\ ~watcher[attach.w].first
    /\ current' = attach.w
    /\ attach' = NoCall
    /\ UNCHANGED <<outside, watcher, row, conv, missed, crossed, attaches>>

Attach == \/ AttachBegins \/ Compare \/ RebindStop \/ RebindWipe \/ RebindRow \/ Restart
          \/ LoadHistory \/ AppendHistory \/ StartWatcher \/ SetWatcher

Watch(w) == \/ Poll(w) \/ ReadLine(w) \/ PollEnds(w) \/ RefreshSessionFile(w)
            \/ SwitchRow(w) \/ SwitchWipe(w) \/ LoopEnds(w)

Next == WriteLine \/ (\E s \in Sessions : Move(s)) \/ Attach \/ \E w \in Watchers : Watch(w)

Spec == Init /\ [][Next]_vars

-----------------------------------------------------------------------------
(* Properties.                                                               *)

TypeOK ==
    /\ session \in Sessions /\ row \in Sessions
    /\ lines \in [Sessions -> 0..MaxLines]
    /\ conv \subseteq Lines /\ missed \subseteq Lines
    /\ current \in Watchers \cup {0} /\ crossed \in BOOLEAN

\* No call of Attach is under way, and the agent's watcher is not switching.
AtRest == attach.pc = "idle" /\ ~Switching(watcher[current])

\* Attach and the watcher's own switch, whichever comes first or gets between the other's
\* steps, leave the agent with one session: the row's, its watcher's, and that of every
\* line of its conversation.  Not so if, since the conversation was wiped, a watcher has done
\* something after it was stopped, or was stopped in the middle of a switch, or has switched
\* between Attach's look at the row and its stopping the watcher; the next wipe mends it.
OneConversation ==
    TypeOK /\ (AtRest /\ ~crossed =>
                  /\ row = watcher[current].path
                  /\ \A l \in conv : l[1] = row)

\* Then every line that the agent's watcher has passed is in the conversation, whatever was
\* wiped and loaded meanwhile, but those that came while Attach had read the transcript and
\* did not watch it yet: the new watcher starts at the end.
NothingLost ==
    AtRest /\ ~crossed =>
        LET w == watcher[current]
        IN File(w.path, 1, IF w.pc = "read" THEN w.at ELSE w.offset) \subseteq conv \cup missed
=============================================================================

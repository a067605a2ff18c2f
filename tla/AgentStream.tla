---------------------------- MODULE AgentStream ----------------------------
(***************************************************************************)
(* agentd/internal/agent and ws: a Claude agent in -p mode as its apps see *)
(* it.  Each message gets a process of its own, whose output a reader      *)
(* goroutine takes line by line: the lines set the agent's status and add  *)
(* permission requests, handlers of several connections send, answer and   *)
(* stop beside it, and each change of status is broadcast from a goroutine *)
(* of its own.  Lines are written and read by kind; what they say is the   *)
(* Conversation module's matter, so the events they append are left out.   *)
(***************************************************************************)
EXTENDS Naturals, Sequences, SequencesExt

CONSTANTS
    Clients,    \* WebSocket connections; each handles one request at a time
    Senders,    \* those among them that send messages
    MaxProcs,   \* bound on the processes ever spawned
    MaxLines,   \* bound on the lines the processes write
    MaxStops,   \* bound on the agent.stop requests
    MaxInFlight \* bound on the notifications in flight: a status write waits for room

ASSUME SendersAssumption == Senders \subseteq Clients
ASSUME BoundsAssumption  == MaxProcs \in Nat \ {0} /\ {MaxLines, MaxStops, MaxInFlight} \subseteq Nat

VARIABLES
    status,     \* ag.status
    process,    \* ag.process, 0 for nil
    child,      \* what the operating system knows of each process
    lines,      \* how many lines they may still write
    out,        \* what its pipe holds: the effects of the lines not yet read
    reader,     \* readPipeOutputAndWait of each process, and the chunk it handles
    pending,    \* PermissionManager.pendingRequests, named by the process that asked
    announced,  \* the requests an app has been shown
    taken,      \* how many answers HandleResponse accepted for each request
    call,       \* the request each client's handler is executing
    inflight,   \* the status notifications not yet delivered, oldest first
    shown,      \* the status the apps show
    overtaken,  \* what they show was issued before something they have shown
    stops,      \* the agent.stop requests so far
    late        \* the status was written for a process that is not the agent's

vars == <<status, process, child, lines, out, reader, pending, announced, taken, call,
          inflight, shown, overtaken, stops, late>>
agentVars == <<status, inflight, stops, late>>
pipeVars  == <<child, lines, out>>
permVars  == <<pending, announced, taken>>
appVars   == <<shown, overtaken>>

Procs == 1..MaxProcs
None  == 0

Status  == {"starting", "idle", "working", "stopped", "crashed"}
Effects == {"working", "idle", "ask", "announce"}

\* What handleStreamJSONEvent does for a line of each kind, in its order.
\* A user's line that is empty or repeats the last event is skipped; init and
\* permission_prompt, whose effects nothing here reads, are left out.
Said      == [assistant |-> <<"working">>, user |-> <<"idle">>, user_repeated |-> <<>>]
Tools     == [tool_use |-> <<"working">>, tool_result |-> <<>>, content_block_start |-> <<"working">>]
Result    == [result |-> <<"idle">>]
Streaming == [message_start |-> <<"working">>, content_block_delta |-> <<>>, message_stop |-> <<"idle">>]
ControlToldFirst == [control_request |-> <<"announce", "ask">>]    \* mutated form of the next
Control   == [control_request |-> <<"ask", "announce">>]
Handled ==
    [k \in DOMAIN Said \cup DOMAIN Tools \cup DOMAIN Result \cup DOMAIN Streaming \cup DOMAIN Control |->
        CASE k \in DOMAIN Said -> Said[k]
          [] k \in DOMAIN Tools -> Tools[k]
          [] k \in DOMAIN Result -> Result[k]
          [] k \in DOMAIN Streaming -> Streaming[k]
          [] k \in DOMAIN Control -> Control[k]]

Ready == [op |-> "none", pc |-> "ready", p |-> None]
Ops   == {"none", "stop", "restart", "start"}
PCs   == {"ready", "stopped", "reread", "wait", "spawn", "write", "set", "idle", "input", "working"}
RPCs  == {"none", "read", "check", "unset", "settle", "keep", "done"}

Init ==
    /\ status = "idle" /\ shown = "idle" /\ process = None
    /\ child = [p \in Procs |-> "unborn"]
    /\ lines = MaxLines
    /\ out = [p \in Procs |-> <<>>]
    /\ reader = [p \in Procs |-> [pc |-> "none", todo |-> <<>>]]
    /\ pending = {} /\ announced = {}
    /\ taken = [p \in Procs |-> 0]
    /\ call = [c \in Clients |-> Ready]
    /\ inflight = <<>> /\ overtaken = FALSE /\ stops = 0 /\ late = FALSE

-----------------------------------------------------------------------------
(* Status and its notifications: setStatus, wireStatusCallback.              *)

Issue(s) == [status |-> s, old |-> FALSE]
\* The change is compared with the status that was shown, not with the one it replaces.
ChangedShown(s) == IF s = shown THEN inflight ELSE Append(inflight, Issue(s))

Changed(s) == IF s = status THEN inflight ELSE Append(inflight, Issue(s))

\* setStatus(s), by a goroutine that works for process p.
SetStatus(s, p) ==
    /\ Len(inflight) < MaxInFlight
    /\ status' = s
    /\ inflight' = Changed(s)
    /\ late' = (s = "working" /\ p # process)
    /\ stops' = stops

\* The goroutine of one notification runs: any of them may be first.
Deliver(i) ==
    /\ shown' = inflight[i].status
    /\ overtaken' = inflight[i].old
    /\ inflight' = RemoveAt([k \in DOMAIN inflight |->
                               IF k < i THEN [inflight[k] EXCEPT !.old = TRUE] ELSE inflight[k]], i)
    /\ UNCHANGED <<status, late, stops, process, pipeVars, reader, permVars, call>>

-----------------------------------------------------------------------------
(* The process (external) and the reader of its pipe.                        *)

Asked(p) == \/ p \in pending \/ taken[p] > 0
            \/ "ask" \in ToSet(out[p]) \cup ToSet(reader[p].todo)

Emit(p) ==
    /\ child[p] = "alive" /\ lines > 0
    /\ \E k \in DOMAIN Handled :
         /\ k = "control_request" => ~Asked(p)
         /\ out' = [out EXCEPT ![p] = @ \o Handled[k]]
    /\ lines' = lines - 1
    /\ UNCHANGED <<agentVars, appVars, process, child, reader, permVars, call>>

Exit(p) ==
    /\ child[p] = "alive"
    /\ child' = [child EXCEPT ![p] = "dead"]
    /\ UNCHANGED <<agentVars, appVars, process, lines, out, reader, permVars, call>>

\* p.Kill() closes the pipe as well: what the reader has not yet taken is lost.
Killed(p) ==
    /\ child' = [q \in Procs |-> IF q = p /\ child[q] = "alive" THEN "dead" ELSE child[q]]
    /\ out' = [q \in Procs |-> IF q = p THEN <<>> ELSE out[q]]
    /\ lines' = lines

ReaderAt(p, l) == reader' = [reader EXCEPT ![p] = [pc |-> l, todo |-> <<>>]]

\* p.Read takes what the pipe holds, or finds it at its end and p.Wait returns.
Read(p) ==
    /\ reader[p].pc = "read" /\ reader[p].todo = <<>>
    /\ IF out[p] # <<>>
       THEN reader' = [reader EXCEPT ![p].todo = out[p]]
       ELSE child[p] # "alive" /\ ReaderAt(p, "check")
    /\ out' = [out EXCEPT ![p] = <<>>]
    /\ UNCHANGED <<agentVars, appVars, process, child, lines, permVars, call>>

AddRequest(p)   == pending' = pending \cup {p} /\ UNCHANGED <<announced, taken>>
Announce(p)     == announced' = announced \cup {p} /\ UNCHANGED <<pending, taken>>

Apply(p, e) ==
    CASE e \in {"working", "idle"} -> SetStatus(e, p) /\ UNCHANGED permVars
      [] e = "ask" -> AddRequest(p) /\ UNCHANGED agentVars
      [] e = "announce" -> Announce(p) /\ UNCHANGED agentVars

Handle(p) ==
    /\ reader[p].todo # <<>>
    /\ Apply(p, Head(reader[p].todo))
    /\ reader' = [reader EXCEPT ![p].todo = Tail(@)]
    /\ UNCHANGED <<appVars, process, pipeVars, call>>

\* The deferred function: if ag.Process() == p, ag.setProcess(nil) and, unless
\* the agent was stopped or crashed, ag.setStatus(StatusIdle).
Check(p) ==
    /\ reader[p].pc = "check"
    /\ ReaderAt(p, IF process = p THEN "unset" ELSE "done")
    /\ UNCHANGED <<agentVars, appVars, process, pipeVars, permVars, call>>

\* A process set since the check is forgotten.
Unset(p) ==
    /\ reader[p].pc = "unset"
    /\ process' = None
    /\ late' = (late \/ (status = "working" /\ process # p))
    /\ ReaderAt(p, "settle")
    /\ UNCHANGED <<status, inflight, stops, appVars, pipeVars, permVars, call>>

Settle(p) ==
    /\ reader[p].pc = "settle"
    /\ ReaderAt(p, IF status \in {"stopped", "crashed"} THEN "done" ELSE "keep")
    /\ UNCHANGED <<agentVars, appVars, process, pipeVars, permVars, call>>

\* The reader leaves the status as its last line set it.
KeepNothing(p) ==
    /\ reader[p].pc = "keep"
    /\ ReaderAt(p, "done")
    /\ UNCHANGED <<agentVars, appVars, process, pipeVars, permVars, call>>

KeepIdle(p) ==
    /\ reader[p].pc = "keep"
    /\ SetStatus("idle", process)
    /\ ReaderAt(p, "done")
    /\ UNCHANGED <<appVars, process, pipeVars, permVars, call>>

-----------------------------------------------------------------------------
(* conversation.send: agentRestartWithMessage when the agent has a process,  *)
(* agentStartWithMessage when it has none.                                   *)

Goto(c, l)     == call' = [call EXCEPT ![c].pc = l]
Holding(c, l, p) == call' = [call EXCEPT ![c] = [@ EXCEPT !.pc = l, !.p = p]]
Enter(c, o, l) == call' = [call EXCEPT ![c] = [op |-> o, pc |-> l, p |-> None]]
Return(c)      == call' = [call EXCEPT ![c] = Ready]
Unborn         == {p \in Procs : child[p] = "unborn"}
Alive(p)       == p # None /\ child[p] = "alive"

Send(c) ==
    /\ c \in Senders /\ call[c].pc = "ready" /\ Unborn # {}
    /\ IF process # None
       THEN Killed(process) /\ Enter(c, "restart", "reread")
       ELSE UNCHANGED pipeVars /\ Enter(c, "start", "wait")
    /\ UNCHANGED <<agentVars, appVars, process, reader, permVars>>

\* RestartInPlace reads ag.Process() again after ag.kill().
Reread(c) ==
    /\ call[c].pc = "reread"
    /\ Holding(c, "wait", process)
    /\ UNCHANGED <<agentVars, appVars, process, pipeVars, reader, permVars>>

Waited(c) ==
    /\ call[c].pc = "wait" /\ ~Alive(call[c].p)
    /\ SetStatus("starting", process)
    /\ Holding(c, "spawn", None)
    /\ UNCHANGED <<appVars, process, pipeVars, reader, permVars>>

\* SpawnPipes; the first message is written before the process is the agent's.
Spawn(c) ==
    /\ call[c].pc = "spawn"
    /\ \/ /\ \E p \in Unborn :
               /\ \A q \in Unborn : p <= q
               /\ child' = [child EXCEPT ![p] = "alive"]
               /\ Holding(c, IF call[c].op = "start" THEN "write" ELSE "set", p)
          /\ UNCHANGED agentVars
       \/ SetStatus("crashed", process) /\ Return(c) /\ UNCHANGED child
    /\ UNCHANGED <<appVars, process, lines, out, reader, permVars>>

WriteFirst(c) ==
    /\ call[c].pc = "write"
    /\ IF Alive(call[c].p)
       THEN Goto(c, "set") /\ UNCHANGED agentVars
       ELSE SetStatus("crashed", process) /\ Return(c)
    /\ UNCHANGED <<appVars, process, pipeVars, reader, permVars>>

SetProcess(c) ==
    /\ call[c].pc = "set"
    /\ process' = call[c].p
    /\ Goto(c, "idle")
    /\ UNCHANGED <<agentVars, appVars, pipeVars, reader, permVars>>

\* ag.setStatus(StatusIdle); go m.readPipeOutputAndWait(...)
SetIdle(c) ==
    /\ call[c].pc = "idle"
    /\ SetStatus("idle", process)
    /\ ReaderAt(call[c].p, "read")
    /\ Goto(c, IF call[c].op = "start" THEN "working" ELSE "input")
    /\ UNCHANGED <<appVars, process, pipeVars, permVars>>

\* agentRestartWithMessage writes to whatever process the agent has by now.
Input(c) ==
    /\ call[c].pc = "input"
    /\ IF Alive(process) THEN Goto(c, "working") ELSE Return(c)
    /\ UNCHANGED <<agentVars, appVars, process, pipeVars, reader, permVars>>

\* ag.SetStatus(StatusWorking), then the same news once more as a broadcast.
SetWorking(c) ==
    /\ call[c].pc = "working" /\ Len(inflight) < MaxInFlight
    /\ status' = "working"
    /\ inflight' = Append(Changed("working"), Issue("working"))
    /\ late' = (process # call[c].p)
    /\ Return(c)
    /\ UNCHANGED <<stops, appVars, process, pipeVars, reader, permVars>>

-----------------------------------------------------------------------------
(* agent.stop, conversation.permission_response, conversation.history.       *)

Stop(c) ==
    /\ call[c].pc = "ready" /\ stops < MaxStops
    /\ stops' = stops + 1
    /\ IF process # None THEN Killed(process) ELSE UNCHANGED pipeVars
    /\ Enter(c, "stop", "stopped")
    /\ UNCHANGED <<status, inflight, late, appVars, process, reader, permVars>>

SetStopped(c) ==
    /\ call[c].pc = "stopped"
    /\ SetStatus("stopped", process)
    /\ Return(c)
    /\ UNCHANGED <<appVars, process, pipeVars, reader, permVars>>

\* conversation.history shows a client the requests that are pending.
History(c) ==
    /\ call[c].pc = "ready" /\ ~(pending \subseteq announced)
    /\ announced' = announced \cup pending
    /\ UNCHANGED <<agentVars, appVars, process, pipeVars, reader, pending, taken, call>>

\* The answer is accepted and the request stays listed.
HandleResponseKept(c, p) ==
    /\ p \in pending
    /\ taken' = [taken EXCEPT ![p] = @ + 1]
    /\ UNCHANGED pending

\* Found and deleted in one critical section, or not found.  What follows only
\* writes to the stdin of the process of the moment and tells the apps.
HandleResponse(c, p) ==
    /\ p \in pending
    /\ pending' = pending \ {p}
    /\ taken' = [taken EXCEPT ![p] = @ + 1]

Answer(c) ==
    /\ call[c].pc = "ready"
    /\ \E p \in announced : HandleResponse(c, p)
    /\ UNCHANGED <<agentVars, appVars, process, pipeVars, reader, announced, call>>

Next ==
    \/ \E i \in DOMAIN inflight : Deliver(i)
    \/ \E p \in Procs : Emit(p) \/ Exit(p) \/ Read(p) \/ Handle(p) \/ Check(p) \/ Unset(p)
                        \/ Settle(p) \/ KeepIdle(p)
    \/ \E c \in Clients : \/ Send(c) \/ Reread(c) \/ Waited(c) \/ Spawn(c) \/ WriteFirst(c)
                          \/ SetProcess(c) \/ SetIdle(c) \/ Input(c) \/ SetWorking(c)
                          \/ Stop(c) \/ SetStopped(c) \/ History(c) \/ Answer(c)

Spec == Init /\ [][Next]_vars

-----------------------------------------------------------------------------
(* Properties.                                                               *)

Typed ==
    /\ status \in Status /\ shown \in Status /\ process \in Procs \cup {None}
    /\ child \in [Procs -> {"unborn", "alive", "dead"}]
    /\ lines \in 0..MaxLines /\ out \in [Procs -> Seq(Effects)]
    /\ reader \in [Procs -> [pc : RPCs, todo : Seq(Effects)]]
    /\ pending \subseteq Procs /\ announced \subseteq Procs /\ taken \in [Procs -> Nat]
    /\ call \in [Clients -> [op : Ops, pc : PCs, p : Procs \cup {None}]]
    /\ inflight \in Seq([status : Status, old : BOOLEAN])
    /\ overtaken \in BOOLEAN /\ stops \in 0..MaxStops /\ late \in BOOLEAN

\* The variables have their types, and a reader has finished reading only once
\* its process is dead: p.Wait comes before the deferred function.
TypeOK ==
    /\ Typed
    /\ \A p \in Procs : reader[p].pc \in {"check", "unset", "settle", "keep", "done"} => ~Alive(p)

\* A permission request is answered at most once, whichever clients press
\* allow or deny and however they interleave (PermissionManager.HandleResponse).
AnsweredOnce == \A p \in Procs : taken[p] <= 1

\* A request an app has been shown can be answered: it is listed until
\* somebody's answer takes it, across restarts and stops of the agent, and a
\* quick answer never comes before the listing (the control_request case).
AskedIsListed == TypeOK /\ \A p \in announced : p \in pending \/ taken[p] > 0

Rest == /\ \A c \in Clients : call[c].pc = "ready"
        /\ \A p \in Procs : reader[p].pc \in {"none", "done"}

\* When every process is done and no request is handled, an agent that still
\* shows as working was marked so too late: by a reader or a sender whose
\* process was no longer the agent's, or because a reader forgot another
\* process than its own.  In every other case the reader leaves it idle
\* (the deferred function of readPipeOutputAndWait).
RestsIdle == Rest /\ status = "working" => late

\* Once everything is delivered the apps show the agent's status, unless what
\* they show last was overtaken by a later change (wireStatusCallback's
\* goroutines and the handlers' own broadcasts).
ToldAtRest == Rest /\ inflight = <<>> /\ ~overtaken => shown = status

=============================================================================

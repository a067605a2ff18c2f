--------------------------- MODULE AgentLifecycle ---------------------------
(***************************************************************************)
(* agentd/internal/agent and ws: the life of one agent's child processes.  *)
(* RPC handlers of different connections run concurrently with each other  *)
(* and with three kinds of goroutine per process: the output reader whose  *)
(* deferred function reaps the process, the goroutine that looks for the   *)
(* session file, and the session watcher it starts.  ag.mu protects each   *)
(* single read or write of the agent's fields and nothing longer, so every *)
(* read and every write is a step of its own.                              *)
(***************************************************************************)
EXTENDS Naturals, FiniteSets

CONSTANTS
    Clients,    \* WebSocket connections; each handles one request at a time
    Users,      \* per provider, the connections that use an agent of that provider
    MaxProcs    \* bound on the number of processes ever spawned

ASSUME MaxProcsAssumption == MaxProcs \in Nat \ {0}

\* "claude" runs on pipes (-p mode), "opencode" and "custom" on a PTY.
Providers == DOMAIN Users
ASSUME UsersAssumption ==
    /\ Users \in [Providers -> SUBSET Clients]
    /\ Providers \subseteq {"claude", "opencode", "custom"}

VARIABLES
    provider,   \* ag.Provider
    registered, \* the agent is in m.agents
    status,     \* ag.status
    process,    \* ag.process, 0 for nil
    watcher,    \* ag.w, named by the process it was started for, 0 for nil
    proc,       \* what the operating system knows of each process
    reader,     \* the output reader goroutine of each process
    seeker,     \* the startSessionWatcher goroutine of each process
    watch,      \* the session watcher object of each process
    call        \* the request each client's handler is executing

lifeVars == <<provider, registered, status, process, watcher, proc, reader, seeker, watch, call>>

Procs == 1..MaxProcs
None  == 0
Pipe  == provider = "claude"

Status == {"created", "starting", "idle", "working", "stopped", "crashed"}

\* op: the request; pc: its next statement; p: the process in its hands.
Ready == [op |-> "none", pc |-> "ready", p |-> None]

Ops == {"none", "stop", "remove", "restart", "restartWithMessage", "startWithMessage"}

PCs == {"ready", "setstopped", "unlist", "reread", "wait", "spawn", "begin", "writefirst",
        "setproc", "setidle", "go", "write", "setworking"}

\* Create has returned: Claude -p starts its first process on the first message,
\* the others have one, with its reader and the search for its session file.
LifeInit ==
    /\ provider \in Providers
    /\ registered = TRUE
    /\ status = "idle"
    /\ process = IF Pipe THEN None ELSE 1
    /\ watcher = None
    /\ proc = [p \in Procs |-> IF p = process THEN "alive" ELSE "unborn"]
    /\ reader = [p \in Procs |-> IF p = process THEN "reading" ELSE "none"]
    /\ seeker = [p \in Procs |-> IF p = process THEN "seeking" ELSE "none"]
    /\ watch = [p \in Procs |-> "none"]
    /\ call = [c \in Clients |-> Ready]

Proceed(c, l)  == call' = [call EXCEPT ![c].pc = l]
Enter(c, o, l) == call' = [call EXCEPT ![c] = [op |-> o, pc |-> l, p |-> None]]
Take(c, l, p) == call' = [call EXCEPT ![c] = [op |-> call[c].op, pc |-> l, p |-> p]]
Return(c)   == call' = [call EXCEPT ![c] = Ready]
Unborn      == {p \in Procs : proc[p] = "unborn"}
Fresh(p)    == p \in Unborn /\ \A q \in Unborn : p <= q
Starting(p) == \E c \in Clients : call[c].p = p /\ call[c].pc \in {"setidle", "go"}

-----------------------------------------------------------------------------
(* Mutated forms.                                                            *)

\* The reader goroutine of a restarted process is forgotten.
GoNoReader(c) ==
    /\ call[c].pc = "go"
    /\ CASE call[c].op = "restart" -> Return(c)
         [] call[c].op = "restartWithMessage" -> Proceed(c, "write")
         [] call[c].op = "startWithMessage" -> Proceed(c, "setworking")
    /\ UNCHANGED <<provider, registered, status, process, watcher, proc, reader, seeker, watch>>

\* The deferred function forgets ag.setProcess(nil).
ReaderClearForgotten(p) ==
    /\ reader[p] = "clear"
    /\ reader' = [reader EXCEPT ![p] = IF Pipe THEN "settle" ELSE "stop"]
    /\ UNCHANGED <<provider, registered, status, process, watcher, proc, seeker, watch, call>>

\* kill stops the watcher and leaves the process running.
KillWatcherOnly ==
    /\ watch' = [w \in Procs |-> IF w = watcher /\ watch[w] = "running" THEN "stopped" ELSE watch[w]]
    /\ proc' = proc

-----------------------------------------------------------------------------
(* kill(): stop the watcher and kill the process the agent refers to.        *)
Kill ==
    /\ watch' = [w \in Procs |-> IF w = watcher /\ watch[w] = "running" THEN "stopped" ELSE watch[w]]
    /\ proc' = [p \in Procs |-> IF p = process /\ proc[p] = "alive" THEN "killed" ELSE proc[p]]

\* A connection that uses this agent sends its next request.
Ask(c) == c \in Users[provider] /\ call[c].pc = "ready" /\ registered

(* agent.stop, and agent.remove, which begins with Stop.                     *)
Stop(c) ==
    /\ Ask(c)
    /\ Kill
    /\ \E o \in {"stop", "remove"} : Enter(c, o, "setstopped")
    /\ UNCHANGED <<provider, registered, status, process, watcher, reader, seeker>>

SetStopped(c) ==
    /\ call[c].pc = "setstopped"
    /\ status' = "stopped"
    /\ IF call[c].op = "remove" THEN Proceed(c, "unlist") ELSE Return(c)
    /\ UNCHANGED <<provider, registered, process, watcher, proc, reader, seeker, watch>>

Unlist(c) ==
    /\ call[c].pc = "unlist"
    /\ registered' = FALSE
    /\ Return(c)
    /\ UNCHANGED <<provider, status, process, watcher, proc, reader, seeker, watch>>

(* RestartInPlace, for agent.restart and, when conversation.send finds a     *)
(* Claude process, for agentRestartWithMessage.                              *)
RestartKill(c) ==
    /\ Ask(c)
    /\ Kill
    /\ \/ Enter(c, "restart", "reread")
       \/ Pipe /\ process # None /\ Enter(c, "restartWithMessage", "reread")
    /\ UNCHANGED <<provider, registered, status, process, watcher, reader, seeker>>

\* ag.Process() is read again: it may by now be another request's process.
RestartReread(c) ==
    /\ call[c].pc = "reread"
    /\ Take(c, "wait", process)
    /\ UNCHANGED <<provider, registered, status, process, watcher, proc, reader, seeker, watch>>

\* p.Wait() returns once that process is dead.
RestartWait(c) ==
    /\ call[c].pc = "wait"
    /\ call[c].p # None => proc[call[c].p] # "alive"
    /\ status' = "starting"
    /\ Take(c, "spawn", None)
    /\ UNCHANGED <<provider, registered, process, watcher, proc, reader, seeker, watch>>

(* agentStartWithMessage: conversation.send found no Claude process.         *)
SendFirst(c) ==
    /\ Ask(c)
    /\ Pipe /\ process = None
    /\ Enter(c, "startWithMessage", "begin")
    /\ UNCHANGED <<provider, registered, status, process, watcher, proc, reader, seeker, watch>>

StartBegin(c) ==
    /\ call[c].pc = "begin"
    /\ IF registered
       THEN status' = "starting" /\ Proceed(c, "spawn")
       ELSE status' = status /\ Return(c)
    /\ UNCHANGED <<provider, registered, process, watcher, proc, reader, seeker, watch>>

Spawn(c, p) ==
    /\ call[c].pc = "spawn"
    /\ Fresh(p)
    /\ proc' = [proc EXCEPT ![p] = "alive"]
    /\ Take(c, IF call[c].op = "startWithMessage" THEN "writefirst" ELSE "setproc", p)
    /\ UNCHANGED <<provider, registered, status, process, watcher, reader, seeker, watch>>

SpawnFailed(c) ==
    /\ call[c].pc = "spawn"
    /\ status' = "crashed"
    /\ Return(c)
    /\ UNCHANGED <<provider, registered, process, watcher, proc, reader, seeker, watch>>

\* The first message is written before the agent refers to the process; when
\* that fails the process is killed.
WriteFirst(c) ==
    /\ call[c].pc = "writefirst"
    /\ \/ /\ Proceed(c, "setproc")
          /\ UNCHANGED <<status, proc>>
       \/ /\ proc' = [proc EXCEPT ![call[c].p] = IF @ = "alive" THEN "killed" ELSE @]
          /\ status' = "crashed"
          /\ Return(c)
    /\ UNCHANGED <<provider, registered, process, watcher, reader, seeker, watch>>

SetProcess(c) ==
    /\ call[c].pc = "setproc"
    /\ process' = call[c].p
    /\ Proceed(c, "setidle")
    /\ UNCHANGED <<provider, registered, status, watcher, proc, reader, seeker, watch>>

SetIdle(c) ==
    /\ call[c].pc = "setidle"
    /\ status' = "idle"
    /\ Proceed(c, "go")
    /\ UNCHANGED <<provider, registered, process, watcher, proc, reader, seeker, watch>>

\* go readPipeOutputAndWait, or go startSessionWatcher and go
\* readPTYForPermissionPrompts.
Go(c) ==
    LET p == call[c].p IN
    /\ call[c].pc = "go"
    /\ reader' = [reader EXCEPT ![p] = "reading"]
    /\ seeker' = IF Pipe THEN seeker ELSE [seeker EXCEPT ![p] = "seeking"]
    /\ CASE call[c].op = "restart" -> Return(c)
         [] call[c].op = "restartWithMessage" -> Proceed(c, "write")
         [] call[c].op = "startWithMessage" -> Proceed(c, "setworking")
    /\ UNCHANGED <<provider, registered, status, process, watcher, proc, watch>>

\* agentRestartWithMessage writes to whatever process the agent refers to
\* now.  A write to a dead process fails or is lost in the pipe.
WriteMessage(c) ==
    /\ call[c].pc = "write"
    /\ \/ /\ registered /\ process # None
          /\ Proceed(c, "setworking")
       \/ /\ registered /\ process # None => proc[process] # "alive"
          /\ Return(c)
    /\ UNCHANGED <<provider, registered, status, process, watcher, proc, reader, seeker, watch>>

SetWorking(c) ==
    /\ call[c].pc = "setworking"
    /\ status' = "working"
    /\ Return(c)
    /\ UNCHANGED <<provider, registered, process, watcher, proc, reader, seeker, watch>>

-----------------------------------------------------------------------------
(* The operating system, and the goroutines of each process.                 *)
Exit(p) ==
    /\ proc[p] = "alive"
    /\ proc' = [proc EXCEPT ![p] = "exited"]
    /\ UNCHANGED <<provider, registered, status, process, watcher, reader, seeker, watch, call>>

\* handleStreamJSONEvent on a line of output.
Output(p) ==
    /\ reader[p] = "reading"
    /\ status' \in {"working", "idle"}
    /\ UNCHANGED <<provider, registered, process, watcher, proc, reader, seeker, watch, call>>

ReaderEOF(p) ==
    /\ reader[p] = "reading" /\ proc[p] # "alive"
    /\ reader' = [reader EXCEPT ![p] = "check"]
    /\ UNCHANGED <<provider, registered, status, process, watcher, proc, seeker, watch, call>>

ReaderCheck(p) ==
    /\ reader[p] = "check"
    /\ reader' = [reader EXCEPT ![p] = IF process = p THEN "clear" ELSE "done"]
    /\ UNCHANGED <<provider, registered, status, process, watcher, proc, seeker, watch, call>>

ReaderClear(p) ==
    /\ reader[p] = "clear"
    /\ process' = None
    /\ reader' = [reader EXCEPT ![p] = IF Pipe THEN "settle" ELSE "stop"]
    /\ UNCHANGED <<provider, registered, status, watcher, proc, seeker, watch, call>>

\* readPipeOutputAndWait keeps stopped and crashed, else goes idle.
ReaderSettle(p) ==
    /\ reader[p] = "settle"
    /\ reader' = [reader EXCEPT ![p] = IF status \in {"stopped", "crashed"} THEN "done" ELSE "idle"]
    /\ UNCHANGED <<provider, registered, status, process, watcher, proc, seeker, watch, call>>

ReaderIdle(p) ==
    /\ reader[p] = "idle"
    /\ status' = "idle"
    /\ reader' = [reader EXCEPT ![p] = "done"]
    /\ UNCHANGED <<provider, registered, process, watcher, proc, seeker, watch, call>>

\* readPTYForPermissionPrompts marks the agent stopped.
ReaderStopped(p) ==
    /\ reader[p] = "stop"
    /\ status' = "stopped"
    /\ reader' = [reader EXCEPT ![p] = "done"]
    /\ UNCHANGED <<provider, registered, process, watcher, proc, seeker, watch, call>>

\* startSessionWatcher: poll for the session file unless the agent is
\* stopped; OpenCode's database is tried first, without that test.
Seek(p) ==
    /\ seeker[p] = "seeking"
    /\ \/ /\ status # "stopped" \/ provider = "opencode"
          /\ seeker' = [seeker EXCEPT ![p] = "found"]
       \/ seeker' = [seeker EXCEPT ![p] = "done"]       \* stopped, or out of retries
    /\ UNCHANGED <<provider, registered, status, process, watcher, proc, reader, watch, call>>

WatchStart(p) ==
    /\ seeker[p] = "found"
    /\ watch' = [watch EXCEPT ![p] = "running"]
    /\ seeker' = [seeker EXCEPT ![p] = "set"]
    /\ UNCHANGED <<provider, registered, status, process, watcher, proc, reader, call>>

SetWatcher(p) ==
    /\ seeker[p] = "set"
    /\ watcher' = p
    /\ seeker' = [seeker EXCEPT ![p] = "done"]
    /\ UNCHANGED <<provider, registered, status, process, proc, reader, watch, call>>

\* makeWatcherCallback moves the status with the session's activity.
WatchEvent(p) ==
    /\ watch[p] = "running"
    /\ status' \in {"working", "idle"}
    /\ UNCHANGED <<provider, registered, process, watcher, proc, reader, seeker, watch, call>>

Request(c) == Stop(c) \/ RestartKill(c) \/ SendFirst(c)

Handler(c) ==
    \/ SetStopped(c) \/ Unlist(c) \/ RestartReread(c) \/ RestartWait(c) \/ StartBegin(c)
    \/ (\E p \in Procs : Spawn(c, p)) \/ SpawnFailed(c) \/ WriteFirst(c)
    \/ SetProcess(c) \/ SetIdle(c) \/ Go(c) \/ WriteMessage(c) \/ SetWorking(c)

Reader(p) ==
    ReaderEOF(p) \/ ReaderCheck(p) \/ ReaderClear(p) \/ ReaderSettle(p)
        \/ ReaderIdle(p) \/ ReaderStopped(p)

LifeNext ==
    \/ \E c \in Clients : Request(c) \/ Handler(c)
    \/ \E p \in Procs :
         \/ Exit(p) \/ Output(p) \/ Reader(p)
         \/ Seek(p) \/ WatchStart(p) \/ SetWatcher(p) \/ WatchEvent(p)

\* Handlers and goroutines run until they block; users, processes and their
\* output owe nothing.
LifeSpec ==
    /\ LifeInit /\ [][LifeNext]_lifeVars
    /\ \A c \in Clients : WF_lifeVars(Handler(c))
    /\ \A p \in Procs : WF_lifeVars(Reader(p))

-----------------------------------------------------------------------------
(* Properties.                                                               *)

LifeTypeOK ==
    /\ provider \in Providers
    /\ registered \in BOOLEAN
    /\ status \in Status
    /\ process \in Procs \cup {None}
    /\ watcher \in Procs \cup {None}
    /\ proc \in [Procs -> {"unborn", "alive", "exited", "killed"}]
    /\ reader \in [Procs -> {"none", "reading", "check", "clear", "settle", "idle", "stop", "done"}]
    /\ seeker \in [Procs -> {"none", "seeking", "found", "set", "done"}]
    /\ watch \in [Procs -> {"none", "running", "stopped"}]
    /\ call \in [Clients -> [op : Ops, pc : PCs, p : Procs \cup {None}]]

\* RestartInPlace leaves ag.process set because "old goroutines check
\* ag.Process() == p in their deferred cleanup": whatever requests and exits
\* overlap, the process the agent refers to always has a reader that has not
\* yet decided to leave it alone, or a handler about to start one.
Reaped ==
    process # None =>
        reader[process] \in {"reading", "check", "clear"} \/ Starting(process)

\* A dead process does not stay the agent's process: sends would be routed to
\* it for ever (decideSendPath tests ag.Process() != nil).
DeadProcessReleased ==
    \A p \in Procs : (process = p /\ proc[p] \in {"exited", "killed"}) ~> (process # p)

\* RestartInPlace kills what the agent refers to, reads ag.Process() again and
\* waits for that: unless another connection stored its own process in between,
\* it never waits for a process that nobody killed, which may live for ever.
WaitsForTheDead ==
    \A c \in Clients :
        Users[provider] = {c} /\ call[c].pc = "wait" /\ call[c].p # None => proc[call[c].p] # "alive"
=============================================================================

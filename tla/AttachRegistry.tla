--------------------------- MODULE AttachRegistry ---------------------------
(***************************************************************************)
(* agentd/internal/agent/manager.go: how agentd finds the AI processes     *)
(* that already run on its machine and turns them into agents.  After a    *)
(* restart LoadFromStore rebuilds the registry from the store; then        *)
(* AutoAttachExisting (once) and PeriodicScanAndAttach (for ever) run      *)
(* concurrently with each other and with the RPC handlers, and all of them *)
(* call Attach.  m.mu protects each look-up and each insertion but not the *)
(* span between them; every critical section is one step here.             *)
(***************************************************************************)
EXTENDS Naturals, FiniteSets

CONSTANTS
    NumPids,        \* processes on the machine
    Worlds,         \* what runs on it when agentd starts: a provider, and the processes
    Sessions,       \* conversations a process may be in
    Clients,        \* connections that send agent.attach, agent.remove, session.attach
    MaxAgents,      \* bound on the agents at a time
    MaxEvents       \* bound on the requests, process exits and session switches,
                    \* and restarts of agentd, together

None    == "none"           \* no session is known
Pids    == 1..NumPids
Agents  == 1..MaxAgents
Maybe   == Sessions \cup {None}
Callers == {"auto", "scan"} \cup Clients

\* A Claude or Codex process is attached by its files, a hermes one only in tmux.  No
\* session is called as what stands here for the lack of one.
ASSUME RegistryAssumption ==
    /\ {NumPids, MaxAgents, MaxEvents} \subseteq Nat
    /\ {None, "absent", "off"} \cap Sessions = {}
    /\ \A w \in Worlds :
          /\ w.provider \in {"claude", "codex", "opencode", "hermes"}
          /\ w.os \in [Pids -> [alive : {TRUE}, session : Maybe, tmux : BOOLEAN]]
          /\ \A p \in Pids : w.os[p].tmux <=> w.provider = "hermes" \/ (w.os[p].tmux /\ w.provider = "opencode")

VARIABLES
    provider,   \* the provider of every process
    os,         \* what /proc and the session files say of each process
    agents,     \* every Agent object: registered or not, and its watcher
    rows,       \* the agents table: the stored session of each agent, or "absent"
    hop,        \* the OnSessionSwitch callback under way.  Bound: one at a time
    mu,         \* who holds m.mu across other calls: "free" or "cleanup"
    call,       \* what each goroutine is doing
    overlap,    \* processes two calls have worked on at the same time
    events      \* requests, exits, switches and restarts so far

vars == <<provider, os, agents, rows, hop, mu, call, overlap, events>>

Jsonl == provider \in {"claude", "codex"}

NoInfo  == [pid |-> 0, session |-> None, tmux |-> FALSE]
Idle    == [pc |-> "idle", todo |-> {}, seen |-> {}, info |-> NoInfo,
            a |-> 0, resume |-> None, display |-> FALSE]

NoHop   == [a |-> 0, to |-> None]

\* watch: the session ag.w watches, None for a watcher without a file, "off" for
\* none; stray: a watcher started for the agent runs that ag.w does not refer to.
\* One that was stopped may finish its poll: what it records then is Rebinding's business.
Unborn  == [pid |-> 0, listed |-> FALSE, watch |-> "off", stray |-> FALSE, tmux |-> FALSE]

Alive(p)    == os[p].alive
Listed      == {a \in Agents : agents[a].listed}
Stored(a)   == rows[a] # "absent"
Session(a)  == IF Stored(a) THEN rows[a] ELSE None

\* One ProcessInfo per live process: its tmux pane, found by its terminal, and its
\* session, which finalizeProcessScan adds.
Pane(p) == os[p].tmux
Info(p) == [pid |-> p, session |-> os[p].session, tmux |-> Pane(p)]
Scanned == {Info(p) : p \in {q \in Pids : Alive(q)}}
First(S) == {i \in S : \A j \in S : i.pid <= j.pid}

\* The processes a call is working on: the one it attaches, and the one of the
\* agent it removes or watches.
Subjects(c) == ({call[c].info.pid} \cup
                (IF call[c].a = 0 THEN {} ELSE {agents[call[c].a].pid})) \ {0}
Works(c, p) == overlap' = overlap \cup {q \in {p} : \E d \in Callers \ {c} : q \in Subjects(d)}

Step(c, l)   == call' = [call EXCEPT ![c].pc = l]
\* Attach or the request has returned: the scanning goroutines take the next process.
Return(c)    == call' = [call EXCEPT ![c] =
                    IF c \in Clients THEN Idle
                    ELSE [Idle EXCEPT !.pc = "next", !.todo = call[c].todo, !.seen = call[c].seen]]

\* Attach begins.  The session is the one the scan reported or, when it reported
\* none, the one FindSessionFile finds now.  validateProcess passes a process that
\* has ended: its missing /proc entry counts as a system without /proc.
Begin(c, i, todo, seen) ==
    LET s == IF i.session = None /\ provider # "hermes" THEN os[i.pid].session ELSE i.session
    IN /\ mu = "free"
       /\ call' = [call EXCEPT ![c] =
                      [Idle EXCEPT !.pc = IF provider = "opencode" /\ s # None THEN "conflict" ELSE "same",
                                   !.info = [i EXCEPT !.session = s], !.todo = todo, !.seen = seen,
                                   !.display = (s = None /\ provider = "claude")]]
       /\ Works(c, i.pid)

\* The identity of an agent that nothing refers to any more is used again here.
Fresh(a) ==
    /\ ~agents[a].listed /\ ~Stored(a)
    /\ agents[a].pid # 0 /\ Alive(agents[a].pid) => agents[a].watch = "off" /\ ~agents[a].stray
    /\ hop.a # a /\ \A c \in Callers : call[c].a # a
Unused == {a \in Agents : Fresh(a) /\ \A b \in Agents : b < a => ~Fresh(b)}

\* w.Start and ag.setWatcher, and w.Stop and ag.setWatcher(nil).
Watching(a, s) == [agents EXCEPT ![a].watch = s, ![a].stray = @ \/ agents[a].watch # "off"]
Unwatched(a)   == [agents EXCEPT ![a].watch = "off"]

\* UpdateResumeSessionID: of an agent that is in the registry, if it has a row.
Resumed(a, s) == rows' = IF agents[a].listed /\ Stored(a) THEN [rows EXCEPT ![a] = s] ELSE rows

Init ==
    /\ \E w \in Worlds : provider = w.provider /\ os = w.os
    /\ agents = [a \in Agents |-> Unborn]
    /\ rows = [a \in Agents |-> "absent"]
    /\ hop = NoHop
    /\ mu = "free"
    /\ call = [c \in Callers |-> IF c = "auto" THEN [Idle EXCEPT !.pc = "boot"] ELSE Idle]
    /\ overlap = {}
    /\ events = 0

-----------------------------------------------------------------------------
(* The environment.                                                          *)
Event == events < MaxEvents /\ events' = events + 1

\* A process ends, or its user moves it to another session (/clear, --resume).
Exit(p) ==
    /\ Alive(p) /\ Event
    /\ os' = [os EXCEPT ![p].alive = FALSE]
    /\ UNCHANGED <<provider, agents, rows, hop, mu, call, overlap>>

Switch(p, s) ==
    /\ Alive(p) /\ os[p].session # s /\ Event
    /\ os' = [os EXCEPT ![p].session = s]
    /\ UNCHANGED <<provider, agents, rows, hop, mu, call, overlap>>

-----------------------------------------------------------------------------
(* The scanning goroutines.                                                  *)

\* AutoAttachExisting reads the sessions already in the store once, at its start;
\* it gives up when the scan fails.
AutoScan ==
    /\ call["auto"].pc = "boot"
    /\ \/ call' = [call EXCEPT !["auto"].pc = "done"]
       \/ call' = [call EXCEPT !["auto"] = [Idle EXCEPT !.pc = "next", !.todo = Scanned,
                                         !.seen = {rows[a] : a \in {b \in Agents : Stored(b)}}]]
    /\ UNCHANGED <<provider, os, agents, rows, hop, mu, overlap, events>>

\* RunPeriodicScanOnce, on every tick.
PeriodicScan ==
    /\ call["scan"].pc = "idle"
    /\ call' = [call EXCEPT !["scan"] = [Idle EXCEPT !.pc = "next", !.todo = Scanned]]
    /\ UNCHANGED <<provider, os, agents, rows, hop, mu, overlap, events>>

\* ClassifyAttachCandidate: a hermes process must be interactive; a Claude
\* process without a session is for display only.
Classify(i) ==
    IF provider = "hermes" THEN (IF i.tmux THEN "auto" ELSE "skip")
    ELSE IF provider = "claude" /\ i.session = None THEN "display" ELSE "auto"

AutoSkips(i) == Classify(i) = "skip" \/ (i.session # None /\ i.session \in call["auto"].seen)

AutoNext ==
    /\ call["auto"].pc = "next" /\ call["auto"].todo # {}
    /\ \E i \in First(call["auto"].todo) :
          IF AutoSkips(i)
          THEN /\ call' = [call EXCEPT !["auto"].todo = @ \ {i}]
               /\ UNCHANGED overlap
          ELSE Begin("auto", i, call["auto"].todo \ {i}, call["auto"].seen \cup ({i.session} \ {None}))
    /\ UNCHANGED <<provider, os, agents, rows, hop, mu, events>>

AutoDone ==
    /\ call["auto"].pc = "next" /\ call["auto"].todo = {}
    /\ call' = [call EXCEPT !["auto"] = [Idle EXCEPT !.pc = "done"]]
    /\ UNCHANGED <<provider, os, agents, rows, hop, mu, overlap, events>>

\* Mutant: no rescue; a process that has an agent is left alone.
PeriodicNextKnown ==
    /\ call["scan"].pc = "next" /\ call["scan"].todo # {} /\ mu = "free"
    /\ \E i \in First(call["scan"].todo) :
          LET new == Classify(i) = "auto" /\ \A a \in Listed : agents[a].pid # i.pid
          IN \/ ~new /\ call' = [call EXCEPT !["scan"].todo = @ \ {i}] /\ UNCHANGED overlap
             \/ new /\ Begin("scan", i, call["scan"].todo \ {i}, {})
    /\ UNCHANGED <<provider, os, agents, rows, hop, mu, events>>

\* A process whose agent has a watcher only gets its attach route refreshed; one
\* without an agent, or whose agent has no watcher (the rescue), is attached.
PeriodicNext ==
    /\ call["scan"].pc = "next" /\ call["scan"].todo # {} /\ mu = "free"
    /\ \E i \in First(call["scan"].todo) :
          LET rest == [call EXCEPT !["scan"].todo = @ \ {i}]
              known == {a \in Listed : agents[a].pid = i.pid}
          IN \/ /\ Classify(i) # "auto"
                /\ call' = rest
                /\ UNCHANGED <<agents, overlap>>
             \/ /\ Classify(i) = "auto"
                /\ \E a \in known : agents[a].watch # "off"
                /\ \E a \in known : agents' = [agents EXCEPT ![a].tmux = i.tmux]
                /\ call' = rest
                /\ UNCHANGED overlap
             \/ /\ Classify(i) = "auto"
                /\ known # {} => \E a \in known : agents[a].watch = "off"
                /\ Begin("scan", i, call["scan"].todo \ {i}, {})
                /\ UNCHANGED agents
    /\ UNCHANGED <<provider, os, rows, hop, mu, events>>

-----------------------------------------------------------------------------
(* CleanupDeadAgents, at the end of every periodic scan: one critical section *)
(* that also starts the watchers of the display-only agents it promotes.      *)
\* Mutant: only agents with a watcher are looked at.
CleanupWatched ==
    /\ call["scan"].pc = "next" /\ call["scan"].todo = {} /\ mu = "free"
    /\ LET dead == {a \in Listed : ~Alive(agents[a].pid) /\ agents[a].watch # "off"}
       IN /\ agents' = [a \in Agents |-> IF a \in dead THEN [agents[a] EXCEPT !.listed = FALSE]
                                         ELSE agents[a]]
          /\ rows' = [a \in Agents |-> IF a \in dead THEN "absent" ELSE rows[a]]
          /\ call' = [call EXCEPT !["scan"] =
                         [Idle EXCEPT !.pc = "promote", !.seen = {Session(a) : a \in dead} \ {None}]]
    /\ mu' = "cleanup"
    /\ UNCHANGED <<provider, os, hop, overlap, events>>

Cleanup ==
    /\ call["scan"].pc = "next" /\ call["scan"].todo = {} /\ mu = "free"
    /\ LET dead == {a \in Listed : ~Alive(agents[a].pid)}
       IN /\ agents' = [a \in Agents |-> IF a \in dead THEN [agents[a] EXCEPT !.listed = FALSE]
                                         ELSE agents[a]]
          /\ rows' = [a \in Agents |-> IF a \in dead THEN "absent" ELSE rows[a]]
          /\ call' = [call EXCEPT !["scan"] =
                         [Idle EXCEPT !.pc = "promote", !.seen = {Session(a) : a \in dead} \ {None}]]
    /\ mu' = "cleanup"
    /\ UNCHANGED <<provider, os, hop, overlap, events>>

Promotable == {a \in Listed : /\ agents[a].watch = "off"
                              /\ Session(a) \in call["scan"].seen
                              /\ Alive(agents[a].pid)}

\* newSessionWatcher calls m.Get for a JSONL provider, which takes m.mu.
Promote(a) ==
    /\ call["scan"].pc = "promote" /\ a \in Promotable
    /\ Jsonl => mu = "free"
    /\ agents' = Watching(a, Session(a))
    /\ Works("scan", agents[a].pid)
    /\ UNCHANGED <<provider, os, rows, hop, mu, call, events>>

CleanupDone ==
    /\ call["scan"].pc = "promote" /\ Promotable = {}
    /\ mu' = "free"
    /\ call' = [call EXCEPT !["scan"] = Idle]
    /\ UNCHANGED <<provider, os, agents, rows, hop, overlap, events>>

-----------------------------------------------------------------------------
(* Attach.                                                                   *)

\* opencode: another process has an agent on this session.  One in tmux wins over
\* one that is not: it evicts the other's agent, or this process is refused.
Conflicts(i) == {a \in Listed : Session(a) = i.session /\ agents[a].pid # i.pid}

Conflict(c) ==
    /\ call[c].pc = "conflict" /\ mu = "free"
    /\ LET i == call[c].info
       IN \/ /\ Conflicts(i) = {}
             /\ Step(c, "same") /\ UNCHANGED overlap
          \/ \E a \in Conflicts(i) :
                \/ /\ i.tmux /\ ~agents[a].tmux
                   /\ call' = [call EXCEPT ![c].pc = "stop", ![c].a = a]
                   /\ Works(c, agents[a].pid)
                \/ ~i.tmux /\ agents[a].tmux /\ Return(c) /\ UNCHANGED overlap
                \/ i.tmux = agents[a].tmux /\ Step(c, "same") /\ UNCHANGED overlap
    /\ UNCHANGED <<provider, os, agents, rows, hop, mu, events>>

\* Remove: Stop, the registry, the row; for the evicted agent or for agent.remove.
RemoveStop(c) ==
    /\ call[c].pc = "stop" /\ mu = "free"
    /\ agents' = Unwatched(call[c].a)
    /\ Step(c, "unlist")
    /\ UNCHANGED <<provider, os, rows, hop, mu, overlap, events>>

RemoveUnlist(c) ==
    /\ call[c].pc = "unlist" /\ mu = "free"
    /\ agents' = [agents EXCEPT ![call[c].a].listed = FALSE]
    /\ Step(c, "delete")
    /\ UNCHANGED <<provider, os, rows, hop, mu, overlap, events>>

RemoveRow(c) ==
    /\ call[c].pc = "delete"
    /\ rows' = [rows EXCEPT ![call[c].a] = "absent"]
    /\ IF call[c].info.pid = 0 THEN Return(c)
       ELSE call' = [call EXCEPT ![c].pc = "same", ![c].a = 0]
    /\ UNCHANGED <<provider, os, agents, hop, mu, overlap, events>>

\* An agent of this very process is reused; its attach route never goes from tmux
\* back to watcher.  Another session than the stored one means a switch.
SameProcess(c) ==
    /\ call[c].pc = "same" /\ mu = "free"
    /\ LET i == call[c].info
           same == {a \in Listed : agents[a].pid = i.pid}
           switched(a) == /\ i.session # None /\ Session(a) # i.session
                          /\ ~(provider = "hermes" /\ Session(a) # None)
       IN \/ /\ same = {}
             /\ Step(c, IF provider = "hermes" \/ i.session = None THEN "insert" ELSE "owners")
             /\ UNCHANGED agents
          \/ \E a \in same :
                /\ agents' = [agents EXCEPT ![a].tmux = @ \/ i.tmux]
                /\ call' = [call EXCEPT ![c].a = a, ![c].pc = IF switched(a) THEN "rebind" ELSE "restart",
                                        ![c].display = (Jsonl /\ i.session = None)]
    /\ UNCHANGED <<provider, os, rows, hop, mu, overlap, events>>

\* rebindAttachedSession: the watcher is told to stop, and then the row is written.
Rebind(c) ==
    /\ call[c].pc = "rebind"
    /\ agents' = Unwatched(call[c].a)
    /\ Step(c, "resume")
    /\ UNCHANGED <<provider, os, rows, hop, mu, overlap, events>>

UpdateResume(c) ==
    /\ call[c].pc = "resume" /\ mu = "free"
    /\ Resumed(call[c].a, call[c].info.session)
    /\ Step(c, "restart")
    /\ UNCHANGED <<provider, os, agents, hop, mu, overlap, events>>

\* Mutant: the watcher the agent has is not stopped.
ReloadHistoryOnly(c) ==
    /\ call[c].pc = "restart"
    /\ Step(c, "watch")
    /\ UNCHANGED <<provider, os, agents, rows, hop, mu, overlap, events>>

\* Any watcher the agent has is told to stop while the history is appended once more.
ReloadHistory(c) ==
    /\ call[c].pc = "restart"
    /\ agents' = Unwatched(call[c].a)
    /\ Step(c, "watch")
    /\ UNCHANGED <<provider, os, rows, hop, mu, overlap, events>>

\* A new agent.  Agents of dead processes on the same session met on the way (in
\* map order) are dropped; a live one makes the new agent display-only.
Owners(c) ==
    /\ call[c].pc = "owners" /\ mu = "free"
    /\ LET owners == Conflicts(call[c].info)
           live == {a \in owners : Alive(agents[a].pid)}
       IN \E dropped \in SUBSET (owners \ live) :
             /\ live = {} => dropped = owners
             /\ agents' = [a \in Agents |-> IF a \in dropped THEN [agents[a] EXCEPT !.listed = FALSE]
                                            ELSE agents[a]]
             /\ rows' = [a \in Agents |-> IF a \in dropped THEN "absent" ELSE rows[a]]
             /\ call' = [call EXCEPT ![c].pc = "insert", ![c].display = @ \/ live # {}]
    /\ UNCHANGED <<provider, os, hop, mu, overlap, events>>

Insert(c) ==
    /\ call[c].pc = "insert" /\ mu = "free"
    /\ \E a \in Unused :
          /\ agents' = [agents EXCEPT ![a] = [Unborn EXCEPT !.pid = call[c].info.pid, !.listed = TRUE,
                                                            !.tmux = call[c].info.tmux]]
          /\ call' = [call EXCEPT ![c].pc = "save", ![c].a = a]
    /\ UNCHANGED <<provider, os, rows, hop, mu, overlap, events>>

\* SaveAgent writes the session into the row.
SaveAgent(c) ==
    /\ call[c].pc = "save"
    /\ rows' = [rows EXCEPT ![call[c].a] = call[c].info.session]
    /\ Step(c, "watch")
    /\ UNCHANGED <<provider, os, agents, hop, mu, overlap, events>>

\* The last step of both paths, unless the agent is for display only.  A hermes
\* agent that is reused keeps the session it has stored.
StartWatcher(c) ==
    /\ call[c].pc = "watch"
    /\ Jsonl => mu = "free"
    /\ LET a == call[c].a
           s == call[c].info.session
       IN agents' = IF call[c].display THEN agents
                    ELSE Watching(a, IF provider = "hermes" /\ Session(a) # None THEN Session(a) ELSE s)
    /\ Return(c)
    /\ UNCHANGED <<provider, os, rows, hop, mu, overlap, events>>

-----------------------------------------------------------------------------
(* Requests.  Bound: they arrive once AutoAttachExisting is over, whose calls   *)
(* of Attach are like theirs.                                                *)

Request(c) == call[c].pc = "idle" /\ call["auto"].pc = "done" /\ Event

\* agent.attach scans and attaches the process the user picked.
AgentAttach(c) ==
    /\ Request(c)
    /\ \E i \in Scanned : Begin(c, i, {}, {})
    /\ UNCHANGED <<provider, os, agents, rows, hop, mu>>

AgentRemove(c) ==
    /\ Request(c)
    /\ \E a \in Listed :
          /\ call' = [call EXCEPT ![c].pc = "stop", ![c].a = a]
          /\ Works(c, agents[a].pid)
    /\ UNCHANGED <<provider, os, agents, rows, hop, mu>>

\* session.attach of an agent without a watcher: StartWatcherForAgent looks for
\* the stored session among the Claude projects and watches what it finds there.
SessionAttach(c) ==
    /\ Request(c) /\ mu = "free"
    /\ \E a \in Listed :
          /\ agents[a].watch = "off" /\ Session(a) # None /\ provider = "claude"
          /\ call' = [call EXCEPT ![c].pc = "follow", ![c].a = a, ![c].resume = Session(a)]
          /\ Works(c, agents[a].pid)
    /\ UNCHANGED <<provider, os, agents, rows, hop, mu>>

StartWatcherForAgent(c) ==
    /\ call[c].pc = "follow"
    /\ agents' = [agents EXCEPT ![call[c].a].watch = call[c].resume]
    /\ Return(c)
    /\ UNCHANGED <<provider, os, rows, hop, mu, overlap, events>>

-----------------------------------------------------------------------------
(* The watchers: a poll finds its process in another session and calls         *)
(* OnSessionSwitch, beside whatever call is at work on the agent.              *)

\* Where a poll finds the process to be: its own session file, or for opencode and
\* hermes the latest session in their database, which may be another process's.
Latest(a) == (IF Jsonl THEN {os[agents[a].pid].session} ELSE {os[p].session : p \in Pids}) \ {None}

\* A hermes watcher without a session takes the latest as its own.
Seed(a) ==
    /\ provider = "hermes" /\ agents[a].watch = None
    /\ \E s \in Latest(a) : agents' = [agents EXCEPT ![a].watch = s]
    /\ UNCHANGED <<provider, os, rows, hop, mu, call, overlap, events>>

\* The callback does nothing for an agent that is not in the registry.  Whose process
\* was active last in a database is an event.  A hermes watcher follows at the end.
\* Bound: a poll under way when its watcher is told to stop has looked by then.
SessionSwitch(a) ==
    /\ hop.a = 0 /\ mu = "free" /\ agents[a].listed
    /\ agents[a].watch \in Sessions
    /\ \E s \in Latest(a) \ {agents[a].watch} :
          /\ agents' = IF provider = "hermes" THEN agents ELSE [agents EXCEPT ![a].watch = s]
          /\ hop' = [a |-> a, to |-> s]
    /\ IF Jsonl THEN UNCHANGED events ELSE Event
    /\ UNCHANGED <<provider, os, rows, mu, call, overlap>>

\* The row is written, also when the watcher was told to stop in between.
SwitchUpdate ==
    /\ hop.a # 0 /\ mu = "free"
    /\ Resumed(hop.a, hop.to)
    /\ agents' = IF provider = "hermes" /\ agents[hop.a].watch # "off"
                 THEN [agents EXCEPT ![hop.a].watch = hop.to] ELSE agents
    /\ hop' = NoHop
    /\ UNCHANGED <<provider, os, mu, call, overlap, events>>

-----------------------------------------------------------------------------
(* A restart: memory is lost, and LoadFromStore runs before anything else.   *)

\* Mutant: every row of a live process is loaded.
LoadableAll(kept) ==
    kept = {a \in Agents : Stored(a) /\ Alive(agents[a].pid)}

\* Rows of dead processes are deleted, and all but one of each process's.
Loadable(kept) ==
    /\ kept \subseteq {a \in Agents : Stored(a) /\ Alive(agents[a].pid)}
    /\ \A p \in Pids : (\E a \in Agents : Stored(a) /\ agents[a].pid = p /\ Alive(p))
                       => \E a \in kept : agents[a].pid = p
    /\ \A a, b \in kept : agents[a].pid = agents[b].pid => a = b

\* What is watched after a restart: the file the process has now, or the session
\* in the row.  Only JSONL and hermes agents get their attach route back.
LoadAgent(a) ==
    [Unborn EXCEPT !.pid = agents[a].pid, !.listed = TRUE,
                   !.tmux = provider # "opencode" /\ os[agents[a].pid].tmux,
                   !.watch = IF ~Jsonl THEN rows[a]
                             ELSE IF os[agents[a].pid].session = None THEN "off"
                             ELSE os[agents[a].pid].session]

LoadFromStore ==
    /\ Event
    /\ \E kept \in SUBSET Agents :
          /\ Loadable(kept)
          /\ rows' = [a \in Agents |-> IF a \in kept THEN rows[a] ELSE "absent"]
          /\ agents' = [a \in Agents |-> IF a \in kept THEN LoadAgent(a)
                                         ELSE [Unborn EXCEPT !.pid = agents[a].pid]]
    /\ mu' = "free"
    /\ call' = [c \in Callers |-> IF c = "auto" THEN [Idle EXCEPT !.pc = "boot"] ELSE Idle]
    /\ overlap' = {} /\ hop' = NoHop
    /\ UNCHANGED <<provider, os>>

-----------------------------------------------------------------------------
Attach(c) ==
    \/ Conflict(c) \/ RemoveStop(c) \/ RemoveUnlist(c) \/ RemoveRow(c)
    \/ SameProcess(c) \/ Rebind(c) \/ UpdateResume(c) \/ ReloadHistory(c)
    \/ Owners(c) \/ Insert(c) \/ SaveAgent(c) \/ StartWatcher(c)

AutoAttachExisting == AutoScan \/ AutoNext \/ AutoDone \/ Attach("auto")
Periodic           == PeriodicScan \/ PeriodicNext \/ Cleanup \/ (\E a \in Agents : Promote(a)) \/ CleanupDone
                      \/ Attach("scan")
Watchers           == SwitchUpdate \/ \E a \in Agents : Seed(a) \/ SessionSwitch(a)
Handler(c)         == Attach(c) \/ StartWatcherForAgent(c)

Next ==
    \/ \E p \in Pids : Exit(p) \/ \E s \in Sessions : Switch(p, s)
    \/ AutoAttachExisting
    \/ Periodic
    \/ Watchers
    \/ \E c \in Clients : Handler(c) \/ AgentAttach(c) \/ AgentRemove(c) \/ SessionAttach(c)
    \/ LoadFromStore

\* Goroutines run and the ticker fires; processes, users and crashes owe nothing.
Spec == /\ Init /\ [][Next]_vars
        /\ WF_vars(AutoAttachExisting) /\ WF_vars(Periodic)
        /\ \A c \in Clients : WF_vars(Handler(c))

-----------------------------------------------------------------------------
(* Properties.                                                               *)

TypeOK ==
    /\ os \in [Pids -> [alive : BOOLEAN, session : Maybe, tmux : BOOLEAN]]
    /\ agents \in [Agents -> [pid : Pids \cup {0}, listed : BOOLEAN,
                             watch : Maybe \cup {"off"}, stray : BOOLEAN, tmux : BOOLEAN]]
    /\ rows \in [Agents -> Maybe \cup {"absent"}]
    /\ hop \in [a : Agents \cup {0}, to : Maybe]
    /\ mu \in {"free", "cleanup"}
    /\ overlap \subseteq Pids

\* A process has one agent, whoever found it first, unless two calls worked on it
\* at the same time.
OneAgentPerProcess ==
    /\ TypeOK
    /\ \A a, b \in Listed : a # b /\ agents[a].pid = agents[b].pid => agents[a].pid \in overlap

\* A watcher that no agent refers to belongs to a process that has ended, or that
\* two calls worked on at the same time.
NoStrayWatcher ==
    \A a \in Agents :
        agents[a].stray \/ (~agents[a].listed /\ agents[a].watch # "off")
        => ~Alive(agents[a].pid) \/ agents[a].pid \in overlap

\* The registry is stuck: promoting a JSONL agent waits for the lock it holds.
Wedged == mu = "cleanup" /\ Jsonl /\ Promotable # {}

\* The agents of a process that has ended go away.
DeadAgentsGo ==
    \A p \in Pids : ~Alive(p) ~> (Wedged \/ \A a \in Listed : agents[a].pid # p)

\* A Claude process in a known session gets an agent with a watcher.
Followed(p) == \E a \in Listed : agents[a].pid = p /\ agents[a].watch # "off"
ClaudeFollowed ==
    provider = "claude" =>
        \A p \in Pids : (Alive(p) /\ os[p].session # None)
                        ~> (Followed(p) \/ ~Alive(p) \/ Wedged)

\* CleanupDeadAgents promotes the display-only agents of a session it freed.
FreedSessionPromoted ==
    \A a \in Agents : (mu = "cleanup" /\ a \in Promotable)
                      ~> (agents[a].watch # "off" \/ (a \in Listed => ~Alive(agents[a].pid)))
=============================================================================

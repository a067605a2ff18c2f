------------------------ MODULE AttachRegistryProofs ------------------------
(***************************************************************************)
(* Whatever the scans, the requests, the exits and the restarts: an agent  *)
(* too many for a process, and a watcher that no agent owns, come only of   *)
(* two calls that worked on one process at the same time.                   *)
(***************************************************************************)
EXTENDS AttachRegistry, FiniteSetTheorems, TLAPS

-----------------------------------------------------------------------------
(* The inductive invariant.                                                  *)

\* Where a call may be: at rest, before it knows an agent of its process, with an agent
\* of the process it attaches, and with an agent it removes or watches.
Resting  == {"idle", "boot", "done", "next", "promote"}
Seeking  == {"conflict", "same", "owners", "insert"}
Holding  == {"rebind", "resume", "restart", "save", "watch"}
Removing == {"stop", "unlist", "delete", "follow"}

ScanSet  == [pid : Pids, session : Maybe, tmux : BOOLEAN]
InfoSet  == [pid : Pids \cup {0}, session : Maybe, tmux : BOOLEAN]
AgentSet == [pid : Pids \cup {0}, listed : BOOLEAN,
             watch : Maybe \cup {"off"}, stray : BOOLEAN, tmux : BOOLEAN]
CallSet  == [pc : Resting \cup Seeking \cup Holding \cup Removing, todo : SUBSET ScanSet,
             seen : SUBSET (Maybe \cup {"absent"}), info : InfoSet, a : Agents \cup {0},
             resume : Maybe, display : BOOLEAN]

Typed == TypeOK /\ call \in [Callers -> CallSet]

\* What a call refers to, wherever it is; and an identity never used is no agent.
Calling ==
    /\ \A c \in Callers :
          /\ call[c].pc \in Resting => call[c].info.pid = 0 /\ call[c].a = 0
          /\ call[c].pc \in Seeking => call[c].info.pid \in Pids /\ call[c].a = 0
          /\ call[c].pc \in Holding => /\ call[c].a \in Agents /\ call[c].info.pid \in Pids
                                       /\ agents[call[c].a].pid = call[c].info.pid
          /\ call[c].pc \in Removing => call[c].a \in Agents /\ agents[call[c].a].pid \in Pids
    /\ \A a \in Agents : agents[a].pid = 0 =>
          ~agents[a].listed /\ ~agents[a].stray /\ agents[a].watch = "off" /\ ~Stored(a)

\* Two calls share only processes that overlap knows of.
Apart == \A c \in Callers : \A d \in Callers \ {c} : Subjects(c) \cap Subjects(d) \subseteq overlap

\* One agent for a process, and none while a call is about to insert one.
Single ==
    /\ \A a, b \in Listed : a # b /\ agents[a].pid = agents[b].pid => agents[a].pid \in overlap
    /\ \A c \in Callers : call[c].pc \in {"owners", "insert"} /\ call[c].info.pid \notin overlap =>
          \A a \in Listed : agents[a].pid # call[c].info.pid

\* What is promised of processes that live and that calls did not share.
Gone(p) == p \in overlap \/ ~Alive(p)

\* A call that has an agent to watch finds it registered, and one that is about to start a
\* watcher, or to drop the agent, finds no watcher.
Tidy ==
    /\ \A a \in Agents :
          agents[a].stray \/ (~agents[a].listed /\ agents[a].watch # "off") => Gone(agents[a].pid)
    /\ \A c \in Callers :
          /\ call[c].pc \in Holding \cup {"follow"} =>
                agents[call[c].a].listed \/ Gone(agents[call[c].a].pid)
          /\ call[c].pc \in {"save", "watch", "unlist"} =>
                agents[call[c].a].watch = "off" \/ Gone(agents[call[c].a].pid)

IInv == Typed /\ Calling /\ Apart /\ Single /\ Tidy

-----------------------------------------------------------------------------
(* The kinds of step, by what they do to the registry and the calls.         *)

\* What agent a is to the invariant stays.
Alike(a) == /\ agents'[a].pid = agents[a].pid /\ agents'[a].listed = agents[a].listed
            /\ (agents'[a].watch = "off") <=> (agents[a].watch = "off")
            /\ agents'[a].stray = agents[a].stray
AllAlike == \A a \in Agents : Alike(a)
AlikeBut(a) == \A b \in Agents \ {a} : Alike(b)

\* Nothing comes back to life, and nothing leaves overlap.
Aging == overlap \subseteq overlap' /\ \A p \in Pids : os'[p].alive => os[p].alive

\* Only call c moves; it comes to rest; it goes on with what it has.
Others(c) == \A d \in Callers \ {c} : call'[d] = call[d]
Rest(c)   == Others(c) /\ call'[c].pc \in Resting /\ call'[c].info.pid = 0 /\ call'[c].a = 0
Turn(c, from, to) == /\ Others(c) /\ call[c].pc = from /\ call'[c].pc = to
                     /\ call'[c].info = call[c].info /\ call'[c].a = call[c].a

\* Process p counts as shared if another call works on it when c begins to.
Marks(c, p) == (\E d \in Callers \ {c} : p \in Subjects(d)) => p \in overlap'

Ages == Aging /\ AllAlike /\ call' = call

Rests(c) == Aging /\ AllAlike /\ Rest(c)

Begins(c) ==
    /\ Aging /\ AllAlike /\ Others(c)
    /\ call'[c].pc \in {"conflict", "same"} /\ call'[c].info.pid \in Pids /\ call'[c].a = 0
    /\ Marks(c, call'[c].info.pid)

Takes(c, a) ==
    /\ Aging /\ AllAlike /\ Others(c)
    /\ agents[a].listed
    /\ call'[c].pc \in {"stop", "follow"} /\ call'[c].info = call[c].info /\ call'[c].a = a
    /\ Marks(c, agents[a].pid)

Releases(c) ==
    /\ Aging /\ AllAlike /\ Others(c)
    /\ call[c].info.pid \in Pids
    /\ call'[c].pc = "same" /\ call'[c].info = call[c].info /\ call'[c].a = 0

Misses(c) ==
    /\ Aging /\ AllAlike /\ Others(c)
    /\ call[c].pc = "same" /\ call'[c].pc \in {"owners", "insert"}
    /\ call'[c].info = call[c].info /\ call'[c].a = 0
    /\ \A a \in Listed : agents[a].pid # call[c].info.pid

Finds(c, a) ==
    /\ Aging /\ AllAlike /\ Others(c)
    /\ agents[a].listed /\ agents[a].pid = call[c].info.pid
    /\ call[c].pc = "same" /\ call'[c].pc \in {"rebind", "restart"}
    /\ call'[c].info = call[c].info /\ call'[c].a = a

Continues(c) ==
    /\ Aging /\ AllAlike
    /\ Turn(c, "resume", "restart") \/ Turn(c, "save", "watch")

Unwatches(c) ==
    /\ Aging /\ AlikeBut(call[c].a)
    /\ Turn(c, "stop", "unlist") \/ Turn(c, "rebind", "resume") \/ Turn(c, "restart", "watch")
    /\ LET a == call[c].a
       IN /\ agents'[a].pid = agents[a].pid /\ agents'[a].listed = agents[a].listed
          /\ agents'[a].stray = agents[a].stray /\ agents'[a].watch = "off"

Unlists(c) ==
    /\ Aging /\ AlikeBut(call[c].a)
    /\ Turn(c, "unlist", "delete")
    /\ LET a == call[c].a
       IN /\ agents'[a].pid = agents[a].pid /\ ~agents'[a].listed
          /\ agents'[a].stray = agents[a].stray /\ agents'[a].watch = agents[a].watch

\* Agents of dead processes leave the registry.
Drops(c) ==
    /\ Aging
    /\ Rest(c) \/ Turn(c, "owners", "insert")
    /\ \A a \in Agents :
          /\ agents'[a].pid = agents[a].pid
          /\ agents'[a].stray = agents[a].stray /\ agents'[a].watch = agents[a].watch
          /\ agents'[a].listed => agents[a].listed
          /\ agents[a].listed /\ ~agents'[a].listed => ~Alive(agents[a].pid)

Promotes(a) ==
    /\ Aging /\ AlikeBut(a)
    /\ call["scan"].pc = "promote" /\ call' = call
    /\ agents'[a].pid = agents[a].pid /\ agents[a].listed /\ agents'[a].listed
    /\ agents'[a].stray = agents[a].stray
    /\ Marks("scan", agents[a].pid)

Inserts(c, a) ==
    /\ Aging /\ AlikeBut(a) /\ Others(c)
    /\ \A d \in Callers : call[d].a # a
    /\ call[c].pc = "insert" /\ call'[c].pc = "save"
    /\ call'[c].info = call[c].info /\ call'[c].a = a
    /\ agents'[a].pid = call[c].info.pid /\ agents'[a].listed
    /\ agents'[a].watch = "off" /\ ~agents'[a].stray

Watches(c) ==
    /\ Aging /\ AlikeBut(call[c].a) /\ Rest(c)
    /\ call[c].pc \in {"watch", "follow"}
    /\ LET a == call[c].a
       IN /\ agents'[a].pid = agents[a].pid /\ agents'[a].listed = agents[a].listed
          /\ agents'[a].stray => agents[a].stray \/ (call[c].pc = "watch" /\ agents[a].watch # "off")

\* After a restart nothing is left of memory but one agent for some live processes.
Restarts ==
    /\ \A c \in Callers : call'[c].pc \in Resting /\ call'[c].info.pid = 0 /\ call'[c].a = 0
    /\ \A a \in Agents : /\ agents'[a].pid = agents[a].pid /\ ~agents'[a].stray
                         /\ agents'[a].listed => agents'[a].pid \in Pids
                         /\ ~agents'[a].listed => agents'[a].watch = "off"
    /\ \A a, b \in Agents :
          agents'[a].listed /\ agents'[b].listed /\ agents'[a].pid = agents'[b].pid => a = b

OneStep ==
    \/ Ages \/ Restarts
    \/ \E c \in Callers :
          \/ Rests(c) \/ Begins(c) \/ Releases(c) \/ Misses(c) \/ Continues(c)
          \/ Unwatches(c) \/ Unlists(c) \/ Drops(c) \/ Watches(c)
          \/ \E a \in Agents : Takes(c, a) \/ Finds(c, a) \/ Inserts(c, a)
    \/ \E a \in Agents : Promotes(a)

-----------------------------------------------------------------------------
(* What the types say, and the operators that move calls and watchers.       *)

\* The parts of the types.
LEMMA Shape ==
  ASSUME Typed
  PROVE  /\ agents \in [Agents -> AgentSet] /\ call \in [Callers -> CallSet]
         /\ rows \in [Agents -> Maybe \cup {"absent"}]
         /\ os \in [Pids -> [alive : BOOLEAN, session : Maybe, tmux : BOOLEAN]]
         /\ overlap \subseteq Pids /\ 0 \notin Agents /\ 0 \notin Pids
         /\ "auto" \in Callers /\ "scan" \in Callers /\ Clients \subseteq Callers
         /\ None \in Maybe /\ Sessions \subseteq Maybe
  BY DEF Typed, TypeOK, AgentSet, Agents, Pids, Callers, Maybe

\* A call at rest is one.
LEMMA IdleIsCall ==
  /\ Idle \in CallSet /\ Idle.pc = "idle" /\ Idle.info = NoInfo /\ Idle.info.pid = 0 /\ Idle.a = 0
  /\ Idle.todo = {} /\ Idle.seen = {} /\ Idle.display = FALSE /\ Idle.resume = None
  BY DEF Idle, NoInfo, CallSet, InfoSet, Resting, Maybe, None

\* What a scan reports is of its type.
LEMMA ScannedType ==
  ASSUME Typed
  PROVE  Scanned \in SUBSET ScanSet
  BY Shape DEF Scanned, Info, Pane, ScanSet

\* Step moves one call.
LEMMA StepCall ==
  ASSUME call \in [Callers -> CallSet], NEW c \in Callers,
         NEW l \in Resting \cup Seeking \cup Holding \cup Removing, Step(c, l)
  PROVE  /\ call' \in [Callers -> CallSet] /\ Others(c)
         /\ call'[c].pc = l /\ call'[c].info = call[c].info /\ call'[c].a = call[c].a
  <1> DEFINE new == [call[c] EXCEPT !.pc = l]
  <1>1. call' = [call EXCEPT ![c] = new]
    BY DEF Step
  <1>2. new \in CallSet /\ new.pc = l /\ new.info = call[c].info /\ new.a = call[c].a
    BY DEF CallSet
  <1> HIDE DEF new
  <1> QED
    BY <1>1, <1>2 DEF Others

\* Return brings one call to rest.
LEMMA ReturnCall ==
  ASSUME call \in [Callers -> CallSet], NEW c \in Callers, Return(c)
  PROVE  call' \in [Callers -> CallSet] /\ Rest(c)
  <1> DEFINE back == [Idle EXCEPT !.pc = "next", !.todo = call[c].todo, !.seen = call[c].seen]
             new == IF c \in Clients THEN Idle ELSE back
  <1>1. call' = [call EXCEPT ![c] = new]
    BY DEF Return
  <1>2. back \in CallSet /\ back.pc = "next" /\ back.info.pid = 0 /\ back.a = 0
    BY IdleIsCall DEF CallSet, Resting
  <1> HIDE DEF back
  <1>3. new \in CallSet /\ new.pc \in Resting /\ new.info.pid = 0 /\ new.a = 0
    BY <1>2, IdleIsCall DEF Resting
  <1> HIDE DEF new
  <1> QED
    BY <1>1, <1>3 DEF Rest, Others

\* Works adds the process to overlap if another call has it, and nothing else.
LEMMA WorksMarks ==
  ASSUME NEW c \in Callers, NEW p \in Pids, overlap \subseteq Pids, Works(c, p)
  PROVE  overlap \subseteq overlap' /\ overlap' \subseteq Pids /\ Marks(c, p)
  BY DEF Works, Marks

\* Begin starts a call of Attach on the process that was scanned.
LEMMA BeginCall ==
  ASSUME Typed, NEW c \in Callers, NEW i \in ScanSet, NEW todo \in SUBSET ScanSet,
         NEW seen \in SUBSET (Maybe \cup {"absent"}), Begin(c, i, todo, seen)
  PROVE  /\ call' \in [Callers -> CallSet] /\ Others(c)
         /\ call'[c].pc \in {"conflict", "same"} /\ call'[c].info.pid = i.pid /\ call'[c].a = 0
         /\ overlap \subseteq overlap' /\ overlap' \subseteq Pids /\ Marks(c, i.pid)
  <1> DEFINE s == IF i.session = None /\ provider # "hermes" THEN os[i.pid].session ELSE i.session
             info == [i EXCEPT !.session = s]
             pc == IF provider = "opencode" /\ s # None THEN "conflict" ELSE "same"
             new == [Idle EXCEPT !.pc = pc, !.info = info, !.todo = todo, !.seen = seen,
                                 !.display = (s = None /\ provider = "claude")]
  <1>1. call' = [call EXCEPT ![c] = new] /\ Works(c, i.pid)
    BY DEF Begin
  <1>2. s \in Maybe
    BY Shape DEF ScanSet
  <1>3. pc \in {"conflict", "same"}
    OBVIOUS
  <1> HIDE DEF s, pc
  <1>4. info \in InfoSet /\ info.pid = i.pid
    BY <1>2 DEF ScanSet, InfoSet
  <1> HIDE DEF info
  <1>5. (s = None /\ provider = "claude") \in BOOLEAN
    OBVIOUS
  <1>6. new \in CallSet /\ new.pc = pc /\ new.info = info /\ new.a = 0
    BY <1>3, <1>4, <1>5, IdleIsCall DEF CallSet, Seeking
  <1> HIDE DEF new
  <1>7. i.pid \in Pids
    BY DEF ScanSet
  <1>8. call' \in [Callers -> CallSet] /\ call'[c] = new /\ Others(c)
    BY <1>1, <1>6, Shape DEF Others
  <1> QED
    BY <1>1, <1>3, <1>4, <1>6, <1>7, <1>8, Shape, WorksMarks

-----------------------------------------------------------------------------
(* Every step is of one of these kinds, and keeps the types.                 *)

\* A step that leaves the agents alone leaves them alike.
LEMMA SameAgents ==
  ASSUME agents' = agents
  PROVE  AllAlike
  BY DEF AllAlike, Alike

\* A step during which nothing happens outside.
LEMMA SameProcesses ==
  ASSUME os' = os, overlap \subseteq overlap'
  PROVE  Aging
  BY DEF Aging

\* A change of one record that stays an agent changes that agent only.
LEMMA OneAgent ==
  ASSUME agents \in [Agents -> AgentSet], NEW a \in Agents, NEW new \in AgentSet,
         agents' = [agents EXCEPT ![a] = new]
  PROVE  agents' \in [Agents -> AgentSet] /\ agents'[a] = new /\ AlikeBut(a)
  BY DEF AlikeBut, Alike

\* A change of one record that stays a call changes that call only.
LEMMA OneCall ==
  ASSUME call \in [Callers -> CallSet], NEW c \in Callers, NEW new \in CallSet,
         call' = [call EXCEPT ![c] = new]
  PROVE  call' \in [Callers -> CallSet] /\ call'[c] = new /\ Others(c)
  BY DEF Others

\* A goroutine that is at rest, and comes to rest without having changed the agents.
LEMMA RestStep ==
  ASSUME Typed, NEW c \in Callers, NEW new \in CallSet,
         call' = [call EXCEPT ![c] = new], new.pc \in Resting, new.info.pid = 0, new.a = 0,
         agents' = agents, os' = os, rows' = rows, hop' = hop,
         mu' \in {"free", "cleanup"}, overlap' = overlap
  PROVE  Typed' /\ Rests(c)
  <1>1. call' \in [Callers -> CallSet] /\ Rest(c)
    BY Shape, OneCall DEF Rest
  <1>2. Typed'
    BY <1>1 DEF Typed, TypeOK
  <1> QED
    BY <1>1, <1>2, SameAgents, SameProcesses DEF Rests

\* The types, from those of the variables that a step changes.
LEMMA Types ==
  ASSUME Typed,
         os' \in [Pids -> [alive : BOOLEAN, session : Maybe, tmux : BOOLEAN]],
         agents' \in [Agents -> AgentSet], rows' \in [Agents -> Maybe \cup {"absent"}],
         hop' \in [a : Agents \cup {0}, to : Maybe], mu' \in {"free", "cleanup"},
         overlap' \subseteq Pids, call' \in [Callers -> CallSet]
  PROVE  Typed'
  BY DEF Typed, TypeOK, AgentSet

\* A process ends.
LEMMA ExitStep ==
  ASSUME Typed, NEW p \in Pids, Exit(p)
  PROVE  Typed' /\ Ages
  <1> DEFINE new == [os[p] EXCEPT !.alive = FALSE]
  <1>1. os' = [os EXCEPT ![p] = new]
    BY DEF Exit
  <1>2. os[p] \in [alive : BOOLEAN, session : Maybe, tmux : BOOLEAN]
    BY Shape
  <1>3. new \in [alive : BOOLEAN, session : Maybe, tmux : BOOLEAN] /\ new.alive = FALSE
    BY <1>2
  <1> HIDE DEF new
  <1>4. /\ os' \in [Pids -> [alive : BOOLEAN, session : Maybe, tmux : BOOLEAN]]
        /\ os'[p] = new /\ \A q \in Pids \ {p} : os'[q] = os[q]
    BY <1>1, <1>3, Shape
  <1>5. Typed'
    BY <1>4 DEF Exit, Typed, TypeOK
  <1> QED
    BY <1>3, <1>4, <1>5, SameAgents DEF Exit, Ages, Aging

\* A process moves to another session.
LEMMA SwitchStep ==
  ASSUME Typed, NEW p \in Pids, NEW s \in Sessions, Switch(p, s)
  PROVE  Typed' /\ Ages
  <1> DEFINE new == [os[p] EXCEPT !.session = s]
  <1>1. os' = [os EXCEPT ![p] = new]
    BY DEF Switch
  <1>2. os[p] \in [alive : BOOLEAN, session : Maybe, tmux : BOOLEAN] /\ s \in Maybe
    BY Shape
  <1>3. new \in [alive : BOOLEAN, session : Maybe, tmux : BOOLEAN] /\ new.alive = os[p].alive
    BY <1>2
  <1> HIDE DEF new
  <1>4. /\ os' \in [Pids -> [alive : BOOLEAN, session : Maybe, tmux : BOOLEAN]]
        /\ os'[p] = new /\ \A q \in Pids \ {p} : os'[q] = os[q]
    BY <1>1, <1>3, Shape
  <1>5. Typed'
    BY <1>4 DEF Switch, Typed, TypeOK
  <1> QED
    BY <1>3, <1>4, <1>5, SameAgents DEF Switch, Ages, Aging

\* AutoAttachExisting begins, or gives up.
LEMMA AutoScanStep ==
  ASSUME Typed, Calling, AutoScan
  PROVE  Typed' /\ Rests("auto")
  <1> DEFINE seen == {rows[a] : a \in {b \in Agents : Stored(b)}}
             over == [call["auto"] EXCEPT !.pc = "done"]
             scan == [Idle EXCEPT !.pc = "next", !.todo = Scanned, !.seen = seen]
  <1>1. call["auto"].pc = "boot" /\ \E new \in {over, scan} : call' = [call EXCEPT !["auto"] = new]
    BY DEF AutoScan
  <1>2. seen \in SUBSET (Maybe \cup {"absent"})
    BY Shape
  <1> HIDE DEF seen
  <1>3. call["auto"] \in CallSet /\ call["auto"].info.pid = 0 /\ call["auto"].a = 0
    BY <1>1, Shape DEF Calling, Resting
  <1>4. over \in CallSet /\ over.pc \in Resting /\ over.info.pid = 0 /\ over.a = 0
    BY <1>3 DEF CallSet, Resting
  <1>5. scan \in CallSet /\ scan.pc \in Resting /\ scan.info.pid = 0 /\ scan.a = 0
    BY <1>2, IdleIsCall, ScannedType DEF CallSet, Resting
  <1> HIDE DEF over, scan
  <1> QED
    BY <1>1, <1>4, <1>5, RestStep, Shape DEF AutoScan, Typed, TypeOK

\* A tick of the scan.
LEMMA PeriodicScanStep ==
  ASSUME Typed, PeriodicScan
  PROVE  Typed' /\ Rests("scan")
  <1> DEFINE new == [Idle EXCEPT !.pc = "next", !.todo = Scanned]
  <1>1. call' = [call EXCEPT !["scan"] = new]
    BY DEF PeriodicScan
  <1>2. new \in CallSet /\ new.pc \in Resting /\ new.info.pid = 0 /\ new.a = 0
    BY IdleIsCall, ScannedType DEF CallSet, Resting
  <1> HIDE DEF new
  <1> QED
    BY <1>1, <1>2, RestStep, Shape DEF PeriodicScan, Typed, TypeOK

\* AutoAttachExisting and CleanupDeadAgents end.
LEMMA DoneStep ==
  ASSUME Typed, AutoDone \/ CleanupDone
  PROVE  Typed' /\ \E c \in Callers : Rests(c)
  <1> DEFINE new == [Idle EXCEPT !.pc = "done"]
  <1>1. new \in CallSet /\ new.pc \in Resting /\ new.info.pid = 0 /\ new.a = 0
    BY IdleIsCall DEF CallSet, Resting
  <1>2. AutoDone => call' = [call EXCEPT !["auto"] = new]
    BY DEF AutoDone
  <1> HIDE DEF new
  <1>3. CASE AutoDone
    BY <1>1, <1>2, <1>3, RestStep, Shape DEF AutoDone, Typed, TypeOK
  <1>4. CASE CleanupDone
    <2>1. Idle.pc \in Resting
      BY IdleIsCall DEF Resting
    <2> QED
      BY <1>4, <2>1, RestStep, IdleIsCall, Shape DEF CleanupDone
  <1> QED
    BY <1>3, <1>4

\* A scanned process is skipped.
LEMMA SkipCall ==
  ASSUME Typed, Calling, NEW c \in Callers, call[c].pc = "next", NEW i,
         call' = [call EXCEPT ![c].todo = @ \ {i}]
  PROVE  call' \in [Callers -> CallSet] /\ Rest(c)
  <1> DEFINE new == [call[c] EXCEPT !.todo = call[c].todo \ {i}]
  <1>1. call' = [call EXCEPT ![c] = new]
    OBVIOUS
  <1>2. call[c] \in CallSet /\ call[c].info.pid = 0 /\ call[c].a = 0
    BY Shape DEF Calling, Resting
  <1>3. new \in CallSet /\ new.pc = "next" /\ new.info.pid = 0 /\ new.a = 0
    BY <1>2 DEF CallSet
  <1> HIDE DEF new
  <1> QED
    BY <1>1, <1>3, Shape, OneCall DEF Rest, Resting

\* A scanned process is one of the machine.
LEMMA TodoType ==
  ASSUME Typed, NEW c \in Callers
  PROVE  /\ call[c].todo \in SUBSET ScanSet /\ call[c].seen \in SUBSET (Maybe \cup {"absent"})
         /\ \A i \in First(call[c].todo) : i \in ScanSet /\ i.session \in Maybe /\ i.pid \in Pids
  <1>1. call[c] \in CallSet
    BY Shape
  <1>2. call[c].todo \in SUBSET ScanSet /\ call[c].seen \in SUBSET (Maybe \cup {"absent"})
    BY <1>1 DEF CallSet
  <1> QED
    BY <1>2 DEF First, ScanSet

\* Attach begins with a scanned process.
LEMMA BeginStep ==
  ASSUME Typed, NEW c \in Callers, NEW i \in ScanSet, NEW todo \in SUBSET ScanSet,
         NEW seen \in SUBSET (Maybe \cup {"absent"}), Begin(c, i, todo, seen),
         agents' = agents, os' = os, rows' = rows, hop' = hop, mu' = mu
  PROVE  Typed' /\ Begins(c)
  <1>1. i.pid \in Pids
    BY DEF ScanSet
  <1>2. /\ call' \in [Callers -> CallSet] /\ Others(c)
        /\ call'[c].pc \in {"conflict", "same"} /\ call'[c].info.pid = i.pid /\ call'[c].a = 0
        /\ overlap \subseteq overlap' /\ overlap' \subseteq Pids /\ Marks(c, i.pid)
    BY BeginCall
  <1>3. Typed'
    BY <1>2 DEF Typed, TypeOK
  <1> QED
    BY <1>1, <1>2, <1>3, SameAgents, SameProcesses DEF Begins

\* AutoAttachExisting takes its next process.
LEMMA AutoNextStep ==
  ASSUME Typed, Calling, AutoNext
  PROVE  Typed' /\ (Rests("auto") \/ Begins("auto"))
  <1>1. PICK i \in First(call["auto"].todo) :
           IF AutoSkips(i)
           THEN call' = [call EXCEPT !["auto"].todo = @ \ {i}] /\ UNCHANGED overlap
           ELSE Begin("auto", i, call["auto"].todo \ {i}, call["auto"].seen \cup ({i.session} \ {None}))
    BY DEF AutoNext
  <1>2. CASE AutoSkips(i)
    <2>1. call' \in [Callers -> CallSet] /\ Rest("auto")
      BY <1>1, <1>2, SkipCall, Shape DEF AutoNext
    <2>2. Typed'
      BY <2>1, <1>1, <1>2 DEF AutoNext, Typed, TypeOK
    <2> QED
      BY <1>1, <1>2, <2>1, <2>2, SameAgents, SameProcesses DEF AutoNext, Rests
  <1>3. CASE ~AutoSkips(i)
    <2> DEFINE todo == call["auto"].todo \ {i}
               seen == call["auto"].seen \cup ({i.session} \ {None})
    <2>1. i \in ScanSet /\ todo \in SUBSET ScanSet /\ seen \in SUBSET (Maybe \cup {"absent"})
      BY Shape, TodoType
    <2>2. Begin("auto", i, todo, seen)
      BY <1>1, <1>3
    <2> HIDE DEF todo, seen
    <2> QED
      BY <2>1, <2>2, BeginStep, Shape DEF AutoNext
  <1> QED
    BY <1>2, <1>3

\* The scan takes its next process: skips it, refreshes its agent's route, or attaches it.
LEMMA PeriodicNextStep ==
  ASSUME Typed, Calling, PeriodicNext
  PROVE  Typed' /\ (Rests("scan") \/ Begins("scan"))
  <1>1. PICK i \in First(call["scan"].todo) :
           \/ call' = [call EXCEPT !["scan"].todo = @ \ {i}] /\ UNCHANGED <<agents, overlap>>
           \/ /\ \E a \in Listed : agents' = [agents EXCEPT ![a].tmux = i.tmux]
              /\ call' = [call EXCEPT !["scan"].todo = @ \ {i}] /\ UNCHANGED overlap
           \/ Begin("scan", i, call["scan"].todo \ {i}, {}) /\ UNCHANGED agents
    BY DEF PeriodicNext
  <1>2. i \in ScanSet /\ call["scan"].todo \ {i} \in SUBSET ScanSet /\ {} \in SUBSET (Maybe \cup {"absent"})
    BY Shape, TodoType
  <1>3. CASE call' = [call EXCEPT !["scan"].todo = @ \ {i}] /\ UNCHANGED <<agents, overlap>>
    <2>1. call' \in [Callers -> CallSet] /\ Rest("scan")
      BY <1>3, SkipCall, Shape DEF PeriodicNext
    <2>2. Typed'
      BY <2>1, <1>3 DEF PeriodicNext, Typed, TypeOK
    <2> QED
      BY <1>3, <2>1, <2>2, SameAgents, SameProcesses DEF PeriodicNext, Rests
  <1>4. ASSUME NEW a \in Listed, agents' = [agents EXCEPT ![a].tmux = i.tmux],
               call' = [call EXCEPT !["scan"].todo = @ \ {i}], UNCHANGED overlap
        PROVE  Typed' /\ Rests("scan")
    <2> DEFINE new == [agents[a] EXCEPT !.tmux = i.tmux]
    <2>1. call' \in [Callers -> CallSet] /\ Rest("scan")
      BY <1>4, SkipCall, Shape DEF PeriodicNext
    <2>2. agents' = [agents EXCEPT ![a] = new] /\ a \in Agents /\ agents[a] \in AgentSet
      BY <1>4, Shape DEF Listed
    <2>3. /\ new \in AgentSet /\ new.pid = agents[a].pid /\ new.listed = agents[a].listed
          /\ new.watch = agents[a].watch /\ new.stray = agents[a].stray
      BY <1>2, <2>2 DEF AgentSet, ScanSet
    <2> HIDE DEF new
    <2>4. agents' \in [Agents -> AgentSet] /\ AllAlike
      BY <2>2, <2>3, Shape, OneAgent DEF AllAlike, AlikeBut, Alike
    <2>5. Typed'
      BY <2>1, <2>4, <1>4 DEF PeriodicNext, Typed, TypeOK, AgentSet
    <2> QED
      BY <1>4, <2>1, <2>4, <2>5, SameProcesses DEF PeriodicNext, Rests
  <1>5. CASE Begin("scan", i, call["scan"].todo \ {i}, {}) /\ UNCHANGED agents
    BY <1>2, <1>5, BeginStep, Shape DEF PeriodicNext
  <1> QED
    BY <1>1, <1>3, <1>4, <1>5

\* What is known of an agent that is listed, and of one that a call refers to.
LEMMA Referred ==
  ASSUME Typed, Calling
  PROVE  /\ \A a \in Listed : a \in Agents /\ agents[a].pid \in Pids
         /\ \A c \in Callers :
               /\ call[c].pc \in Holding \cup Removing => call[c].a \in Agents /\ call[c].a # 0
               /\ call[c].info \in InfoSet /\ call[c].info.session \in Maybe
               /\ call[c].info.pid \in Pids \cup {0} /\ call[c].info.tmux \in BOOLEAN
         /\ \A a \in Agents : Session(a) \in Maybe
  <1>1. \A a \in Listed : a \in Agents /\ agents[a].pid \in Pids
    BY Shape DEF Listed, Calling, AgentSet
  <1>2. \A c \in Callers : call[c].pc \in Holding \cup Removing => call[c].a \in Agents
    BY DEF Calling
  <1>3. \A c \in Callers : call[c] \in CallSet
    BY Shape
  <1>4. \A c \in Callers : call[c].info \in InfoSet
    BY <1>3 DEF CallSet
  <1>5. \A c \in Callers : call[c].info.session \in Maybe /\ call[c].info.pid \in Pids \cup {0}
                           /\ call[c].info.tmux \in BOOLEAN
    BY <1>4 DEF InfoSet
  <1>6. \A a \in Agents : Session(a) \in Maybe
    BY Shape DEF Session, Stored
  <1> QED
    BY <1>1, <1>2, <1>4, <1>5, <1>6, Shape

\* The agent of call c is stopped.
LEMMA StoppedAgent ==
  ASSUME Typed, NEW a \in Agents, agents' = Unwatched(a)
  PROVE  /\ agents' \in [Agents -> AgentSet] /\ AlikeBut(a)
         /\ agents'[a].pid = agents[a].pid /\ agents'[a].listed = agents[a].listed
         /\ agents'[a].stray = agents[a].stray /\ agents'[a].watch = "off"
  <1> DEFINE new == [agents[a] EXCEPT !.watch = "off"]
  <1>1. agents' = [agents EXCEPT ![a] = new]
    BY DEF Unwatched
  <1>2. agents[a] \in AgentSet
    BY Shape
  <1>3. /\ new \in AgentSet /\ new.pid = agents[a].pid /\ new.listed = agents[a].listed
        /\ new.stray = agents[a].stray /\ new.watch = "off"
    BY <1>2 DEF AgentSet
  <1> HIDE DEF new
  <1> QED
    BY <1>1, <1>3, Shape, OneAgent

\* A watcher is started for the agent; the one it had, if any, goes astray.
LEMMA WatchedAgent ==
  ASSUME Typed, NEW a \in Agents, NEW s \in Maybe \cup {"off"}, agents' = Watching(a, s)
  PROVE  /\ agents' \in [Agents -> AgentSet] /\ AlikeBut(a)
         /\ agents'[a].pid = agents[a].pid /\ agents'[a].listed = agents[a].listed
         /\ agents'[a].stray <=> agents[a].stray \/ agents[a].watch # "off"
  <1> DEFINE stray == agents[a].stray \/ agents[a].watch # "off"
             new == [agents[a] EXCEPT !.watch = s, !.stray = stray]
  <1>1. agents' = [agents EXCEPT ![a] = new]
    BY Zenon DEF Watching
  <1>2. agents[a] \in AgentSet
    BY Shape
  <1>3. stray \in BOOLEAN
    OBVIOUS
  <1>4. stray <=> agents[a].stray \/ agents[a].watch # "off"
    OBVIOUS
  <1> HIDE DEF stray
  <1>5. /\ new \in AgentSet /\ new.pid = agents[a].pid /\ new.listed = agents[a].listed
        /\ new.stray = stray
    BY <1>2, <1>3 DEF AgentSet
  <1> HIDE DEF new
  <1> QED
    BY <1>1, <1>4, <1>5, Shape, OneAgent

\* opencode: the call goes on, or is refused, or evicts an agent of another process.
LEMMA ConflictStep ==
  ASSUME Typed, Calling, NEW c \in Callers, Conflict(c)
  PROVE  Typed' /\ (Releases(c) \/ Rests(c) \/ \E a \in Agents : Takes(c, a))
  <1>1. call[c].pc = "conflict" /\ call[c].info.pid \in Pids /\ call[c].a = 0
    BY DEF Conflict, Calling, Seeking
  <1>2. ASSUME call' \in [Callers -> CallSet], overlap' \subseteq Pids
        PROVE  Typed'
    BY <1>2 DEF Conflict, Typed, TypeOK
  <1>3. CASE Step(c, "same") /\ UNCHANGED overlap
    <2>1. /\ call' \in [Callers -> CallSet] /\ Others(c)
          /\ call'[c].pc = "same" /\ call'[c].info = call[c].info /\ call'[c].a = call[c].a
      BY <1>3, Shape, StepCall DEF Seeking
    <2> QED
      BY <1>1, <1>2, <1>3, <2>1, Shape, SameAgents, SameProcesses DEF Conflict, Releases
  <1>4. CASE Return(c) /\ UNCHANGED overlap
    <2>1. call' \in [Callers -> CallSet] /\ Rest(c)
      BY <1>4, Shape, ReturnCall
    <2> QED
      BY <1>2, <1>4, <2>1, Shape, SameAgents, SameProcesses DEF Conflict, Rests
  <1>5. ASSUME NEW a \in Listed, call' = [call EXCEPT ![c].pc = "stop", ![c].a = a],
               Works(c, agents[a].pid)
        PROVE  Typed' /\ Takes(c, a) /\ a \in Agents
    <2> DEFINE new == [call[c] EXCEPT !.pc = "stop", !.a = a]
    <2>1. call' = [call EXCEPT ![c] = new] /\ call[c] \in CallSet
      BY <1>5, Shape
    <2>2. a \in Agents /\ agents[a].pid \in Pids /\ agents[a].listed
      BY Referred DEF Listed
    <2>3. new \in CallSet /\ new.pc = "stop" /\ new.info = call[c].info /\ new.a = a
      BY <2>1, <2>2 DEF CallSet, Removing
    <2> HIDE DEF new
    <2>4. /\ call' \in [Callers -> CallSet] /\ Others(c)
          /\ call'[c].pc = "stop" /\ call'[c].info = call[c].info /\ call'[c].a = a
      BY <2>1, <2>3, Shape, OneCall
    <2>5. overlap \subseteq overlap' /\ overlap' \subseteq Pids /\ Marks(c, agents[a].pid)
      BY <1>5, <2>2, Shape, WorksMarks
    <2> QED
      BY <1>2, <2>2, <2>4, <2>5, SameAgents, SameProcesses DEF Conflict, Takes
  <1> QED
    BY <1>3, <1>4, <1>5 DEF Conflict, Conflicts

\* Steps that stop the watcher of the agent of a call.
LEMMA UnwatchStep ==
  ASSUME Typed, Calling, NEW c \in Callers, RemoveStop(c) \/ Rebind(c) \/ ReloadHistory(c)
  PROVE  agents' \in [Agents -> AgentSet] /\ call' \in [Callers -> CallSet] /\ Unwatches(c)
  <1>1. call[c].a \in Agents
    BY Referred DEF RemoveStop, Rebind, ReloadHistory, Holding, Removing
  <1>2. agents' = Unwatched(call[c].a)
    BY DEF RemoveStop, Rebind, ReloadHistory
  <1>3. os' = os /\ overlap' = overlap
    BY DEF RemoveStop, Rebind, ReloadHistory
  <1>4. \/ call[c].pc = "stop" /\ Step(c, "unlist")
        \/ call[c].pc = "rebind" /\ Step(c, "resume")
        \/ call[c].pc = "restart" /\ Step(c, "watch")
    BY DEF RemoveStop, Rebind, ReloadHistory
  <1>5. /\ call' \in [Callers -> CallSet]
        /\ Turn(c, "stop", "unlist") \/ Turn(c, "rebind", "resume") \/ Turn(c, "restart", "watch")
    BY <1>4, Shape, StepCall DEF Turn, Holding, Removing
  <1> QED
    BY <1>1, <1>2, <1>3, <1>5, StoppedAgent, SameProcesses DEF Unwatches

\* Remove stops the agent.
LEMMA RemoveStopStep ==
  ASSUME Typed, Calling, NEW c \in Callers, RemoveStop(c)
  PROVE  Typed' /\ Unwatches(c)
  BY UnwatchStep, Types DEF RemoveStop, Typed, TypeOK

\* A switched session: the watcher is stopped.
LEMMA RebindStep ==
  ASSUME Typed, Calling, NEW c \in Callers, Rebind(c)
  PROVE  Typed' /\ Unwatches(c)
  BY UnwatchStep, Types DEF Rebind, Typed, TypeOK

\* Before a watcher is started the one there is is stopped.
LEMMA ReloadHistoryStep ==
  ASSUME Typed, Calling, NEW c \in Callers, ReloadHistory(c)
  PROVE  Typed' /\ Unwatches(c)
  BY UnwatchStep, Types DEF ReloadHistory, Typed, TypeOK

\* Remove takes the agent out of the registry.
LEMMA RemoveUnlistStep ==
  ASSUME Typed, Calling, NEW c \in Callers, RemoveUnlist(c)
  PROVE  Typed' /\ Unlists(c)
  <1> DEFINE a == call[c].a
             new == [agents[a] EXCEPT !.listed = FALSE]
  <1>1. a \in Agents
    BY Referred DEF RemoveUnlist, Removing
  <1>2. agents' = [agents EXCEPT ![a] = new] /\ agents[a] \in AgentSet
    BY <1>1, Shape DEF RemoveUnlist
  <1>3. /\ new \in AgentSet /\ new.pid = agents[a].pid /\ ~new.listed
        /\ new.stray = agents[a].stray /\ new.watch = agents[a].watch
    BY <1>2 DEF AgentSet
  <1>4. call' \in [Callers -> CallSet] /\ Turn(c, "unlist", "delete")
    BY Shape, StepCall DEF RemoveUnlist, Turn, Removing
  <1> HIDE DEF new
  <1>5. agents' \in [Agents -> AgentSet] /\ agents'[a] = new /\ AlikeBut(a)
    BY <1>1, <1>2, <1>3, Shape, OneAgent
  <1>6. Typed'
    BY <1>4, <1>5, Types DEF RemoveUnlist, Typed, TypeOK
  <1> QED
    BY <1>3, <1>4, <1>5, <1>6, SameProcesses DEF RemoveUnlist, Unlists

\* Remove deletes the row, and the call goes on or is over.
LEMMA RemoveRowStep ==
  ASSUME Typed, Calling, NEW c \in Callers, RemoveRow(c)
  PROVE  Typed' /\ (Rests(c) \/ Releases(c))
  <1>1. rows' \in [Agents -> Maybe \cup {"absent"}]
    BY Shape DEF RemoveRow
  <1>2. ASSUME call' \in [Callers -> CallSet]
        PROVE  Typed'
    BY <1>1, <1>2, Types, Shape DEF RemoveRow, Typed, TypeOK
  <1>3. CASE call[c].info.pid = 0
    <2>1. call' \in [Callers -> CallSet] /\ Rest(c)
      BY <1>3, Shape, ReturnCall DEF RemoveRow
    <2> QED
      BY <1>2, <2>1, SameAgents, SameProcesses DEF RemoveRow, Rests
  <1>4. CASE call[c].info.pid # 0
    <2> DEFINE new == [call[c] EXCEPT !.pc = "same", !.a = 0]
    <2>1. call' = [call EXCEPT ![c] = new] /\ call[c] \in CallSet
      BY <1>4, Shape DEF RemoveRow
    <2>2. new \in CallSet /\ new.pc = "same" /\ new.info = call[c].info /\ new.a = 0
      BY <2>1 DEF CallSet, Seeking
    <2> HIDE DEF new
    <2>3. /\ call' \in [Callers -> CallSet] /\ Others(c)
          /\ call'[c].pc = "same" /\ call'[c].info = call[c].info /\ call'[c].a = 0
      BY <2>1, <2>2, Shape, OneCall
    <2>4. call[c].info.pid \in Pids
      BY <1>4, Referred
    <2> QED
      BY <1>2, <2>3, <2>4, SameAgents, SameProcesses DEF RemoveRow, Releases
  <1> QED
    BY <1>3, <1>4

\* Attach looks for an agent of the process.
LEMMA SameProcessStep ==
  ASSUME Typed, Calling, NEW c \in Callers, SameProcess(c)
  PROVE  Typed' /\ (Misses(c) \/ \E a \in Agents : Finds(c, a))
  <1>1. call[c].pc = "same" /\ call[c].info.pid \in Pids /\ call[c].a = 0
    BY DEF SameProcess, Calling, Seeking
  <1>2. ASSUME agents' \in [Agents -> AgentSet], call' \in [Callers -> CallSet]
        PROVE  Typed'
    BY <1>2, Types, Shape DEF SameProcess, Typed, TypeOK
  <1>3. ASSUME {a \in Listed : agents[a].pid = call[c].info.pid} = {}, agents' = agents,
               NEW pc \in {"insert", "owners"}, Step(c, pc)
        PROVE  Typed' /\ Misses(c)
    <2>1. /\ call' \in [Callers -> CallSet] /\ Others(c)
          /\ call'[c].pc = pc /\ call'[c].info = call[c].info /\ call'[c].a = call[c].a
      BY <1>3, Shape, StepCall DEF Seeking
    <2> QED
      BY <1>1, <1>2, <1>3, <2>1, Shape, SameAgents, SameProcesses DEF SameProcess, Misses
  <1>4. ASSUME NEW a \in Listed, agents[a].pid = call[c].info.pid,
               NEW tmux \in BOOLEAN, agents' = [agents EXCEPT ![a].tmux = tmux],
               NEW pc \in {"rebind", "restart"}, NEW display \in BOOLEAN,
               call' = [call EXCEPT ![c].a = a, ![c].pc = pc, ![c].display = display]
        PROVE  Typed' /\ Finds(c, a) /\ a \in Agents
    <2> DEFINE newc == [call[c] EXCEPT !.a = a, !.pc = pc, !.display = display]
               newa == [agents[a] EXCEPT !.tmux = tmux]
    <2>1. a \in Agents /\ agents[a].listed /\ agents[a] \in AgentSet /\ call[c] \in CallSet
      BY Shape DEF Listed
    <2>2. call' = [call EXCEPT ![c] = newc] /\ agents' = [agents EXCEPT ![a] = newa]
      BY <1>4
    <2>3. newc \in CallSet /\ newc.pc = pc /\ newc.info = call[c].info /\ newc.a = a
      BY <2>1 DEF CallSet, Holding
    <2>4. /\ newa \in AgentSet /\ newa.pid = agents[a].pid /\ newa.listed = agents[a].listed
          /\ newa.watch = agents[a].watch /\ newa.stray = agents[a].stray
      BY <2>1 DEF AgentSet
    <2> HIDE DEF newc, newa
    <2>5. call' \in [Callers -> CallSet] /\ call'[c] = newc /\ Others(c)
      BY <2>2, <2>3, Shape, OneCall
    <2>6. agents' \in [Agents -> AgentSet] /\ AllAlike
      BY <2>1, <2>2, <2>4, Shape, OneAgent DEF AllAlike, AlikeBut, Alike
    <2> QED
      BY <1>1, <1>2, <1>4, <2>1, <2>3, <2>5, <2>6, SameProcesses DEF SameProcess, Finds
  <1>5. CASE \E a \in {b \in Listed : agents[b].pid = call[c].info.pid} :
                \E tmux \in BOOLEAN, pc \in {"rebind", "restart"}, display \in BOOLEAN :
                   /\ agents' = [agents EXCEPT ![a].tmux = tmux]
                   /\ call' = [call EXCEPT ![c].a = a, ![c].pc = pc, ![c].display = display]
    BY <1>4, <1>5, ZenonT(20)
  <1>6. CASE {a \in Listed : agents[a].pid = call[c].info.pid} = {} /\ agents' = agents
             /\ \E pc \in {"insert", "owners"} : Step(c, pc)
    BY <1>3, <1>6
  <1> QED
    BY <1>5, <1>6, Zenon DEF SameProcess

\* UpdateResumeSessionID writes a session into a row that is there.
LEMMA ResumedRows ==
  ASSUME Typed, NEW a \in Agents, NEW s \in Maybe, Resumed(a, s)
  PROVE  /\ rows' \in [Agents -> Maybe \cup {"absent"}]
         /\ \A b \in Agents : Stored(b)' => Stored(b)
  BY Shape DEF Resumed, Stored

\* The row gets the new session, if the agent is still there.
LEMMA UpdateResumeStep ==
  ASSUME Typed, Calling, NEW c \in Callers, UpdateResume(c)
  PROVE  Typed' /\ Continues(c)
  <1>1. call[c].a \in Agents /\ call[c].info.session \in Maybe
    BY Referred DEF UpdateResume, Holding
  <1>2. call' \in [Callers -> CallSet] /\ Turn(c, "resume", "restart")
    BY Shape, StepCall DEF UpdateResume, Turn, Holding
  <1>3. rows' \in [Agents -> Maybe \cup {"absent"}]
    BY <1>1, ResumedRows DEF UpdateResume
  <1>4. Typed'
    BY <1>2, <1>3, Types DEF UpdateResume, Typed, TypeOK
  <1> QED
    BY <1>2, <1>4, SameAgents, SameProcesses DEF UpdateResume, Continues

\* What dropping a set of agents of dead processes does.
LEMMA DroppedAgents ==
  ASSUME Typed, NEW D \in SUBSET Agents, \A a \in D : ~Alive(agents[a].pid),
         agents' = [a \in Agents |-> IF a \in D THEN [agents[a] EXCEPT !.listed = FALSE] ELSE agents[a]],
         rows' = [a \in Agents |-> IF a \in D THEN "absent" ELSE rows[a]]
  PROVE  /\ agents' \in [Agents -> AgentSet] /\ rows' \in [Agents -> Maybe \cup {"absent"}]
         /\ \A a \in Agents :
               /\ agents'[a].pid = agents[a].pid
               /\ agents'[a].stray = agents[a].stray /\ agents'[a].watch = agents[a].watch
               /\ agents'[a].listed => agents[a].listed
               /\ agents[a].listed /\ ~agents'[a].listed => ~Alive(agents[a].pid)
  <1> DEFINE gone(a) == [agents[a] EXCEPT !.listed = FALSE]
  <1>1. \A a \in Agents :
           /\ gone(a) \in AgentSet /\ ~gone(a).listed /\ gone(a).pid = agents[a].pid
           /\ gone(a).stray = agents[a].stray /\ gone(a).watch = agents[a].watch
    <2> TAKE a \in Agents
    <2>1. agents[a] \in AgentSet
      BY Shape
    <2> QED
      BY <2>1 DEF AgentSet
  <1>2. \A a \in Agents : agents'[a] = IF a \in D THEN gone(a) ELSE agents[a]
    OBVIOUS
  <1>3. agents' = [a \in Agents |-> IF a \in D THEN gone(a) ELSE agents[a]]
    OBVIOUS
  <1> HIDE DEF gone
  <1>4. agents' \in [Agents -> AgentSet]
    <2>1. \A a \in Agents : (IF a \in D THEN gone(a) ELSE agents[a]) \in AgentSet
      BY <1>1, Shape
    <2> QED
      BY <1>3, <2>1
  <1>5. rows' \in [Agents -> Maybe \cup {"absent"}]
    BY Shape
  <1> QED
    BY <1>1, <1>2, <1>4, <1>5

\* Agents of dead processes on the same session are dropped before the insertion.
LEMMA OwnersStep ==
  ASSUME Typed, Calling, NEW c \in Callers, Owners(c)
  PROVE  Typed' /\ Drops(c)
  <1> DEFINE owners == Conflicts(call[c].info)
             live == {a \in owners : Alive(agents[a].pid)}
             display == call[c].display \/ live # {}
             new == [call[c] EXCEPT !.pc = "insert", !.display = display]
  <1>1. PICK D \in SUBSET (owners \ live) :
           /\ agents' = [a \in Agents |-> IF a \in D THEN [agents[a] EXCEPT !.listed = FALSE] ELSE agents[a]]
           /\ rows' = [a \in Agents |-> IF a \in D THEN "absent" ELSE rows[a]]
           /\ call' = [call EXCEPT ![c] = new]
    BY Zenon DEF Owners
  <1>2. D \in SUBSET Agents /\ \A a \in D : ~Alive(agents[a].pid)
    BY DEF Conflicts, Listed
  <1>3. call[c] \in CallSet
    BY Shape
  <1>4. display \in BOOLEAN
    OBVIOUS
  <1> HIDE DEF owners, live, display
  <1>5. new \in CallSet /\ new.pc = "insert" /\ new.info = call[c].info /\ new.a = call[c].a
    BY <1>3, <1>4 DEF CallSet, Seeking
  <1> HIDE DEF new
  <1>6. call' \in [Callers -> CallSet] /\ Turn(c, "owners", "insert")
    BY <1>1, <1>5, Shape, OneCall DEF Owners, Turn
  <1>7. /\ agents' \in [Agents -> AgentSet] /\ rows' \in [Agents -> Maybe \cup {"absent"}]
        /\ \A a \in Agents :
              /\ agents'[a].pid = agents[a].pid
              /\ agents'[a].stray = agents[a].stray /\ agents'[a].watch = agents[a].watch
              /\ agents'[a].listed => agents[a].listed
              /\ agents[a].listed /\ ~agents'[a].listed => ~Alive(agents[a].pid)
    BY <1>1, <1>2, DroppedAgents
  <1>8. Typed'
    BY <1>6, <1>7, Types DEF Owners, Typed, TypeOK
  <1> QED
    BY <1>6, <1>7, <1>8, SameProcesses DEF Owners, Drops

\* CleanupDeadAgents drops the agents of dead processes.
LEMMA CleanupStep ==
  ASSUME Typed, Calling, Cleanup
  PROVE  Typed' /\ Drops("scan")
  <1> DEFINE dead == {a \in Listed : ~Alive(agents[a].pid)}
             freed == {Session(a) : a \in dead} \ {None}
             new == [Idle EXCEPT !.pc = "promote", !.seen = freed]
  <1>1. /\ agents' = [a \in Agents |-> IF a \in dead THEN [agents[a] EXCEPT !.listed = FALSE] ELSE agents[a]]
        /\ rows' = [a \in Agents |-> IF a \in dead THEN "absent" ELSE rows[a]]
        /\ call' = [call EXCEPT !["scan"] = new]
    BY Zenon DEF Cleanup
  <1>2. dead \in SUBSET Agents /\ \A a \in dead : ~Alive(agents[a].pid)
    BY DEF Listed
  <1>3. freed \in SUBSET (Maybe \cup {"absent"})
    BY <1>2, Referred
  <1> HIDE DEF dead, freed
  <1>4. new \in CallSet /\ new.pc \in Resting /\ new.info.pid = 0 /\ new.a = 0
    BY <1>3, IdleIsCall DEF CallSet, Resting
  <1> HIDE DEF new
  <1>5. call' \in [Callers -> CallSet] /\ Rest("scan")
    BY <1>1, <1>4, Shape, OneCall DEF Rest
  <1>6. /\ agents' \in [Agents -> AgentSet] /\ rows' \in [Agents -> Maybe \cup {"absent"}]
        /\ \A a \in Agents :
              /\ agents'[a].pid = agents[a].pid
              /\ agents'[a].stray = agents[a].stray /\ agents'[a].watch = agents[a].watch
              /\ agents'[a].listed => agents[a].listed
              /\ agents[a].listed /\ ~agents'[a].listed => ~Alive(agents[a].pid)
    BY <1>1, <1>2, DroppedAgents
  <1>7. Typed'
    BY <1>5, <1>6, Types DEF Cleanup, Typed, TypeOK
  <1> QED
    BY <1>5, <1>6, <1>7, SameProcesses DEF Cleanup, Drops

\* CleanupDeadAgents starts the watcher of an agent it promotes.
LEMMA PromoteStep ==
  ASSUME Typed, Calling, NEW a \in Agents, Promote(a)
  PROVE  Typed' /\ Promotes(a)
  <1>1. agents[a].listed /\ agents[a].watch = "off" /\ agents[a].pid \in Pids
    BY Referred DEF Promote, Promotable, Listed
  <1>2. agents' = Watching(a, Session(a)) /\ Session(a) \in Maybe
    BY Referred DEF Promote
  <1>3. /\ agents' \in [Agents -> AgentSet] /\ AlikeBut(a)
        /\ agents'[a].pid = agents[a].pid /\ agents'[a].listed = agents[a].listed
        /\ agents'[a].stray <=> agents[a].stray \/ agents[a].watch # "off"
    BY <1>2, WatchedAgent
  <1>4. agents'[a].stray \in BOOLEAN /\ agents[a].stray \in BOOLEAN
    BY <1>3, Shape DEF AgentSet
  <1>5. overlap \subseteq overlap' /\ overlap' \subseteq Pids /\ Marks("scan", agents[a].pid)
    BY <1>1, Shape, WorksMarks DEF Promote
  <1>6. Typed'
    BY <1>3, <1>5, Types, Shape DEF Promote, Typed, TypeOK
  <1> QED
    BY <1>1, <1>3, <1>4, <1>5, <1>6, SameProcesses DEF Promote, Promotes

\* A new agent is inserted.
LEMMA InsertStep ==
  ASSUME Typed, Calling, NEW c \in Callers, Insert(c)
  PROVE  Typed' /\ \E a \in Agents : Inserts(c, a)
  <1> DEFINE i == call[c].info
             newa == [Unborn EXCEPT !.pid = i.pid, !.listed = TRUE, !.tmux = i.tmux]
  <1>1. PICK a \in Unused : /\ agents' = [agents EXCEPT ![a] = newa]
                           /\ call' = [call EXCEPT ![c].pc = "save", ![c].a = a]
    BY DEF Insert
  <1> DEFINE newc == [call[c] EXCEPT !.pc = "save", !.a = a]
  <1>2. a \in Agents /\ \A d \in Callers : call[d].a # a
    BY DEF Unused, Fresh
  <1>3. call[c] \in CallSet /\ i.pid \in Pids /\ i.tmux \in BOOLEAN
    BY Referred, Shape DEF Insert, Calling, Seeking
  <1>4. call' = [call EXCEPT ![c] = newc]
    BY <1>1
  <1>5. newc \in CallSet /\ newc.pc = "save" /\ newc.info = call[c].info /\ newc.a = a
    BY <1>2, <1>3 DEF CallSet, Holding
  <1>6. newa \in AgentSet /\ newa.pid = i.pid /\ newa.listed /\ newa.watch = "off" /\ ~newa.stray
    BY <1>3, Shape DEF AgentSet, Unborn
  <1>7. agents' = [agents EXCEPT ![a] = newa]
    BY <1>1
  <1> HIDE DEF newa, newc
  <1>8. call' \in [Callers -> CallSet] /\ call'[c] = newc /\ Others(c)
    BY <1>4, <1>5, Shape, OneCall
  <1>9. agents' \in [Agents -> AgentSet] /\ agents'[a] = newa /\ AlikeBut(a)
    BY <1>2, <1>6, <1>7, Shape, OneAgent
  <1>11. Typed'
    BY <1>8, <1>9, Types DEF Insert, Typed, TypeOK
  <1> QED
    BY <1>2, <1>5, <1>6, <1>8, <1>9, <1>11, SameProcesses DEF Insert, Inserts

\* The new agent is saved.
LEMMA SaveAgentStep ==
  ASSUME Typed, Calling, NEW c \in Callers, SaveAgent(c)
  PROVE  Typed' /\ Continues(c)
  <1>1. call[c].a \in Agents /\ call[c].info.session \in Maybe
    BY Referred DEF SaveAgent, Holding
  <1>3. rows' \in [Agents -> Maybe \cup {"absent"}]
    BY <1>1, Shape DEF SaveAgent
  <1>4. call' \in [Callers -> CallSet] /\ Turn(c, "save", "watch")
    BY Shape, StepCall DEF SaveAgent, Turn, Holding
  <1>5. Typed'
    BY <1>3, <1>4, Types DEF SaveAgent, Typed, TypeOK
  <1> QED
    BY <1>4, <1>5, SameAgents, SameProcesses DEF SaveAgent, Continues

\* Attach ends by starting the watcher, or leaves the agent for display.
LEMMA StartWatcherStep ==
  ASSUME Typed, Calling, NEW c \in Callers, StartWatcher(c)
  PROVE  Typed' /\ (Watches(c) \/ Rests(c))
  <1> DEFINE a == call[c].a
             s == call[c].info.session
             w == IF provider = "hermes" /\ Session(a) # None THEN Session(a) ELSE s
  <1>1. a \in Agents /\ s \in Maybe /\ Session(a) \in Maybe
    BY Referred DEF StartWatcher, Holding
  <1>2. call' \in [Callers -> CallSet] /\ Rest(c)
    BY Shape, ReturnCall DEF StartWatcher
  <1>3. w \in Maybe \cup {"off"}
    BY <1>1
  <1>4. agents' = agents \/ agents' = Watching(a, w)
    BY DEF StartWatcher
  <1> HIDE DEF w
  <1>5. CASE agents' = agents
    <2>1. Typed'
      BY <1>2, <1>5, Types, Shape DEF StartWatcher, Typed, TypeOK
    <2> QED
      BY <1>2, <1>5, <2>1, SameAgents, SameProcesses DEF StartWatcher, Rests
  <1>6. CASE agents' = Watching(a, w)
    <2>1. /\ agents' \in [Agents -> AgentSet] /\ AlikeBut(a)
          /\ agents'[a].pid = agents[a].pid /\ agents'[a].listed = agents[a].listed
          /\ agents'[a].stray <=> agents[a].stray \/ agents[a].watch # "off"
      BY <1>1, <1>3, <1>6, WatchedAgent
    <2>2. Typed'
      BY <1>2, <2>1, Types, Shape DEF StartWatcher, Typed, TypeOK
    <2> QED
      BY <1>2, <2>1, <2>2, SameProcesses DEF StartWatcher, Watches
  <1> QED
    BY <1>4, <1>5, <1>6

\* session.attach ends by watching the file it found.
LEMMA StartWatcherForAgentStep ==
  ASSUME Typed, Calling, NEW c \in Callers, StartWatcherForAgent(c)
  PROVE  Typed' /\ Watches(c)
  <1> DEFINE a == call[c].a
             s == call[c].resume
             new == [agents[a] EXCEPT !.watch = s]
  <1>1. a \in Agents
    BY Referred DEF StartWatcherForAgent, Removing
  <1>2. call[c] \in CallSet
    BY Shape
  <1>3. s \in Maybe
    BY <1>2 DEF CallSet
  <1>4. call' \in [Callers -> CallSet] /\ Rest(c)
    BY Shape, ReturnCall DEF StartWatcherForAgent
  <1>5. agents' = [agents EXCEPT ![a] = new]
    BY DEF StartWatcherForAgent
  <1>6. /\ new \in AgentSet /\ new.pid = agents[a].pid /\ new.listed = agents[a].listed
        /\ new.stray = agents[a].stray
    <2>1. agents[a] \in AgentSet
      BY <1>1, Shape
    <2> QED
      BY <1>3, <2>1 DEF AgentSet
  <1> HIDE DEF new
  <1>7. agents' \in [Agents -> AgentSet] /\ agents'[a] = new /\ AlikeBut(a)
    BY <1>1, <1>5, <1>6, Shape, OneAgent
  <1>8. Typed'
    BY <1>4, <1>7, Types, Shape DEF StartWatcherForAgent, Typed, TypeOK
  <1> QED
    BY <1>4, <1>6, <1>7, <1>8, SameProcesses DEF StartWatcherForAgent, Watches

\* agent.attach begins a call of Attach on a process its scan reported.
LEMMA AgentAttachStep ==
  ASSUME Typed, NEW c \in Callers, AgentAttach(c)
  PROVE  Typed' /\ Begins(c)
  <1>1. PICK i \in Scanned : Begin(c, i, {}, {})
    BY DEF AgentAttach
  <1>2. i \in ScanSet
    BY ScannedType
  <1> QED
    BY <1>1, <1>2, BeginStep DEF AgentAttach

\* agent.remove and session.attach take an agent that is listed.
LEMMA TakeStep ==
  ASSUME Typed, Calling, NEW c \in Callers, NEW a \in Listed, NEW new \in CallSet,
         call' = [call EXCEPT ![c] = new],
         new.pc \in {"stop", "follow"}, new.info = call[c].info, new.a = a,
         Works(c, agents[a].pid),
         agents' = agents, os' = os, rows' = rows, hop' = hop, mu' = mu
  PROVE  Typed' /\ Takes(c, a) /\ a \in Agents
  <1>1. a \in Agents /\ agents[a].pid \in Pids /\ agents[a].listed
    BY Referred DEF Listed
  <1>2. call' \in [Callers -> CallSet] /\ call'[c] = new /\ Others(c)
    BY Shape, OneCall
  <1>3. overlap \subseteq overlap' /\ overlap' \subseteq Pids /\ Marks(c, agents[a].pid)
    BY <1>1, Shape, WorksMarks
  <1>4. Typed'
    BY <1>2, <1>3 DEF Typed, TypeOK
  <1> QED
    BY <1>1, <1>2, <1>3, <1>4, SameAgents, SameProcesses DEF Takes

\* agent.remove begins.
LEMMA AgentRemoveStep ==
  ASSUME Typed, Calling, NEW c \in Callers, AgentRemove(c)
  PROVE  Typed' /\ \E a \in Agents : Takes(c, a)
  <1>1. PICK a \in Listed : /\ call' = [call EXCEPT ![c].pc = "stop", ![c].a = a]
                           /\ Works(c, agents[a].pid)
    BY DEF AgentRemove
  <1> DEFINE new == [call[c] EXCEPT !.pc = "stop", !.a = a]
  <1>2. a \in Agents /\ call[c] \in CallSet
    BY Referred, Shape
  <1>3. call' = [call EXCEPT ![c] = new]
    BY <1>1
  <1>4. new \in CallSet /\ new.pc = "stop" /\ new.info = call[c].info /\ new.a = a
    BY <1>2 DEF CallSet, Removing
  <1> HIDE DEF new
  <1> QED
    BY <1>1, <1>3, <1>4, TakeStep DEF AgentRemove

\* session.attach begins.
LEMMA SessionAttachStep ==
  ASSUME Typed, Calling, NEW c \in Callers, SessionAttach(c)
  PROVE  Typed' /\ \E a \in Agents : Takes(c, a)
  <1>1. PICK a \in Listed :
           /\ call' = [call EXCEPT ![c].pc = "follow", ![c].a = a, ![c].resume = Session(a)]
           /\ Works(c, agents[a].pid)
    BY DEF SessionAttach
  <1> DEFINE s == Session(a)
             new == [call[c] EXCEPT !.pc = "follow", !.a = a, !.resume = s]
  <1>2. a \in Agents /\ call[c] \in CallSet /\ s \in Maybe
    BY Referred, Shape
  <1>3. call' = [call EXCEPT ![c] = new]
    BY <1>1
  <1> HIDE DEF s
  <1>4. new \in CallSet /\ new.pc = "follow" /\ new.info = call[c].info /\ new.a = a
    BY <1>2 DEF CallSet, Removing
  <1> HIDE DEF new
  <1> QED
    BY <1>1, <1>3, <1>4, TakeStep DEF SessionAttach

\* An agent that is loaded is registered, has no stray watcher, and belongs to a live process.
LEMMA LoadedAgent ==
  ASSUME Typed, NEW a \in Agents, agents[a].pid \in Pids, Stored(a)
  PROVE  /\ LoadAgent(a) \in AgentSet
         /\ LoadAgent(a).pid = agents[a].pid /\ LoadAgent(a).listed /\ ~LoadAgent(a).stray
  <1> DEFINE pid == agents[a].pid
             tmux == provider # "opencode" /\ os[pid].tmux
             watch == IF ~Jsonl THEN rows[a] ELSE IF os[pid].session = None THEN "off" ELSE os[pid].session
             new == [Unborn EXCEPT !.pid = pid, !.listed = TRUE, !.tmux = tmux,
                                   !.watch = watch]
  <1>1. LoadAgent(a) = new
    BY Zenon DEF LoadAgent
  <1>2. rows[a] \in Maybe /\ os[pid] \in [alive : BOOLEAN, session : Maybe, tmux : BOOLEAN]
    BY Shape DEF Stored
  <1>3. tmux \in BOOLEAN /\ watch \in Maybe \cup {"off"}
    BY <1>2
  <1> HIDE DEF tmux, watch
  <1>4. /\ new \in AgentSet /\ new.pid = pid /\ new.listed /\ ~new.stray
    BY <1>2, <1>3 DEF AgentSet, Unborn
  <1> QED
    BY <1>1, <1>4

\* A restart leaves one agent for each process that has a row, and nothing running.
LEMMA LoadFromStoreStep ==
  ASSUME Typed, Calling, LoadFromStore
  PROVE  Typed' /\ Restarts
  <1>1. PICK kept \in SUBSET Agents :
          /\ Loadable(kept)
          /\ rows' = [a \in Agents |-> IF a \in kept THEN rows[a] ELSE "absent"]
          /\ agents' = [a \in Agents |-> IF a \in kept THEN LoadAgent(a)
                                         ELSE [Unborn EXCEPT !.pid = agents[a].pid]]
    BY DEF LoadFromStore
  <1> DEFINE empty(a) == [Unborn EXCEPT !.pid = agents[a].pid]
             boot == [Idle EXCEPT !.pc = "boot"]
  <1>2. \A a \in kept : Stored(a) /\ agents[a].pid \in Pids /\ a \in Agents
    BY <1>1, Shape DEF Loadable, Calling, AgentSet
  <1>3. \A a, b \in kept : agents[a].pid = agents[b].pid => a = b
    BY <1>1 DEF Loadable
  <1>4. \A a \in kept : /\ LoadAgent(a) \in AgentSet /\ LoadAgent(a).pid = agents[a].pid
                        /\ LoadAgent(a).listed /\ ~LoadAgent(a).stray
    BY <1>2, LoadedAgent
  <1>5. \A a \in Agents : /\ empty(a) \in AgentSet /\ ~empty(a).listed /\ ~empty(a).stray
                          /\ empty(a).watch = "off" /\ empty(a).pid = agents[a].pid
    <2> TAKE a \in Agents
    <2>1. agents[a] \in AgentSet
      BY Shape
    <2>2. agents[a].pid \in Pids \cup {0}
      BY <2>1 DEF AgentSet
    <2> QED
      BY <2>2, Shape DEF AgentSet, Unborn
  <1>6. agents' = [a \in Agents |-> IF a \in kept THEN LoadAgent(a) ELSE empty(a)]
    BY <1>1
  <1> HIDE DEF empty
  <1>7. agents' \in [Agents -> AgentSet]
    <2>1. \A a \in Agents : (IF a \in kept THEN LoadAgent(a) ELSE empty(a)) \in AgentSet
      BY <1>4, <1>5
    <2> QED
      BY <1>6, <2>1
  <1>8. \A a \in Agents : agents'[a] = IF a \in kept THEN LoadAgent(a) ELSE empty(a)
    BY <1>6
  <1>9. boot \in CallSet /\ boot.pc \in Resting /\ boot.info.pid = 0 /\ boot.a = 0
    BY IdleIsCall DEF CallSet, Resting
  <1>10. call' = [c \in Callers |-> IF c = "auto" THEN boot ELSE Idle]
    BY DEF LoadFromStore
  <1> HIDE DEF boot
  <1>11. \A c \in Callers : LET new == IF c = "auto" THEN boot ELSE Idle
                            IN new \in CallSet /\ new.pc \in Resting /\ new.info.pid = 0 /\ new.a = 0
    BY <1>9, IdleIsCall DEF Resting
  <1>12. /\ call' \in [Callers -> CallSet]
         /\ \A c \in Callers : call'[c].pc \in Resting /\ call'[c].info.pid = 0 /\ call'[c].a = 0
    BY <1>10, <1>11
  <1>13. rows' \in [Agents -> Maybe \cup {"absent"}]
    BY <1>1, Shape
  <1>14. hop' \in [a : Agents \cup {0}, to : Maybe] /\ overlap' \subseteq Pids
    BY Shape DEF LoadFromStore, NoHop
  <1>16. Typed'
    BY <1>7, <1>12, <1>13, <1>14, Types DEF LoadFromStore, Typed, TypeOK
  <1>17. \A a \in Agents : /\ agents'[a].pid = agents[a].pid /\ ~agents'[a].stray
                           /\ agents'[a].listed => a \in kept
                           /\ ~agents'[a].listed => agents'[a].watch = "off"
    BY <1>4, <1>5, <1>8
  <1> QED
    BY <1>2, <1>3, <1>12, <1>16, <1>17 DEF Restarts

\* What a poll finds is a session.
LEMMA LatestType ==
  ASSUME Typed, Calling, NEW a \in Agents, NEW s \in Latest(a), agents[a].watch # "off"
  PROVE  s \in Sessions
  <1>1. agents[a].pid \in Pids
    BY Shape DEF Calling, AgentSet
  <1>2. \A p \in Pids : os[p].session \in Maybe
    BY Shape
  <1>3. \A x : x \in Maybe \ {None} => x \in Sessions
    BY DEF Maybe
  <1>4. PICK p \in Pids : s = os[p].session /\ s # None
    BY <1>1 DEF Latest
  <1> QED
    BY <1>2, <1>3, <1>4

\* A watcher that runs goes on in another session.
LEMMA Rewatched ==
  ASSUME Typed, NEW a \in Agents, agents[a].watch # "off", NEW s \in Maybe,
         agents' = [agents EXCEPT ![a].watch = s]
  PROVE  agents' \in [Agents -> AgentSet] /\ AllAlike
  <1> DEFINE new == [agents[a] EXCEPT !.watch = s]
  <1>1. agents[a] \in AgentSet
    BY Shape
  <1>2. /\ new \in AgentSet /\ new.pid = agents[a].pid /\ new.listed = agents[a].listed
        /\ new.stray = agents[a].stray /\ new.watch = s
    BY <1>1 DEF AgentSet
  <1>3. s # "off"
    BY RegistryAssumption DEF Maybe, None
  <1>4. agents' = [agents EXCEPT ![a] = new]
    OBVIOUS
  <1> HIDE DEF new
  <1> QED
    BY <1>2, <1>3, <1>4, Shape, OneAgent DEF AllAlike, AlikeBut, Alike

\* A hermes watcher takes the latest session.
LEMMA SeedStep ==
  ASSUME Typed, Calling, NEW a \in Agents, Seed(a)
  PROVE  Typed' /\ Ages
  <1>1. PICK s \in Latest(a) : agents' = [agents EXCEPT ![a].watch = s]
    BY DEF Seed
  <1>2. agents[a].watch # "off"
    BY DEF Seed, None
  <1>3. s \in Maybe
    BY <1>2, LatestType, Shape
  <1>4. agents' \in [Agents -> AgentSet] /\ AllAlike
    BY <1>1, <1>2, <1>3, Rewatched
  <1>5. Typed'
    BY <1>4, Types DEF Seed, Typed, TypeOK
  <1> QED
    BY <1>4, <1>5, SameProcesses DEF Seed, Ages

\* A watcher finds its process in another session.
LEMMA SessionSwitchStep ==
  ASSUME Typed, Calling, NEW a \in Agents, SessionSwitch(a)
  PROVE  Typed' /\ Ages
  <1>1. PICK s \in Latest(a) \ {agents[a].watch} :
           /\ agents' = IF provider = "hermes" THEN agents ELSE [agents EXCEPT ![a].watch = s]
           /\ hop' = [a |-> a, to |-> s]
    BY DEF SessionSwitch
  <1>2. agents[a].watch # "off"
    BY RegistryAssumption DEF SessionSwitch
  <1>3. s \in Maybe
    BY <1>2, LatestType, Shape
  <1>4. agents' \in [Agents -> AgentSet] /\ AllAlike
    <2>1. CASE agents' = agents
      BY <2>1, Shape, SameAgents
    <2>2. CASE agents' = [agents EXCEPT ![a].watch = s]
      BY <1>2, <1>3, <2>2, Rewatched
    <2> QED
      BY <1>1, <2>1, <2>2
  <1>5. hop' \in [a : Agents \cup {0}, to : Maybe]
    BY <1>1, <1>3, Shape
  <1>6. Typed'
    BY <1>4, <1>5, Types DEF SessionSwitch, Typed, TypeOK
  <1> QED
    BY <1>4, <1>6, SameProcesses DEF SessionSwitch, Ages

\* Its callback writes the row.
LEMMA SwitchUpdateStep ==
  ASSUME Typed, SwitchUpdate
  PROVE  Typed' /\ Ages /\ \A b \in Agents : Stored(b)' => Stored(b)
  <1>1. hop.a \in Agents /\ hop.to \in Maybe
    BY DEF SwitchUpdate, Typed, TypeOK
  <1>2. rows' \in [Agents -> Maybe \cup {"absent"}] /\ \A b \in Agents : Stored(b)' => Stored(b)
    BY <1>1, ResumedRows DEF SwitchUpdate
  <1>3. agents' \in [Agents -> AgentSet] /\ AllAlike
    <2>1. CASE agents' = agents
      BY <2>1, Shape, SameAgents
    <2>2. CASE agents[hop.a].watch # "off" /\ agents' = [agents EXCEPT ![hop.a].watch = hop.to]
      BY <1>1, <2>2, Rewatched
    <2> QED
      BY <2>1, <2>2 DEF SwitchUpdate
  <1>4. hop' \in [a : Agents \cup {0}, to : Maybe]
    BY Shape DEF SwitchUpdate, NoHop
  <1>5. Typed'
    BY <1>2, <1>3, <1>4, Types DEF SwitchUpdate, Typed, TypeOK
  <1> QED
    BY <1>2, <1>3, <1>5, SameProcesses DEF SwitchUpdate, Ages

\* The steps of Attach, whoever calls it.
LEMMA AttachStep ==
  ASSUME Typed, Calling, NEW c \in Callers, Attach(c)
  PROVE  Typed' /\ OneStep
  <1>1. CASE Conflict(c)
    BY <1>1, ConflictStep DEF OneStep
  <1>2. CASE RemoveStop(c)
    BY <1>2, RemoveStopStep DEF OneStep
  <1>3. CASE RemoveUnlist(c)
    BY <1>3, RemoveUnlistStep DEF OneStep
  <1>4. CASE RemoveRow(c)
    BY <1>4, RemoveRowStep DEF OneStep
  <1>5. CASE SameProcess(c)
    BY <1>5, SameProcessStep DEF OneStep
  <1>6. CASE Rebind(c)
    BY <1>6, RebindStep DEF OneStep
  <1>7. CASE UpdateResume(c)
    BY <1>7, UpdateResumeStep DEF OneStep
  <1>8. CASE ReloadHistory(c)
    BY <1>8, ReloadHistoryStep DEF OneStep
  <1>9. CASE Owners(c)
    BY <1>9, OwnersStep DEF OneStep
  <1>10. CASE Insert(c)
    BY <1>10, InsertStep DEF OneStep
  <1>11. CASE SaveAgent(c)
    BY <1>11, SaveAgentStep DEF OneStep
  <1>12. CASE StartWatcher(c)
    BY <1>12, StartWatcherStep DEF OneStep
  <1> QED
    BY <1>1, <1>2, <1>3, <1>4, <1>5, <1>6, <1>7, <1>8, <1>9, <1>10, <1>11, <1>12 DEF Attach

\* Every step keeps the types, and is of one of the kinds.
LEMMA StepKinds ==
  ASSUME Typed, Calling, [Next]_vars
  PROVE  Typed' /\ OneStep
  <1>1. ASSUME NEW p \in Pids, Exit(p) \/ \E s \in Sessions : Switch(p, s)
        PROVE  Typed' /\ OneStep
    BY <1>1, ExitStep, SwitchStep DEF OneStep
  <1>2. CASE AutoAttachExisting
    BY <1>2, AutoScanStep, AutoNextStep, DoneStep, AttachStep, Shape DEF AutoAttachExisting, OneStep
  <1>3. CASE Periodic
    BY <1>3, PeriodicScanStep, PeriodicNextStep, CleanupStep, PromoteStep, DoneStep, AttachStep, Shape
       DEF Periodic, OneStep
  <1>4. ASSUME NEW c \in Clients, Handler(c) \/ AgentAttach(c) \/ AgentRemove(c) \/ SessionAttach(c)
        PROVE  Typed' /\ OneStep
    <2>1. c \in Callers
      BY Shape
    <2> QED
      BY <1>4, <2>1, AttachStep, StartWatcherForAgentStep, AgentAttachStep, AgentRemoveStep,
         SessionAttachStep
         DEF Handler, OneStep
  <1>5. CASE LoadFromStore
    BY <1>5, LoadFromStoreStep DEF OneStep
  <1>6. CASE Watchers
    BY <1>6, SeedStep, SessionSwitchStep, SwitchUpdateStep DEF Watchers, OneStep
  <1>7. CASE UNCHANGED vars
    <2>1. Typed'
      BY <1>7 DEF vars, Typed, TypeOK
    <2> QED
      BY <1>7, <2>1, SameAgents DEF vars, OneStep, Ages, Aging
  <1> QED
    BY <1>1, <1>2, <1>3, <1>4, <1>5, <1>6, <1>7 DEF Next

\* Only agents of some process get a row.
LEMMA RowsStep ==
  ASSUME Typed, Calling, [Next]_vars, NEW a \in Agents, Stored(a)'
  PROVE  Stored(a) \/ agents[a].pid \in Pids
  <1>1. rows' = rows => Stored(a)
    BY DEF Stored
  <1>2. ASSUME NEW c \in Callers, RemoveRow(c) \/ UpdateResume(c) \/ SaveAgent(c)
        PROVE  Stored(a) \/ agents[a].pid \in Pids
    <2>1. call[c].a \in Agents
      BY <1>2, Referred DEF RemoveRow, UpdateResume, SaveAgent, Holding, Removing
    <2>2. CASE RemoveRow(c)
      BY <2>1, <2>2, Shape DEF RemoveRow, Stored
    <2>3. CASE UpdateResume(c)
      <3>1. call[c].info.session \in Maybe
        BY <2>1, <2>3, Referred DEF UpdateResume, Holding
      <3> QED
        BY <2>1, <2>3, <3>1, ResumedRows DEF UpdateResume
    <2>4. CASE SaveAgent(c)
      BY <2>1, <2>4, Shape DEF SaveAgent, Stored, Calling, Holding
    <2> QED
      BY <1>2, <2>2, <2>3, <2>4
  <1>3. ASSUME NEW c \in Callers, Owners(c)
        PROVE  Stored(a)
    BY <1>3 DEF Owners, Stored
  <1>4. CASE Cleanup
    BY <1>4 DEF Cleanup, Stored
  <1>5. CASE LoadFromStore
    BY <1>5 DEF LoadFromStore, Stored
  <1>6. ASSUME NEW c \in Callers, Attach(c)
        PROVE  Stored(a) \/ agents[a].pid \in Pids
    BY <1>1, <1>2, <1>3, <1>6
       DEF Attach, Conflict, RemoveStop, RemoveUnlist, SameProcess, Rebind, ReloadHistory, Insert,
          StartWatcher
  <1>7. CASE AutoAttachExisting
    BY <1>1, <1>6, <1>7, Shape DEF AutoAttachExisting, AutoScan, AutoNext, AutoDone
  <1>8. CASE Periodic
    BY <1>1, <1>4, <1>6, <1>8, Shape DEF Periodic, PeriodicScan, PeriodicNext, Promote, CleanupDone
  <1>9. ASSUME NEW c \in Clients, Handler(c) \/ AgentAttach(c) \/ AgentRemove(c) \/ SessionAttach(c)
        PROVE  Stored(a) \/ agents[a].pid \in Pids
    BY <1>1, <1>6, <1>9, Shape DEF Handler, StartWatcherForAgent, AgentAttach, AgentRemove, SessionAttach
  <1>10. CASE Watchers
    BY <1>1, <1>10, SwitchUpdateStep DEF Watchers, Seed, SessionSwitch
  <1> QED
    BY <1>1, <1>5, <1>7, <1>8, <1>9, <1>10 DEF Next, Exit, Switch, vars

-----------------------------------------------------------------------------
(* Each part of the invariant, one kind of step after the other.             *)

\* What calls refer to stays right.
LEMMA CallingStep ==
  ASSUME Typed, Typed', Calling, OneStep, \A a \in Agents : Stored(a)' => Stored(a) \/ agents[a].pid \in Pids
  PROVE  Calling'
  <1> USE DEF Calling, Resting, Seeking, Holding, Removing
  <1>s. \A a \in Agents : Stored(a)' => agents[a].pid \in Pids
    BY Shape DEF AgentSet
  <1>t. \A a \in Agents : agents'[a].pid \in Pids \cup {0}
    <2>1. agents' \in [Agents -> AgentSet]
      BY DEF Typed, TypeOK, AgentSet
    <2> QED
      BY <2>1 DEF AgentSet
  <1>1. CASE Ages
    BY <1>1, <1>s, Shape DEF Ages, AllAlike, Alike
  <1>2. CASE Restarts
    BY <1>2, <1>s, <1>t, Shape DEF Restarts
  <1>3. ASSUME NEW c \in Callers, Rests(c)
        PROVE  Calling'
    BY <1>3, <1>s, Shape DEF Rests, Rest, Others, AllAlike, Alike
  <1>4. ASSUME NEW c \in Callers, Begins(c)
        PROVE  Calling'
    BY <1>4, <1>s, Shape DEF Begins, Others, AllAlike, Alike
  <1>5. ASSUME NEW c \in Callers, Releases(c)
        PROVE  Calling'
    BY <1>5, <1>s, Shape DEF Releases, Others, AllAlike, Alike
  <1>6. ASSUME NEW c \in Callers, Misses(c)
        PROVE  Calling'
    BY <1>6, <1>s, Shape DEF Misses, Others, AllAlike, Alike
  <1>7. ASSUME NEW c \in Callers, Continues(c)
        PROVE  Calling'
    <2>1. CASE Turn(c, "resume", "restart")
      BY <1>7, <2>1, <1>s, Shape DEF Continues, Turn, Others, AllAlike, Alike
    <2>2. CASE Turn(c, "save", "watch")
      BY <1>7, <2>2, <1>s, Shape DEF Continues, Turn, Others, AllAlike, Alike
    <2> QED
      BY <1>7, <2>1, <2>2 DEF Continues
  <1>8. ASSUME NEW c \in Callers, Unwatches(c)
        PROVE  Calling'
    BY <1>8, <1>s, Shape DEF Unwatches, Turn, Others, AlikeBut, Alike
  <1>9. ASSUME NEW c \in Callers, Unlists(c)
        PROVE  Calling'
    BY <1>9, <1>s, Shape DEF Unlists, Turn, Others, AlikeBut, Alike
  <1>10. ASSUME NEW c \in Callers, Drops(c)
         PROVE  Calling'
    BY <1>10, <1>s, Shape DEF Drops, Rest, Turn, Others
  <1>11. ASSUME NEW c \in Callers, Watches(c)
         PROVE  Calling'
    BY <1>11, <1>s, Shape DEF Watches, Rest, Others, AlikeBut, Alike
  <1>12. ASSUME NEW c \in Callers, NEW a \in Agents, Takes(c, a)
         PROVE  Calling'
    BY <1>12, <1>s, <1>t, Shape DEF Takes, Others, AllAlike, Alike
  <1>13. ASSUME NEW c \in Callers, NEW a \in Agents, Finds(c, a)
         PROVE  Calling'
    BY <1>13, <1>s, <1>t, Shape DEF Finds, Others, AllAlike, Alike
  <1>14. ASSUME NEW c \in Callers, NEW a \in Agents, Inserts(c, a)
         PROVE  Calling'
    BY <1>14, <1>s, Shape DEF Inserts, Others, AlikeBut, Alike
  <1>15. ASSUME NEW a \in Agents, Promotes(a)
         PROVE  Calling'
    BY <1>15, <1>s, <1>t, Shape DEF Promotes, AlikeBut, Alike
  <1> QED
    BY <1>1, <1>2, <1>3, <1>4, <1>5, <1>6, <1>7, <1>8, <1>9, <1>10, <1>11, <1>12, <1>13, <1>14,
       <1>15 DEF OneStep

\* The processes of the calls that do not move stay the same.
LEMMA OthersSubjects ==
  ASSUME Typed, Calling, NEW c \in Callers, Others(c),
         \A d \in Callers \ {c} : call[d].a # 0 => agents'[call[d].a].pid = agents[call[d].a].pid,
         NEW d \in Callers \ {c}
  PROVE  Subjects(d)' = Subjects(d)
  BY DEF Others, Subjects

\* Two calls stay apart if one moves and marks the process it adds.
LEMMA ApartMoves ==
  ASSUME Apart, NEW c \in Callers, overlap \subseteq overlap',
         \A d \in Callers \ {c} : Subjects(d)' = Subjects(d),
         \A p \in Subjects(c)' : p \in Subjects(c) \/ Marks(c, p)
  PROVE  Apart'
  <1> SUFFICES ASSUME NEW d \in Callers, NEW e \in Callers \ {d}, NEW p \in Subjects(d)' \cap Subjects(e)'
               PROVE  p \in overlap'
    BY DEF Apart
  <1>1. CASE d = c
    BY <1>1 DEF Apart, Marks
  <1>2. CASE e = c
    BY <1>2 DEF Apart, Marks
  <1>3. CASE d # c /\ e # c
    BY <1>3 DEF Apart
  <1> QED
    BY <1>1, <1>2, <1>3

\* What a call works on, in terms of what it holds.
LEMMA SubjectsOf ==
  ASSUME NEW c \in Callers
  PROVE  /\ \A p : p \in Subjects(c) <=> p # 0 /\ (p = call[c].info.pid \/ (call[c].a # 0 /\ p = agents[call[c].a].pid))
         /\ \A p : p \in Subjects(c)' <=> p # 0 /\ (p = call'[c].info.pid \/ (call'[c].a # 0 /\ p = agents'[call'[c].a].pid))
  BY DEF Subjects

\* Calls share only processes that overlap knows of.
LEMMA ApartStep ==
  ASSUME Typed, Calling, Apart, OneStep
  PROVE  Apart'
  <1>a. \A d \in Callers : call[d].a \in Agents \cup {0}
    <2>1. \A d \in Callers : call[d] \in CallSet
      BY Shape
    <2> QED
      BY <2>1 DEF CallSet
  <1>1. CASE Ages
    <2>1. \A d \in Callers : Subjects(d)' = Subjects(d)
      BY <1>a, <1>1, SubjectsOf DEF Ages, AllAlike, Alike
    <2> QED
      BY <1>1, <2>1 DEF Ages, Aging, Apart
  <1>2. CASE Restarts
    BY <1>2, SubjectsOf DEF Restarts, Apart
  <1>3. ASSUME NEW c \in Callers, Rests(c)
        PROVE  Apart'
    <2>1. \A d \in Callers \ {c} : Subjects(d)' = Subjects(d)
      BY <1>a, <1>3, OthersSubjects DEF Rests, Rest, AllAlike, Alike
    <2> QED
      BY <1>3, <2>1, SubjectsOf, ApartMoves DEF Rests, Rest, Aging
  <1>4. ASSUME NEW c \in Callers, Begins(c)
        PROVE  Apart'
    <2>1. \A d \in Callers \ {c} : Subjects(d)' = Subjects(d)
      BY <1>a, <1>4, OthersSubjects DEF Begins, AllAlike, Alike
    <2> QED
      BY <1>4, <2>1, SubjectsOf, ApartMoves DEF Begins, Aging
  <1>5. ASSUME NEW c \in Callers, Releases(c)
        PROVE  Apart'
    <2>1. \A d \in Callers \ {c} : Subjects(d)' = Subjects(d)
      BY <1>a, <1>5, OthersSubjects DEF Releases, AllAlike, Alike
    <2> QED
      BY <1>5, <2>1, SubjectsOf, ApartMoves DEF Releases, Aging
  <1>6. ASSUME NEW c \in Callers, Misses(c)
        PROVE  Apart'
    <2>1. \A d \in Callers \ {c} : Subjects(d)' = Subjects(d)
      BY <1>a, <1>6, OthersSubjects DEF Misses, AllAlike, Alike
    <2> QED
      BY <1>6, <2>1, SubjectsOf, ApartMoves DEF Misses, Aging
  <1>7. ASSUME NEW c \in Callers, Continues(c)
        PROVE  Apart'
    <2>1. \A d \in Callers \ {c} : Subjects(d)' = Subjects(d)
      BY <1>a, <1>7, OthersSubjects DEF Continues, Turn, AllAlike, Alike
    <2> QED
      BY <1>a, <1>7, <2>1, SubjectsOf, ApartMoves DEF Continues, Turn, Aging, AllAlike, Alike
  <1>8. ASSUME NEW c \in Callers, Unwatches(c)
        PROVE  Apart'
    <2>0. \A a \in Agents : agents'[a].pid = agents[a].pid
      BY <1>8 DEF Unwatches, AlikeBut, Alike
    <2>1. \A d \in Callers \ {c} : Subjects(d)' = Subjects(d)
      BY <1>a, <1>8, <2>0, OthersSubjects DEF Unwatches, Turn
    <2> QED
      BY <1>a, <1>8, <2>0, <2>1, SubjectsOf, ApartMoves DEF Unwatches, Turn, Aging
  <1>9. ASSUME NEW c \in Callers, Unlists(c)
        PROVE  Apart'
    <2>0. \A a \in Agents : agents'[a].pid = agents[a].pid
      BY <1>9 DEF Unlists, AlikeBut, Alike
    <2>1. \A d \in Callers \ {c} : Subjects(d)' = Subjects(d)
      BY <1>a, <1>9, <2>0, OthersSubjects DEF Unlists, Turn
    <2> QED
      BY <1>a, <1>9, <2>0, <2>1, SubjectsOf, ApartMoves DEF Unlists, Turn, Aging
  <1>10. ASSUME NEW c \in Callers, Drops(c)
         PROVE  Apart'
    <2>1. \A d \in Callers \ {c} : Subjects(d)' = Subjects(d)
      BY <1>a, <1>10, OthersSubjects DEF Drops, Rest, Turn
    <2> QED
      BY <1>a, <1>10, <2>1, SubjectsOf, ApartMoves DEF Drops, Rest, Turn, Aging
  <1>11. ASSUME NEW c \in Callers, Watches(c)
         PROVE  Apart'
    <2>0. \A a \in Agents : agents'[a].pid = agents[a].pid
      BY <1>11 DEF Watches, AlikeBut, Alike
    <2>1. \A d \in Callers \ {c} : Subjects(d)' = Subjects(d)
      BY <1>a, <1>11, <2>0, OthersSubjects DEF Watches, Rest
    <2> QED
      BY <1>11, <2>1, SubjectsOf, ApartMoves DEF Watches, Rest, Aging
  <1>12. ASSUME NEW c \in Callers, NEW a \in Agents, Takes(c, a)
         PROVE  Apart'
    <2>1. \A d \in Callers \ {c} : Subjects(d)' = Subjects(d)
      BY <1>a, <1>12, OthersSubjects DEF Takes, AllAlike, Alike
    <2> QED
      BY <1>12, <2>1, SubjectsOf, ApartMoves DEF Takes, Aging, AllAlike, Alike
  <1>13. ASSUME NEW c \in Callers, NEW a \in Agents, Finds(c, a)
         PROVE  Apart'
    <2>1. \A d \in Callers \ {c} : Subjects(d)' = Subjects(d)
      BY <1>a, <1>13, OthersSubjects DEF Finds, AllAlike, Alike
    <2> QED
      BY <1>13, <2>1, SubjectsOf, ApartMoves DEF Finds, Aging, AllAlike, Alike
  <1>14. ASSUME NEW c \in Callers, NEW a \in Agents, Inserts(c, a)
         PROVE  Apart'
    <2>1. \A d \in Callers \ {c} : Subjects(d)' = Subjects(d)
      BY <1>a, <1>14, OthersSubjects DEF Inserts, AlikeBut, Alike
    <2> QED
      BY <1>14, <2>1, SubjectsOf, ApartMoves DEF Inserts, Aging
  <1>15. ASSUME NEW a \in Agents, Promotes(a)
         PROVE  Apart'
    <2>1. \A b \in Agents : agents'[b].pid = agents[b].pid
      BY <1>15 DEF Promotes, AlikeBut, Alike
    <2>2. \A d \in Callers : Subjects(d)' = Subjects(d)
      BY <1>a, <1>15, <2>1 DEF Promotes, Subjects
    <2> QED
      BY <1>15, <2>2 DEF Promotes, Apart, Aging
  <1> QED
    BY <1>1, <1>2, <1>3, <1>4, <1>5, <1>6, <1>7, <1>8, <1>9, <1>10, <1>11, <1>12, <1>13, <1>14,
       <1>15 DEF OneStep

\* A step that registers nobody and sets out to insert only what is missing.
LEMMA SingleKept ==
  ASSUME Single, overlap \subseteq overlap',
         \A a \in Agents : agents'[a].pid = agents[a].pid /\ (agents'[a].listed => agents[a].listed),
         \A c \in Callers : call'[c].pc \in {"owners", "insert"} =>
            /\ call'[c].info = call[c].info
            /\ \/ call[c].pc \in {"owners", "insert"}
               \/ \A a \in Listed : agents[a].pid # call[c].info.pid
  PROVE  Single'
  BY DEF Single, Listed

\* A process gets an agent only if it has none, or two calls worked on it.
LEMMA SingleStep ==
  ASSUME Typed, Calling, Apart, Single, OneStep
  PROVE  Single'
  <1> USE DEF Aging
  <1>1. CASE Ages
    BY <1>1, SingleKept DEF Ages, AllAlike, Alike
  <1>2. CASE Restarts
    BY <1>2 DEF Restarts, Single, Listed, Resting
  <1>3. ASSUME NEW c \in Callers, Rests(c)
        PROVE  Single'
    BY <1>3, SingleKept DEF Rests, Rest, Others, Resting, AllAlike, Alike
  <1>4. ASSUME NEW c \in Callers, Begins(c)
        PROVE  Single'
    BY <1>4, SingleKept DEF Begins, Others, AllAlike, Alike
  <1>5. ASSUME NEW c \in Callers, Releases(c)
        PROVE  Single'
    BY <1>5, SingleKept DEF Releases, Others, AllAlike, Alike
  <1>6. ASSUME NEW c \in Callers, Misses(c)
        PROVE  Single'
    BY <1>6, SingleKept DEF Misses, Others, AllAlike, Alike
  <1>7. ASSUME NEW c \in Callers, Continues(c)
        PROVE  Single'
    BY <1>7, SingleKept DEF Continues, Turn, Others, AllAlike, Alike
  <1>8. ASSUME NEW c \in Callers, Unwatches(c)
        PROVE  Single'
    BY <1>8, SingleKept DEF Unwatches, Turn, Others, AlikeBut, Alike
  <1>9. ASSUME NEW c \in Callers, Unlists(c)
        PROVE  Single'
    BY <1>9, SingleKept DEF Unlists, Turn, Others, AlikeBut, Alike
  <1>10. ASSUME NEW c \in Callers, Drops(c)
         PROVE  Single'
    BY <1>10, SingleKept DEF Drops, Rest, Turn, Others, Resting
  <1>11. ASSUME NEW c \in Callers, Watches(c)
         PROVE  Single'
    BY <1>11, SingleKept DEF Watches, Rest, Others, Resting, AlikeBut, Alike
  <1>12. ASSUME NEW c \in Callers, NEW a \in Agents, Takes(c, a)
         PROVE  Single'
    BY <1>12, SingleKept DEF Takes, Others, AllAlike, Alike
  <1>13. ASSUME NEW c \in Callers, NEW a \in Agents, Finds(c, a)
         PROVE  Single'
    BY <1>13, SingleKept DEF Finds, Others, AllAlike, Alike
  <1>14. ASSUME NEW c \in Callers, NEW a \in Agents, Inserts(c, a)
         PROVE  Single'
    <2> DEFINE p == call[c].info.pid
    <2>1. p \in Pids /\ (p \notin overlap => \A b \in Listed : agents[b].pid # p)
      BY <1>14 DEF Inserts, Calling, Seeking, Single
    <2>2. \A b \in Agents \ {a} : agents'[b].pid = agents[b].pid /\ agents'[b].listed = agents[b].listed
      BY <1>14 DEF Inserts, AlikeBut, Alike
    <2>3. overlap \subseteq overlap' /\ agents'[a].pid = p
      BY <1>14 DEF Inserts
    <2>4. ASSUME NEW d \in Callers \ {c}, call[d].info.pid = p
          PROVE  p \in overlap
      BY <2>1, <2>4, SubjectsOf, Shape DEF Apart
    <2>5. ASSUME NEW b \in Agents, NEW e \in Agents, b # e, agents'[b].listed, agents'[e].listed,
                 agents'[b].pid = agents'[e].pid
          PROVE  agents'[b].pid \in overlap'
      <3>1. CASE b # a /\ e # a
        BY <2>2, <2>3, <2>5, <3>1 DEF Single, Listed
      <3>2. CASE b = a \/ e = a
        BY <2>1, <2>2, <2>3, <2>5, <3>2 DEF Listed
      <3> QED
        BY <3>1, <3>2
    <2>6. ASSUME NEW d \in Callers, call'[d].pc \in {"owners", "insert"}, call'[d].info.pid \notin overlap',
                 NEW b \in Agents, agents'[b].listed
          PROVE  agents'[b].pid # call'[d].info.pid
      <3>1. d # c /\ call'[d] = call[d]
        BY <1>14, <2>6 DEF Inserts, Others
      <3>2. CASE b = a
        BY <2>3, <2>4, <2>6, <3>1, <3>2
      <3>3. CASE b # a
        BY <2>2, <2>3, <2>6, <3>1, <3>3 DEF Single, Listed
      <3> QED
        BY <3>2, <3>3
    <2> QED
      BY <2>5, <2>6 DEF Single, Listed
  <1>15. ASSUME NEW a \in Agents, Promotes(a)
         PROVE  Single'
    BY <1>15, SingleKept DEF Promotes, AlikeBut, Alike
  <1> QED
    BY <1>1, <1>2, <1>3, <1>4, <1>5, <1>6, <1>7, <1>8, <1>9, <1>10, <1>11, <1>12, <1>13, <1>14,
       <1>15 DEF OneStep

\* Neither death nor having been shared is undone.
LEMMA GoneStays ==
  ASSUME Aging, NEW p \in Pids, Gone(p)
  PROVE  Gone(p)'
  BY DEF Aging, Gone, Alive

\* An agent that two calls refer to is of a process that they share.
LEMMA SharedAgent ==
  ASSUME Typed, Calling, Apart, NEW c \in Callers, NEW d \in Callers \ {c},
         call[c].a \in Agents, call[d].a = call[c].a, agents[call[c].a].pid \in Pids
  PROVE  agents[call[c].a].pid \in overlap
  BY SubjectsOf, Shape DEF Apart

\* The agent of a call that has one is of some process.
LEMMA HeldPid ==
  ASSUME Typed, Calling
  PROVE  /\ \A c \in Callers : call[c].pc \in Holding \cup Removing =>
               call[c].a \in Agents /\ agents[call[c].a].pid \in Pids
         /\ \A a \in Agents : agents[a].listed \/ agents[a].stray \/ agents[a].watch # "off" =>
               agents[a].pid \in Pids
  <1>1. \A a \in Agents : agents[a].pid \in Pids \cup {0}
    <2>1. \A a \in Agents : agents[a] \in AgentSet
      BY Shape
    <2> QED
      BY <2>1 DEF AgentSet
  <1> QED
    BY <1>1, Shape DEF Calling

\* The parts of Tidy: of one agent, and of one call.
Clean(a) == agents[a].stray \/ (~agents[a].listed /\ agents[a].watch # "off") => Gone(agents[a].pid)
Ready(c) ==
    /\ call[c].pc \in Holding \cup {"follow"} => agents[call[c].a].listed \/ Gone(agents[call[c].a].pid)
    /\ call[c].pc \in {"save", "watch", "unlist"} =>
          agents[call[c].a].watch = "off" \/ Gone(agents[call[c].a].pid)

\* They are its parts.
LEMMA TidyParts ==
  /\ Tidy => (\A a \in Agents : Clean(a)) /\ (\A c \in Callers : Ready(c))
  /\ (\A a \in Agents : Clean(a)') /\ (\A c \in Callers : Ready(c)') => Tidy'
  BY DEF Tidy, Clean, Ready

\* An agent that a step leaves alike stays clean.
LEMMA CleanKept ==
  ASSUME Typed, Calling, Tidy, Aging, NEW a \in Agents, Alike(a)
  PROVE  Clean(a)'
  BY HeldPid, TidyParts, GoneStays DEF Clean, Alike

\* A call that a step leaves alone, and whose agent it leaves alike, stays ready.
LEMMA ReadyKept ==
  ASSUME Typed, Calling, Tidy, Aging, NEW c \in Callers, call'[c] = call[c],
         call[c].pc \in Holding \cup Removing => Alike(call[c].a)
  PROVE  Ready(c)'
  BY HeldPid, TidyParts, GoneStays DEF Ready, Alike, Removing, Holding

\* So does one whose agent it shares with the call that moves.
LEMMA ReadyShared ==
  ASSUME Typed, Calling, Apart, Aging, NEW c \in Callers, NEW d \in Callers \ {c},
         call[c].pc \in Holding \cup Removing, call[d].pc \in Holding \cup Removing,
         call[d].a = call[c].a, call'[d] = call[d], agents'[call[c].a].pid = agents[call[c].a].pid
  PROVE  Ready(d)'
  BY HeldPid, SharedAgent DEF Ready, Aging, Gone

\* A call that is nowhere near an agent is ready.
LEMMA ReadyAtRest ==
  ASSUME NEW c \in Callers, call'[c].pc \in Resting \cup Seeking \cup {"stop"}
  PROVE  Ready(c)'
  BY DEF Ready, Resting, Seeking, Holding

\* A step that leaves every agent alike disturbs only the call that moves.
LEMMA TidyAlike ==
  ASSUME Typed, Calling, Tidy, Aging, AllAlike, NEW c \in Callers, Others(c), Ready(c)'
  PROVE  Tidy'
  <1>1. \A a \in Agents : Clean(a)'
    BY CleanKept DEF AllAlike
  <1>2. \A d \in Callers \ {c} : Ready(d)'
    BY ReadyKept, HeldPid DEF AllAlike, Others
  <1> QED
    BY <1>1, <1>2, TidyParts

\* A step of call c that disturbs its own agent only.
LEMMA TidyBut ==
  ASSUME Typed, Calling, Apart, Tidy, Aging, NEW c \in Callers, Others(c),
         call[c].pc \in Holding \cup Removing, NEW a \in Agents, call[c].a = a, AlikeBut(a),
         agents'[a].pid = agents[a].pid, Clean(a)', Ready(c)'
  PROVE  Tidy'
  <1>1. \A b \in Agents : Clean(b)'
    BY CleanKept DEF AlikeBut
  <1>2. ASSUME NEW d \in Callers \ {c}
        PROVE  Ready(d)'
    <2>1. call'[d] = call[d]
      BY DEF Others
    <2>2. CASE call[d].pc \in Holding \cup Removing /\ call[d].a = call[c].a
      BY <2>1, <2>2, ReadyShared
    <2>3. CASE call[d].pc \in Holding \cup Removing /\ call[d].a # call[c].a
      BY <2>1, <2>3, ReadyKept, HeldPid DEF AlikeBut
    <2>4. CASE call[d].pc \notin Holding \cup Removing
      BY <2>1, <2>4, ReadyKept
    <2> QED
      BY <2>2, <2>3, <2>4
  <1> QED
    BY <1>1, <1>2, TidyParts

\* No watcher outlives its agent, and none is started beside another, unless shared.
LEMMA TidyStep ==
  ASSUME Typed, Calling, Apart, Tidy, OneStep
  PROVE  Tidy'
  <1>1. CASE Ages
    <2>1. \A a \in Agents : Clean(a)'
      BY <1>1, CleanKept DEF Ages, AllAlike
    <2>2. \A d \in Callers : Ready(d)'
      BY <1>1, ReadyKept, HeldPid DEF Ages, AllAlike
    <2> QED
      BY <2>1, <2>2, TidyParts
  <1>2. CASE Restarts
    BY <1>2, ReadyAtRest, TidyParts DEF Restarts, Clean
  <1>3. ASSUME NEW c \in Callers, Rests(c)
        PROVE  Tidy'
    BY <1>3, TidyAlike, ReadyAtRest DEF Rests, Rest
  <1>4. ASSUME NEW c \in Callers, Begins(c)
        PROVE  Tidy'
    BY <1>4, TidyAlike, ReadyAtRest DEF Begins, Seeking
  <1>5. ASSUME NEW c \in Callers, Releases(c)
        PROVE  Tidy'
    BY <1>5, TidyAlike, ReadyAtRest DEF Releases, Seeking
  <1>6. ASSUME NEW c \in Callers, Misses(c)
        PROVE  Tidy'
    BY <1>6, TidyAlike, ReadyAtRest DEF Misses, Seeking
  <1>7. ASSUME NEW c \in Callers, Continues(c)
        PROVE  Tidy'
    <2>1. Aging /\ AllAlike /\ Others(c)
      BY <1>7 DEF Continues, Turn
    <2>2. call[c].pc \in {"resume", "save"}
      BY <1>7 DEF Continues, Turn
    <2>3. call[c].a \in Agents /\ agents[call[c].a].pid \in Pids
      BY <2>2, HeldPid DEF Holding
    <2>4. Ready(c)
      BY TidyParts
    <2>5. Ready(c)'
      <3>1. CASE Turn(c, "resume", "restart")
        BY <2>1, <2>3, <2>4, <3>1, GoneStays DEF Ready, Turn, Holding, AllAlike, Alike
      <3>2. CASE Turn(c, "save", "watch")
        BY <2>1, <2>3, <2>4, <3>2, GoneStays DEF Ready, Turn, Holding, AllAlike, Alike
      <3> QED
        BY <1>7, <3>1, <3>2 DEF Continues
    <2> QED
      BY <2>1, <2>5, TidyAlike
  <1>8. ASSUME NEW c \in Callers, Unwatches(c)
        PROVE  Tidy'
    <2>0. call[c].pc \in Holding \cup Removing
      BY <1>8 DEF Unwatches, Turn, Holding, Removing
    <2>a. PICK a \in Agents : a = call[c].a
      BY <2>0, HeldPid
    <2>1. Aging /\ AlikeBut(a) /\ Others(c)
      BY <1>8, <2>a DEF Unwatches, Turn
    <2>2. call[c].pc \in {"stop", "rebind", "restart"} /\ call'[c].pc \in {"unlist", "resume", "watch"}
          /\ call'[c].a = a /\ (call'[c].pc # "unlist" => call[c].pc \in {"rebind", "restart"})
      BY <1>8, <2>a DEF Unwatches, Turn
    <2>3. call[c].pc \in Holding \cup Removing /\ a \in Agents /\ agents[a].pid \in Pids
      BY <2>0, <2>a, HeldPid
    <2>4. /\ agents'[a].pid = agents[a].pid /\ agents'[a].listed = agents[a].listed
          /\ agents'[a].stray = agents[a].stray /\ agents'[a].watch = "off"
      BY <1>8, <2>a DEF Unwatches
    <2>5. Ready(c) /\ Clean(a)
      BY <2>3, TidyParts
    <2>6. Clean(a)'
      BY <2>1, <2>3, <2>4, <2>5, <2>a, GoneStays DEF Clean
    <2>7. Ready(c)'
      BY <2>a, <2>1, <2>2, <2>3, <2>4, <2>5, GoneStays DEF Ready, Holding
    <2> QED
      BY <2>1, <2>3, <2>4, <2>6, <2>7, <2>a, TidyBut
  <1>9. ASSUME NEW c \in Callers, Unlists(c)
        PROVE  Tidy'
    <2>0. call[c].pc \in Holding \cup Removing
      BY <1>9 DEF Unlists, Turn, Holding, Removing
    <2>a. PICK a \in Agents : a = call[c].a
      BY <2>0, HeldPid
    <2>1. Aging /\ AlikeBut(a) /\ Others(c)
      BY <1>9, <2>a DEF Unlists, Turn
    <2>2. call[c].pc = "unlist" /\ call'[c].pc = "delete"
      BY <1>9, <2>a DEF Unlists, Turn
    <2>3. call[c].pc \in Holding \cup Removing /\ a \in Agents /\ agents[a].pid \in Pids
      BY <2>0, <2>a, HeldPid
    <2>4. /\ agents'[a].pid = agents[a].pid
          /\ agents'[a].stray = agents[a].stray /\ agents'[a].watch = agents[a].watch
      BY <1>9, <2>a DEF Unlists
    <2>5. Ready(c) /\ Clean(a)
      BY <2>3, TidyParts
    <2>6. Clean(a)'
      BY <2>a, <2>1, <2>2, <2>3, <2>4, <2>5, GoneStays DEF Clean, Ready
    <2>7. Ready(c)'
      BY <2>2 DEF Ready, Holding
    <2> QED
      BY <2>1, <2>3, <2>4, <2>6, <2>7, <2>a, TidyBut
  <1>10. ASSUME NEW c \in Callers, Drops(c)
         PROVE  Tidy'
    <2>1. Aging /\ Others(c)
      BY <1>10 DEF Drops, Rest, Turn
    <2>2. Ready(c)'
      BY <1>10, ReadyAtRest DEF Drops, Rest, Turn, Seeking
    <2>3. \A a \in Agents :
             /\ agents'[a].pid = agents[a].pid
             /\ agents'[a].stray = agents[a].stray /\ agents'[a].watch = agents[a].watch
             /\ agents[a].listed /\ ~agents'[a].listed => ~Alive(agents[a].pid)
      BY <1>10 DEF Drops
    <2>4. ASSUME NEW a \in Agents
          PROVE  Clean(a)'
      <3>1. Clean(a) /\ (agents[a].listed => agents[a].pid \in Pids)
                     /\ (agents[a].stray \/ agents[a].watch # "off" => agents[a].pid \in Pids)
        BY HeldPid, TidyParts
      <3> QED
        BY <2>1, <2>3, <3>1, GoneStays DEF Clean, Gone
    <2>5. ASSUME NEW d \in Callers \ {c}
          PROVE  Ready(d)'
      <3>1. call'[d] = call[d] /\ Ready(d)
        BY <2>1, TidyParts DEF Others
      <3>2. CASE call[d].pc \in Holding \cup Removing
        <4>1. PICK a \in Agents : a = call[d].a /\ agents[a].pid \in Pids
          BY <3>2, HeldPid
        <4> QED
          BY <2>1, <2>3, <3>1, <4>1, GoneStays DEF Ready, Gone
      <3>3. CASE call[d].pc \notin Holding \cup Removing
        BY <2>1, <3>1, <3>3, ReadyKept
      <3> QED
        BY <3>2, <3>3
    <2> QED
      BY <2>2, <2>4, <2>5, TidyParts
  <1>11. ASSUME NEW c \in Callers, Watches(c)
         PROVE  Tidy'
    <2>0. call[c].pc \in Holding \cup Removing
      BY <1>11 DEF Watches, Turn, Holding, Removing
    <2>a. PICK a \in Agents : a = call[c].a
      BY <2>0, HeldPid
    <2>1. Aging /\ AlikeBut(a) /\ Others(c)
      BY <1>11, <2>a DEF Watches, Rest
    <2>2. call[c].pc \in {"watch", "follow"} /\ call'[c].pc \in Resting
      BY <1>11, <2>a DEF Watches, Rest
    <2>3. call[c].pc \in Holding \cup Removing /\ a \in Agents /\ agents[a].pid \in Pids
      BY <2>0, <2>a, HeldPid
    <2>4. /\ agents'[a].pid = agents[a].pid /\ agents'[a].listed = agents[a].listed
          /\ agents'[a].stray => agents[a].stray \/ (call[c].pc = "watch" /\ agents[a].watch # "off")
      BY <1>11, <2>a DEF Watches
    <2>5. Ready(c) /\ Clean(a)
      BY <2>3, TidyParts
    <2>6. Clean(a)'
      BY <2>a, <2>1, <2>2, <2>3, <2>4, <2>5, GoneStays DEF Clean, Ready, Holding
    <2>7. Ready(c)'
      BY <2>2, ReadyAtRest
    <2> QED
      BY <2>1, <2>3, <2>4, <2>6, <2>7, <2>a, TidyBut
  <1>12. ASSUME NEW c \in Callers, NEW a \in Agents, Takes(c, a)
         PROVE  Tidy'
    <2>1. Ready(c)'
      BY <1>12 DEF Takes, Ready, Holding, AllAlike, Alike
    <2> QED
      BY <1>12, <2>1, TidyAlike DEF Takes
  <1>13. ASSUME NEW c \in Callers, NEW a \in Agents, Finds(c, a)
         PROVE  Tidy'
    <2>1. Ready(c)'
      BY <1>13 DEF Finds, Ready, Holding, AllAlike, Alike
    <2> QED
      BY <1>13, <2>1, TidyAlike DEF Finds
  <1>14. ASSUME NEW c \in Callers, NEW a \in Agents, Inserts(c, a)
         PROVE  Tidy'
    <2>1. Aging /\ AlikeBut(a) /\ Others(c)
      BY <1>14 DEF Inserts
    <2>2. \A b \in Agents : Clean(b)'
      BY <1>14, <2>1, CleanKept DEF Inserts, AlikeBut, Clean
    <2>3. Ready(c)'
      BY <1>14 DEF Inserts, Ready
    <2>4. \A d \in Callers \ {c} : Ready(d)'
      BY <1>14, <2>1, ReadyKept, HeldPid DEF Inserts, AlikeBut, Others
    <2> QED
      BY <2>2, <2>3, <2>4, TidyParts
  <1>15. ASSUME NEW a \in Agents, Promotes(a)
         PROVE  Tidy'
    <2>1. Aging /\ AlikeBut(a) /\ call' = call
      BY <1>15 DEF Promotes
    <2>2. agents[a].listed /\ agents[a].pid \in Pids /\ Clean(a)
      BY <1>15, HeldPid, TidyParts DEF Promotes
    <2>3. \A b \in Agents : Clean(b)'
      <3>1. Clean(a)'
        BY <1>15, <2>1, <2>2, GoneStays DEF Promotes, Clean
      <3> QED
        BY <2>1, <3>1, CleanKept DEF AlikeBut
    <2>4. ASSUME NEW d \in Callers
          PROVE  Ready(d)'
      <3>1. CASE call[d].pc \in Holding \cup Removing /\ call[d].a = a
        <4>1. d # "scan" /\ a # 0 /\ "scan" \in Callers
          BY <1>15, <3>1, Shape DEF Promotes, Holding, Removing
        <4>2. agents[a].pid \in Subjects(d)
          BY <2>2, <3>1, <4>1, SubjectsOf, Shape
        <4>3. agents[a].pid \in overlap' /\ agents'[a].pid = agents[a].pid
          BY <1>15, <4>1, <4>2 DEF Promotes, Marks
        <4> QED
          BY <2>1, <3>1, <4>3 DEF Ready, Gone
      <3>2. CASE call[d].pc \in Holding \cup Removing /\ call[d].a # a
        BY <2>1, <3>2, ReadyKept, HeldPid DEF AlikeBut
      <3>3. CASE call[d].pc \notin Holding \cup Removing
        BY <2>1, <3>3, ReadyKept
      <3> QED
        BY <3>1, <3>2, <3>3
    <2> QED
      BY <2>3, <2>4, TidyParts
  <1> QED
    BY <1>1, <1>2, <1>3, <1>4, <1>5, <1>6, <1>7, <1>8, <1>9, <1>10, <1>11, <1>12, <1>13, <1>14,
       <1>15 DEF OneStep

-----------------------------------------------------------------------------
(* The theorems.                                                             *)

\* When agentd starts there are no agents, and no call has begun.
LEMMA InitInv ==
  ASSUME Init
  PROVE  IInv
  <1> DEFINE boot == [Idle EXCEPT !.pc = "boot"]
  <1>1. boot \in CallSet /\ boot.pc \in Resting /\ boot.info.pid = 0 /\ boot.a = 0
    BY IdleIsCall DEF CallSet, Resting
  <1>2. call = [c \in Callers |-> IF c = "auto" THEN boot ELSE Idle]
    BY DEF Init
  <1> HIDE DEF boot
  <1>3. \A c \in Callers : call[c] \in CallSet /\ call[c].pc \in Resting /\ call[c].info.pid = 0 /\ call[c].a = 0
    BY <1>1, <1>2, IdleIsCall DEF Resting
  <1>4. call \in [Callers -> CallSet]
    <2>1. \A c \in Callers : (IF c = "auto" THEN boot ELSE Idle) \in CallSet
      BY <1>1, IdleIsCall
    <2> QED
      BY <1>2, <2>1
  <1>5. os \in [Pids -> [alive : BOOLEAN, session : Maybe, tmux : BOOLEAN]]
    <2>1. PICK w \in Worlds : os = w.os
      BY DEF Init
    <2>2. os \in [Pids -> [alive : {TRUE}, session : Maybe, tmux : BOOLEAN]]
      BY <2>1, RegistryAssumption
    <2> QED
      BY <2>2
  <1>6. Unborn \in AgentSet
    BY DEF Unborn, AgentSet, Maybe
  <1>h. NoHop \in [a : Agents \cup {0}, to : Maybe]
    BY DEF NoHop, Maybe
  <1>7. Typed
    BY <1>4, <1>5, <1>6, <1>h DEF Init, Typed, TypeOK, AgentSet
  <1>8. \A a \in Agents : ~agents[a].listed /\ ~agents[a].stray /\ agents[a].watch = "off" /\ ~Stored(a)
    BY DEF Init, Unborn, Stored
  <1>9. Calling
    BY <1>3, <1>8 DEF Calling, Resting, Seeking, Holding, Removing
  <1>10. Apart
    BY <1>3, SubjectsOf DEF Apart
  <1>11. Single
    BY <1>3, <1>8 DEF Single, Listed, Resting
  <1>12. Tidy
    BY <1>3, <1>8 DEF Tidy, Resting, Holding
  <1> QED
    BY <1>7, <1>9, <1>10, <1>11, <1>12 DEF IInv

\* Every step keeps the invariant.
LEMMA NextInv ==
  ASSUME IInv, [Next]_vars
  PROVE  IInv'
  <1>1. Typed' /\ OneStep
    BY StepKinds DEF IInv
  <1>2. \A a \in Agents : Stored(a)' => Stored(a) \/ agents[a].pid \in Pids
    BY RowsStep DEF IInv
  <1> QED
    BY <1>1, <1>2, CallingStep, ApartStep, SingleStep, TidyStep DEF IInv

\* The inductive invariant holds, whatever runs on the machine and however many clients.
THEOREM Invariance == Spec => []IInv
  <1>1. Init => IInv
    BY InitInv
  <1>2. IInv /\ [Next]_vars => IInv'
    BY NextInv
  <1> QED
    BY <1>1, <1>2, PTL DEF Spec

\* The variables keep their types.
THEOREM TypeCorrect == Spec => []TypeOK
  <1>1. IInv => TypeOK
    BY DEF IInv, Typed
  <1> QED
    BY <1>1, Invariance, PTL

\* Attach, the scans and LoadFromStore give a process one agent, unless two calls worked on it
\* at once.
THEOREM OneEach == Spec => []OneAgentPerProcess
  <1>1. IInv => OneAgentPerProcess
    BY DEF IInv, Typed, Single, OneAgentPerProcess
  <1> QED
    BY <1>1, Invariance, PTL

\* A watcher no agent refers to, because another was started in its place or its agent was
\* removed, belongs to a process that has ended or that two calls worked on at once.
THEOREM WatchersOwned == Spec => []NoStrayWatcher
  <1>1. IInv => NoStrayWatcher
    BY DEF IInv, Tidy, Gone, NoStrayWatcher
  <1> QED
    BY <1>1, Invariance, PTL
=============================================================================

---------------------------- MODULE SessionMatch ----------------------------
(***************************************************************************)
(* agentd/internal/scanner (scanner.go, content_match.go,                  *)
(* session_activity.go) and the session refresh of watcher/claude.go: how  *)
(* agentd finds out which transcript belongs to a process it did not       *)
(* start.  A scan asks one source after the other - Claude's own file of   *)
(* sessions by PID, open task files, the transcripts of the project        *)
(* directory, and at last which of them the process's tmux pane shows,     *)
(* whose answer it caches.  Meanwhile the process may move to another      *)
(* session, and its watcher may notice, switch and clear that cache.       *)
(* Durations are in ticks.                                                 *)
(***************************************************************************)
EXTENDS Naturals, Sequences, FiniteSets, FiniteSetsExt, SequencesExt

CONSTANTS
    Sessions,       \* sessions with a transcript, now or later
    ElsewhereDir,   \* those whose transcript lies in another project directory
    Stages,         \* candidates compared at first, then, and at most (5, 12, 20)
    Scores,         \* scores a pane gives a transcript, doubled to be integers
    StrongTTL,      \* contentMatchCacheTTL
    WeakTTL,        \* contentMatchWeakCacheTTL
    RefreshEvery,   \* a watcher looks for another session this often at most
    StaleAfter,     \* a transcript not written for this long is stale
    MaxTime,        \* bound on time
    MaxMoves        \* bound on session switches, exits and writes of others

None  == "none"
Maybe == Sessions \cup {None}
Never == 0          \* the activity of a transcript that does not exist
Start == 2          \* when the watcher starts

ASSUME MatchAssumption ==
    /\ IsFiniteSet(Sessions) /\ None \notin Sessions /\ ElsewhereDir \subseteq Sessions
    /\ {StrongTTL, WeakTTL, RefreshEvery} \subseteq Nat \ {0} /\ WeakTTL < StrongTTL
    /\ {StaleAfter, MaxTime, MaxMoves} \subseteq Nat /\ MaxTime >= Start
    /\ Scores \subseteq Nat /\ 0 \in Scores
    /\ Stages \in Seq(Nat \ {0}) /\ Stages # <<>>
    /\ \A i, j \in DOMAIN Stages : i <= j => Stages[i] <= Stages[j]
MinScore == 4       \* contentMatchMinScore, doubled

VARIABLES
    now,
    provider,   \* "claude", "codex" or "opencode"
    tmux,       \* the process runs in a tmux pane
    maps,       \* this Claude keeps ~/.claude/sessions/<PID>.json
    alive,
    session,    \* the session the process is in
    fds,        \* the sessions whose task files it has open
    active,     \* when each transcript was last written
    cache,      \* contentMatchCache: candidates and forced ones -> result, expiry
    scan,       \* what the scanning goroutine is doing
    watch,      \* the watcher of the process's agent
    since,      \* when what a scan might truthfully report of the process last changed
    moves

vars == <<now, provider, tmux, maps, alive, session, fds, active, cache, scan, watch, since, moves>>
env  == <<provider, tmux, maps, alive, session, fds, active, moves>>

Exists(s)  == active[s] # Never
Files      == {s \in Sessions : Exists(s)}
ProjectDir == Files \ ElsewhereDir

\* What is true of a process is its session and the task files it has open.  A
\* scan can find no more while the session has no transcript where it is sought.
Plausible(s) == s = session \/ s \in fds \/ session \notin ProjectDir

-----------------------------------------------------------------------------
(* Scoring.                                                                  *)

\* Candidates most recently active first, or nearest to the pane's activity.
Distance(act, pane, s) == IF pane > act[s] THEN pane - act[s] ELSE act[s] - pane
Before(act, pane, s, t) ==
    IF pane = Never THEN act[s] >= act[t]
    ELSE \/ Distance(act, pane, s) < Distance(act, pane, t)
         \/ Distance(act, pane, s) = Distance(act, pane, t) /\ act[s] >= act[t]
Sorted(S, act, pane) ==
    {q \in SetToSeqs(S) : \A i, j \in DOMAIN q : i < j => Before(act, pane, q[i], q[j])}

\* marginRatio is at least percent.
Margin(best, second, percent) == best > 0 /\ (best - second) * 100 >= percent * best

Nothing == [best |-> 0, second |-> 0, winner |-> None, tied |-> FALSE, seen |-> {}]

\* Mutant: a later, better candidate leaves the mark of a tie.
ConsiderTied(m, s, score, act) ==
    LET new == [m EXCEPT !.seen = @ \cup {s}]
    IN IF score > m.best THEN [new EXCEPT !.second = m.best, !.best = score, !.winner = s]
       ELSE IF score = m.best /\ m.winner # None
       THEN [new EXCEPT !.tied = TRUE, !.second = score,
                        !.winner = IF act[s] > act[m.winner] THEN s ELSE @]
       ELSE [new EXCEPT !.second = IF score > @ THEN score ELSE @]

\* considerScore: a tie goes to the transcript written last.
Consider(m, s, score, act) ==
    LET new == [m EXCEPT !.seen = @ \cup {s}]
    IN IF score > m.best
       THEN [new EXCEPT !.second = m.best, !.best = score, !.winner = s, !.tied = FALSE]
       ELSE IF score = m.best /\ m.winner # None
       THEN [new EXCEPT !.tied = TRUE, !.second = score,
                        !.winner = IF act[s] > act[m.winner] THEN s ELSE @]
       ELSE [new EXCEPT !.second = IF score > @ THEN score ELSE @]

Least(m, n) == IF m < n THEN m ELSE n

\* One stage: the first n candidates and then the forced ones, unless already compared.
Staged(m, n, cands, forced, look, act) ==
    LET upto    == Least(n, Len(cands))
        turn(i) == IF i <= upto THEN cands[i] ELSE cands[i - upto]
        after[i \in 0..upto + Len(cands)] ==
            IF i = 0 THEN m
            ELSE IF turn(i) \in after[i - 1].seen \/ (i > upto /\ turn(i) \notin forced)
            THEN after[i - 1]
            ELSE Consider(after[i - 1], turn(i), look[turn(i)], act)
    IN after
Stage(m, n, cands, forced, look, act) ==
    Staged(m, n, cands, forced, look, act)[Least(n, Len(cands)) + Len(cands)]

Decided(m) == m.best >= MinScore /\ Margin(m.best, m.second, 30)

\* contentMatchSessionByPaneText: stages until one decides; a tie is accepted.
Matching(cands, forced, look, act) ==
    LET after[i \in 0..Len(Stages)] ==
            IF i = 0 THEN Nothing
            ELSE IF Decided(after[i - 1]) THEN after[i - 1]
            ELSE Stage(after[i - 1], Stages[i], cands, forced, look, act)
    IN after
ContentMatch(cands, forced, look, act) == Matching(cands, forced, look, act)[Len(Stages)]
Accepted(m) == m.best >= MinScore /\ (m.tied \/ Margin(m.best, m.second, 30))
Strong(m)   == Accepted(m) /\ ~m.tied /\ Margin(m.best, m.second, 50)

\* What it is to compute, said without the loop: among the candidates compared, the
\* highest score wins, the later transcript among equals; one alone must be ahead.
Foremost(n, cands, forced) ==
    {cands[i] : i \in 1..Least(n, Len(cands))} \cup (forced \cap Range(cands))
Clear(S, look) ==
    \E s \in S : look[s] >= MinScore /\ \A t \in S \ {s} : Margin(look[s], look[t], 30)
Compared(cands, forced, look) ==
    LET ends == {i \in DOMAIN Stages : Clear(Foremost(Stages[i], cands, forced), look)}
    IN Foremost(Stages[IF ends = {} THEN Len(Stages) ELSE Min(ends)], cands, forced)
BestMatches(cands, forced, look, act) ==
    LET S == Compared(cands, forced, look)
        top == {s \in S : \A t \in S : look[t] <= look[s]}
    IN {s \in top : /\ look[s] >= MinScore
                    /\ \A t \in top : act[t] <= act[s]
                    /\ top = {s} => \A t \in S \ {s} : Margin(look[s], look[t], 30)}

-----------------------------------------------------------------------------
\* strong: the answer may be kept for long; told: the pane showed the session best.
Blank == [pc |-> "idle", forced |-> {}, cands |-> {}, result |-> None,
          fallback |-> None, strong |-> FALSE, told |-> TRUE]

Init ==
    /\ now = Start /\ moves = 0 /\ since = Start
    /\ \/ provider = "claude" /\ maps \in BOOLEAN /\ tmux \in BOOLEAN
       \/ provider \in {"codex", "opencode"} /\ maps = FALSE /\ tmux = FALSE
    /\ alive = TRUE
    /\ session \in Sessions
    /\ fds \in SUBSET {session} /\ (provider # "claude" => fds = {})
    /\ active \in [Sessions -> {Never, Start}]
    /\ cache = [k \in {} |-> 0]
    /\ scan = Blank
    /\ \E s \in Files : watch = [path |-> s, read |-> active[s], refreshed |-> 0, polled |-> FALSE, late |-> 0]

Moved == since' = IF \A s \in Sessions : Plausible(s) = Plausible(s)' THEN since ELSE now

\* An answer is there for one step.
Silent == scan' = IF scan.pc = "done" THEN Blank ELSE scan

-----------------------------------------------------------------------------
(* The environment.                                                          *)
\* A tick is a watcher's poll interval, in which a scan is over.  A cached answer that
\* has expired is as good as none.
Tick ==
    /\ now < MaxTime
    /\ scan.pc \in {"idle", "done"}
    /\ watch.polled
    /\ now' = now + 1
    /\ cache' = [k \in {l \in DOMAIN cache : now' < cache[l].expiry} |-> cache[k]]
    /\ watch' = [watch EXCEPT !.polled = FALSE]
    /\ Silent /\ UNCHANGED env

Move == moves < MaxMoves /\ moves' = moves + 1

\* The user moves to another session (/clear, --resume).  Its transcript may not
\* exist yet; the old task file may stay open, the new one not be open yet.
Switch(s) ==
    /\ Move /\ alive /\ s # session
    /\ session' = s
    /\ IF provider = "claude" THEN fds' \in SUBSET (fds \cup {s}) ELSE UNCHANGED fds
    /\ Silent /\ UNCHANGED <<now, provider, tmux, maps, alive, active, cache, watch>>

\* The process writes its transcript, or somebody else another one.
Write(s) ==
    /\ active[s] < now
    /\ s # session \/ ~alive => Move
    /\ s = session /\ alive => UNCHANGED moves
    /\ active' = [active EXCEPT ![s] = now]
    /\ Silent /\ UNCHANGED <<now, provider, tmux, maps, alive, session, fds, cache, watch>>

Exit ==
    /\ Move /\ alive
    /\ alive' = FALSE /\ fds' = {}
    /\ Silent /\ UNCHANGED <<now, provider, tmux, maps, session, active, cache, watch>>

-----------------------------------------------------------------------------
(* findClaudeSessionInfo, findCodexSessionInfo, findOpenCodeSessionInfo.     *)
Report(s)  == scan' = [Blank EXCEPT !.pc = "done", !.result = s]

Latest(S) == {s \in S : \A t \in S : active[t] <= active[s]}

\* Codex: the transcript of this directory written last.  OpenCode: the first of
\* this directory; if there is none, the one written last anywhere.
CodexFound    == Latest(ProjectDir)
OpenCodeFound == IF ProjectDir # {} THEN ProjectDir ELSE Latest(Files)
OtherProvider ==
    LET found == IF provider = "codex" THEN CodexFound ELSE OpenCodeFound
    IN IF found = {} THEN Report(None) ELSE \E s \in found : Report(s)

\* The transcript of a session is sought in every project directory.
Transcript(s) == {s} \cap Files

\* What Claude's own file of this process says, and the task files it has open.
FromPIDMap == IF maps THEN Transcript(session) ELSE {}
FromTasks  == fds

\* One session, from either, whose transcript exists, is the answer.
Scan ==
    /\ scan.pc \in {"idle", "done"} /\ alive
    /\ IF provider # "claude" THEN OtherProvider
       ELSE IF FromPIDMap # {} THEN \E s \in FromPIDMap : Report(s)
       ELSE IF Cardinality(FromTasks) = 1 /\ FromTasks \subseteq Files
       THEN \E s \in FromTasks : Report(s)
       ELSE scan' = [Blank EXCEPT !.pc = "list", !.forced = FromTasks]
    /\ UNCHANGED <<now, env, cache, watch>>

\* The pane shows the session the process is in, and shows it better than others.
ShownBest(q, look) ==
    /\ session \in Compared(q, scan.forced, look)
    /\ \A s \in Range(q) \ {session} : look[s] < look[session]

\* What capturing the pane and comparing it with what each transcript ends with may
\* come to: any scores.
Looks(S) == [S -> Scores]

\* The last resort: the most active candidate whose task file was open.
TaskFallback(cands, forced) ==
    LET open == {i \in DOMAIN cands : cands[i] \in forced}
    IN IF open = {} THEN None ELSE cands[Min(open)]

\* listSessionCandidates, findClaudeSessionInfoGlobalFallback, filterByPaneActivity.
Candidates == IF ProjectDir # {} THEN ProjectDir ELSE Files
\* A candidate was active when its last lines say; the pane at any time, or never.
LastActivity(s) == active[s]
PaneActivities  == IF tmux THEN Never..now ELSE {Never}
Activity == [s \in Sessions |-> IF ProjectDir = {} /\ s \in scan.forced THEN now ELSE LastActivity(s)]
Orders   == UNION {Sorted(Candidates, Activity, pane) : pane \in PaneActivities}

\* What comparing them with the pane, which may show anything, will come to.
Outcome(q, look) ==
    LET m == ContentMatch(q, scan.forced, look, Activity)
    IN [scan EXCEPT !.pc = "store", !.cands = Candidates, !.strong = Strong(m),
                    !.result = IF Accepted(m) THEN m.winner ELSE None,
                    !.fallback = TaskFallback(q, scan.forced), !.told = ShownBest(q, look)]

\* An answer computed or cached may be that nothing matches, too.
Answer(e, fallback) ==
    IF e.result = None THEN Report(fallback)
    ELSE scan' = [Blank EXCEPT !.pc = "done", !.result = e.result, !.strong = e.strong, !.told = e.told]

\* The pane is captured, if it can be; contentMatchSessionWithCache looks the candidates
\* up under the lock.  If there is no entry it scores outside the lock, and then makes one.
Key(S, forced) == <<S, forced>>
Hit == Key(Candidates, scan.forced) \in DOMAIN cache

List ==
    /\ scan.pc = "list"
    /\ IF Candidates = {} THEN Report(None)
       ELSE IF Cardinality(Candidates) = 1 THEN Report(CHOOSE s \in Candidates : TRUE)
       ELSE \/ \E q \in Orders : Report(TaskFallback(q, scan.forced))
            \/ tmux /\ IF Hit THEN \E q \in Orders : Answer(cache[Key(Candidates, scan.forced)],
                                                          TaskFallback(q, scan.forced))
                       ELSE scan' \in {Outcome(q, look) : q \in Orders, look \in Looks(Candidates)}
    /\ UNCHANGED <<now, env, cache, watch>>

\* Mutant: a weak answer is kept as long as a strong one.
EntryStrong(ttl) ==
    [result |-> scan.result, expiry |-> now + StrongTTL, strong |-> scan.strong, told |-> scan.told]
Entry(ttl) ==
    [result |-> scan.result, expiry |-> now + ttl, strong |-> scan.strong, told |-> scan.told]

Store ==
    /\ scan.pc = "store"
    /\ LET e == Entry(IF scan.strong THEN StrongTTL ELSE WeakTTL)
           key == Key(scan.cands, scan.forced)
       IN /\ cache' = [k \in DOMAIN cache \cup {key} |-> IF k = key THEN e ELSE cache[k]]
          /\ Answer(e, scan.fallback)
    /\ UNCHANGED <<now, env, watch>>

-----------------------------------------------------------------------------
(* The watcher: poll, refreshSessionFile, switchToFile.  late counts the empty  *)
(* polls since Claude's own file has named another session than it watches.    *)
Named == maps /\ alive /\ session \in ProjectDir /\ session # watch.path
Polled(w) == [w EXCEPT !.polled = TRUE, !.read = active[w.path]]

\* Events were written to the file.
PollReads ==
    /\ ~watch.polled /\ active[watch.path] > watch.read
    /\ watch' = Polled(watch)
    /\ Silent /\ UNCHANGED <<now, env, cache>>

\* A poll that finds nothing new, or no events, too soon after the last look.
PollEmpty ==
    /\ ~watch.polled
    /\ now < watch.refreshed + RefreshEvery
    /\ watch' = [Polled(watch) EXCEPT !.late = IF Named THEN @ + 1 ELSE 0]
    /\ Silent /\ UNCHANGED <<now, env, cache>>

\* The sessions a watcher turns to: what the process says itself; else its open
\* task files, the latest; else, and only when it has ended and the file is stale,
\* a transcript of the directory written since the watcher started.
\* Mutant: Claude's file is not asked.
PidMapNone == {}
PidMap  == IF maps /\ alive THEN {session} \cap ProjectDir ELSE {}
Stale   == active[watch.path] + StaleAfter <= now /\ ~alive
OpenTasks    == fds
LastWrite(s) == active[s]
Recent       == {s \in ProjectDir : LastWrite(s) >= Start}

\* The pane may show any of them, or none: then the nearest to its activity is taken.
PaneMatches(S) == IF tmux THEN S ELSE {}
Nearest(S) == UNION {{s \in S : \A t \in S : Before(active, pane, s, t)} : pane \in PaneActivities}
Elected    == PaneMatches(Recent) \cup Nearest(Recent)

Targets ==
    IF PidMap \ {watch.path} # {} THEN PidMap
    ELSE IF Cardinality(OpenTasks) = 1 THEN OpenTasks \cap ProjectDir
    ELSE IF OpenTasks # {} THEN Latest(OpenTasks \cap ProjectDir)
    ELSE IF Stale /\ watch.path \notin Recent THEN Elected
    ELSE {}

\* The new file is read from its start; what was cached for the pane is cleared.
SwitchTo(s, w) ==
    /\ watch' = [w EXCEPT !.path = s, !.read = Never, !.late = 0]
    /\ IF tmux THEN cache' = [k \in {} |-> 0] ELSE UNCHANGED cache

\* A poll without events that looks.
Refresh ==
    /\ ~watch.polled
    /\ watch.refreshed + RefreshEvery <= now
    /\ LET stay == [Polled(watch) EXCEPT !.refreshed = now, !.late = IF Named THEN @ + 1 ELSE 0]
       IN IF Targets \subseteq {watch.path} THEN watch' = stay /\ UNCHANGED cache
          ELSE \E s \in Targets \ {watch.path} : SwitchTo(s, stay)
    /\ Silent /\ UNCHANGED <<now, env>>

-----------------------------------------------------------------------------
Scanner == Scan \/ List \/ Store
Watcher == PollReads \/ PollEmpty \/ Refresh

Next ==
    /\ \/ Tick \/ Exit
       \/ \E s \in Sessions : Switch(s) \/ Write(s)
       \/ Scanner
       \/ Watcher
    /\ Moved

Spec == Init /\ [][Next]_vars

-----------------------------------------------------------------------------
(* Properties.                                                               *)

TypeOK ==
    /\ now \in Start..MaxTime /\ since \in Start..now
    /\ provider \in {"claude", "codex", "opencode"} /\ {tmux, maps, alive} \subseteq BOOLEAN
    /\ session \in Sessions /\ fds \subseteq Sessions
    /\ active \in [Sessions -> Never..now]
    /\ DOMAIN cache \subseteq (SUBSET Sessions) \X (SUBSET Sessions)
    /\ \A k \in DOMAIN cache :
          cache[k] \in [result : k[1] \cup {None}, expiry : Nat, strong : BOOLEAN, told : BOOLEAN]
    /\ scan \in [pc : {"idle", "list", "store", "done"}, forced : SUBSET Sessions,
                 cands : SUBSET Sessions, result : Maybe, fallback : Maybe,
                 strong : BOOLEAN, told : BOOLEAN]
    /\ watch \in [path : Files, read : Never..now, refreshed : 0..now, polled : BOOLEAN, late : Nat]

\* The candidate the stages and running maxima arrive at is the best one, or none:
\* of any transcripts in any order, whatever the pane shows, as a first scan may list.
MatchIsBest ==
    /\ TypeOK
    /\ scan.pc = "list" /\ now = Start /\ moves = 0 =>
        \A S \in SUBSET Sessions : \A q \in SetToSeqs(S), look \in Looks(S) :
            LET best == BestMatches(q, scan.forced, look, active)
                m    == ContentMatch(q, scan.forced, look, active)
            IN IF best = {} THEN ~Accepted(m) ELSE Accepted(m) /\ m.winner \in best

\* Once a Claude process has moved to another session, and that has a transcript, no
\* scan names the old one for longer than its answer may be cached -
\* provided the pane showed the process's session better than others.
Answers == scan'.pc = "done" /\ scan'.result # None
AnswersAreFresh ==
    [][Answers /\ provider = "claude" /\ scan'.told /\ ~Plausible(scan'.result) =>
            now < since + (IF scan'.strong THEN StrongTTL ELSE WeakTTL)]_vars

\* The watcher of a live process turns to no session that is not the process's.
WatcherNeverSteals ==
    [][watch'.path # watch.path /\ alive => Plausible(watch'.path)]_vars

\* A watcher leaves a file that the process has left, as Claude's own file says,
\* after so many empty polls.
SwitchFollowedSoon == watch.late < RefreshEvery
=============================================================================

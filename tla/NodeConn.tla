------------------------------ MODULE NodeConn ------------------------------
(***************************************************************************)
(* agentgw/internal/node: how the gateway connects one node.  A connection  *)
(* is an SSH tunnel (none for a local node) and a proxy through it.  Every  *)
(* request and every retry is a goroutine of its own; each get and set of a *)
(* node's field takes the node's mutex, a sequence of them does not.  What  *)
(* a proxy does inside is module Proxy; here it is up, dialling again, or   *)
(* at an end, in which case its callback clears the node.                   *)
(***************************************************************************)
EXTENDS Naturals

CONSTANTS
    Workers,  \* goroutines
    MaxEnds,  \* tunnels, and proxies, that exist at a time
    Worlds    \* the nodes, and how much happens to them

\* local: IsLocal(), a local node has no tunnel; checkers and handlers: the
\* goroutines that the health check and that requests may start; then the bounds on
\* node.connect, deploy, restart and remove requests, and on lost links and
\* failed opens, dials and commands.
World == [local : BOOLEAN, checkers : SUBSET Workers, handlers : SUBSET Workers,
          requests : Nat, faults : Nat]
ASSUME WorldsAssumption == Worlds \subseteq World /\ MaxEnds \in Nat

None  == 0
Ends  == 1..MaxEnds
Ops   == {"connect", "deploy", "restart", "remove"}
Steps == {"idle", "prepare", "closeP", "nilP", "closeT", "nilT", "command", "unlist",
          "connecting", "closeT2", "nilT2", "open", "setT", "closeP2", "nilP2", "dial",
          "setP", "connected", "closeT3", "nilT3"}

VARIABLES
    world,   \* the node's
    listed,  \* the registry has the node
    status,  \* n.status
    tunnel,  \* n.tunnel
    proxy,   \* n.proxy
    tun,     \* each tunnel: "free", "up" or "closed"
    prx,     \* each proxy: its read loop, whether Close was called, its tunnel
    work,    \* each goroutine
    spent    \* requests and faults so far

vars == <<world, listed, status, tunnel, proxy, tun, prx, work, spent>>
local == world.local
node == <<listed, status, tunnel, proxy>>

Unused == [loop |-> "free", quit |-> FALSE, via |-> None]
Idle   == [pc |-> "idle", op |-> "connect", t |-> None, p |-> None]

Init ==
    /\ world \in Worlds
    /\ listed = TRUE /\ status = "disconnected" /\ tunnel = None /\ proxy = None
    /\ tun = [t \in Ends |-> "free"] /\ prx = [p \in Ends |-> Unused]
    /\ work = [w \in Workers |-> Idle]
    /\ spent = [requests |-> 0, faults |-> 0]

Goto(w, step) ==
    work' = [work EXCEPT ![w] = IF step = "idle" THEN Idle ELSE [work[w] EXCEPT !.pc = step]]
Done(w)       == work' = [work EXCEPT ![w] = Idle]
Fault         == spent.faults < world.faults /\ spent' = [spent EXCEPT !.faults = @ + 1]

\* Nobody refers to a tunnel or proxy any more: its number may be used again.
TunnelFree(t) ==
    /\ tun[t] # "up" /\ tunnel # t
    /\ \A w \in Workers : work[w].t # t
    /\ \A p \in Ends : prx[p].loop \notin {"free", "ended"} => prx[p].via # t
ProxyFree(p) ==
    /\ prx[p].loop \in {"free", "ended"} /\ proxy # p
    /\ \A w \in Workers : work[w].p # p
\* A connection through tunnel t, or a local one, gets through.
TunnelsUp == {t \in Ends : tun[t] = "up"}
Passes(t) == local \/ t \in TunnelsUp
First(S) == {i \in S : \A j \in S : i <= j}

-----------------------------------------------------------------------------
(* Goroutines start.                                                         *)

\* Mutant: only a node in error is retried.
RetryErrors(w) ==
    /\ w \in world.checkers /\ work[w].pc = "idle" /\ listed
    /\ status = "error"
    /\ work' = [work EXCEPT ![w] = [Idle EXCEPT !.pc = "closeP"]]
    /\ UNCHANGED <<world, node, tun, prx, spent>>

\* The health check and ConnectAll connect a node in error or disconnected.
Retry(w) ==
    /\ w \in world.checkers /\ work[w].pc = "idle" /\ listed
    /\ status \in {"error", "disconnected"}
    /\ work' = [work EXCEPT ![w] = [Idle EXCEPT !.pc = "closeP"]]
    /\ UNCHANGED <<world, node, tun, prx, spent>>

\* Deploy, which connects afterwards, and Restart prepare the node first.
Start(op) == IF op \in {"deploy", "restart"} THEN "prepare" ELSE "closeP"

\* node.connect, node.deploy, node.restart, node.remove.
Request(w, op) ==
    /\ w \in world.handlers /\ work[w].pc = "idle" /\ listed
    /\ spent.requests < world.requests
    /\ spent' = [spent EXCEPT !.requests = @ + 1]
    /\ work' = [work EXCEPT ![w] = [Idle EXCEPT !.op = op, !.pc = Start(op)]]
    /\ UNCHANGED <<world, node, tun, prx>>

\* Deploy and Restart of a remote node show it as deploying.
Prepare(w) ==
    /\ work[w].pc = "prepare"
    /\ status' = IF local THEN status ELSE "deploying"
    /\ Goto(w, IF work[w].op = "deploy" THEN "command" ELSE "closeP")
    /\ UNCHANGED <<world, listed, tunnel, proxy, tun, prx, spent>>

-----------------------------------------------------------------------------
(* ProxyManager.Disconnect and TunnelManager.Disconnect, and the same lines   *)
(* at the head of both Connects: close what the node has, then clear it.      *)

\* Closing a proxy breaks its connection, once; its read loop finds out later.
Closed(p) == [prx EXCEPT ![p] = [loop |-> IF @.loop = "up" /\ ~@.quit THEN "broken" ELSE @.loop,
                                 quit |-> TRUE, via |-> @.via]]

\* Mutant: the proxy is dropped and not closed.
DropProxy(w, at, clear, skip) ==
    /\ work[w].pc = at
    /\ Goto(w, IF proxy = None THEN skip ELSE clear)
    /\ UNCHANGED <<world, node, tun, prx, spent>>

CloseProxy(w, at, clear, skip) ==
    /\ work[w].pc = at
    /\ IF proxy = None THEN prx' = prx /\ Goto(w, skip)
                       ELSE prx' = Closed(proxy) /\ Goto(w, clear)
    /\ UNCHANGED <<world, node, tun, spent>>

ClearProxy(w, at, next) ==
    /\ work[w].pc = at
    /\ proxy' = None
    /\ Goto(w, next)
    /\ UNCHANGED <<world, listed, status, tunnel, tun, prx, spent>>

CloseTunnel(w, at, clear, skip) ==
    /\ work[w].pc = at
    /\ IF tunnel = None THEN tun' = tun /\ Goto(w, skip)
                        ELSE tun' = [tun EXCEPT ![tunnel] = "closed"] /\ Goto(w, clear)
    /\ UNCHANGED <<world, node, prx, spent>>

ClearTunnel(w, at, next) ==
    /\ work[w].pc = at
    /\ tunnel' = None
    /\ Goto(w, next)
    /\ UNCHANGED <<world, listed, status, proxy, tun, prx, spent>>

AfterDisconnect(w) ==
    CASE work[w].op = "remove"  -> "unlist"
      [] work[w].op = "restart" -> "command"
      [] OTHER                  -> "connecting"

Disconnect(w) ==
    \/ CloseProxy(w, "closeP", "nilP", "closeT")
    \/ ClearProxy(w, "nilP", "closeT")
    \/ CloseTunnel(w, "closeT", "nilT", AfterDisconnect(w))
    \/ ClearTunnel(w, "nilT", AfterDisconnect(w))

Unlist(w) ==
    /\ work[w].pc = "unlist"
    /\ listed' = FALSE
    /\ Done(w)
    /\ UNCHANGED <<world, status, tunnel, proxy, tun, prx, spent>>

\* The upload of Deploy, or the remote command of Restart, which is not for local
\* nodes; then Connect, which starts by disconnecting.
Refused(w) == local /\ work[w].op = "restart"
CommandRuns(w) ==
    /\ work[w].pc = "command" /\ ~Refused(w)
    /\ work' = [work EXCEPT ![w] = [Idle EXCEPT !.pc = IF listed THEN "closeP" ELSE "idle"]]
    /\ UNCHANGED <<world, node, tun, prx, spent>>

CommandFails(w) ==
    /\ work[w].pc = "command"
    /\ IF Refused(w) THEN UNCHANGED spent ELSE Fault
    /\ status' = "error"
    /\ Done(w)
    /\ UNCHANGED <<world, listed, tunnel, proxy, tun, prx>>

-----------------------------------------------------------------------------
(* Connect, after it has disconnected.                                       *)

Connecting(w) ==
    /\ work[w].pc = "connecting"
    /\ status' = "connecting"
    /\ Goto(w, "closeT2")
    /\ UNCHANGED <<world, listed, tunnel, proxy, tun, prx, spent>>

AfterTunnel == IF local THEN "closeP2" ELSE "open"

\* ssh's handshake outlasts the few statements of a callback that has begun.
CallbackOver == \A p \in Ends : prx[p].loop \notin {"callback", "clearing"}

OpenTunnel(w) ==
    /\ work[w].pc = "open" /\ CallbackOver
    /\ \E t \in First({i \in Ends : TunnelFree(i)}) :
          /\ tun' = [tun EXCEPT ![t] = "up"]
          /\ work' = [work EXCEPT ![w] = [@ EXCEPT !.pc = "setT", !.t = t]]
    /\ UNCHANGED <<world, node, prx, spent>>

OpenFails(w) ==
    /\ work[w].pc = "open" /\ Fault
    /\ status' = "error"
    /\ Done(w)
    /\ UNCHANGED <<world, listed, tunnel, proxy, tun, prx>>

SetTunnel(w) ==
    /\ work[w].pc = "setT"
    /\ tunnel' = work[w].t
    /\ Goto(w, "closeP2")
    /\ UNCHANGED <<world, listed, status, proxy, tun, prx, spent>>

Dial(w) ==
    /\ work[w].pc = "dial" /\ Passes(work[w].t)
    /\ \E p \in First({i \in Ends : ProxyFree(i)}) :
          /\ prx' = [prx EXCEPT ![p] = [loop |-> "up", quit |-> FALSE, via |-> work[w].t]]
          /\ work' = [work EXCEPT ![w] = [@ EXCEPT !.pc = "setP", !.p = p]]
    /\ UNCHANGED <<world, node, tun, spent>>

\* A dial into a closed tunnel fails; so may any.  Connect then disconnects the
\* tunnel the node has.
DialFails(w) ==
    /\ work[w].pc = "dial"
    /\ \/ ~Passes(work[w].t) /\ UNCHANGED spent
       \/ Fault
    /\ status' = "error"
    /\ Goto(w, "closeT3")
    /\ UNCHANGED <<world, listed, tunnel, proxy, tun, prx>>

SetProxy(w) ==
    /\ work[w].pc = "setP"
    /\ proxy' = work[w].p
    /\ Goto(w, "connected")
    /\ UNCHANGED <<world, listed, status, tunnel, tun, prx, spent>>

Connected(w) ==
    /\ work[w].pc = "connected"
    /\ status' = "connected"
    /\ Done(w)
    /\ UNCHANGED <<world, listed, tunnel, proxy, tun, prx, spent>>

Connect(w) ==
    \/ Connecting(w)
    \/ CloseTunnel(w, "closeT2", "nilT2", AfterTunnel)
    \/ ClearTunnel(w, "nilT2", AfterTunnel)
    \/ OpenTunnel(w) \/ OpenFails(w) \/ SetTunnel(w)
    \/ CloseProxy(w, "closeP2", "nilP2", "dial")
    \/ ClearProxy(w, "nilP2", "dial")
    \/ Dial(w) \/ DialFails(w) \/ SetProxy(w) \/ Connected(w)
    \/ CloseTunnel(w, "closeT3", "nilT3", "idle")
    \/ ClearTunnel(w, "nilT3", "idle")

Work(w) ==
    \/ Prepare(w) \/ Disconnect(w) \/ Unlist(w) \/ CommandRuns(w) \/ CommandFails(w)
    \/ Connect(w)

-----------------------------------------------------------------------------
(* A proxy's read loop: up, broken, asleep before a dial, lost (it gave up),  *)
(* in the two steps of its callback, and ended.                               *)

Loop(p, l) == prx' = [prx EXCEPT ![p].loop = l]

Breaks(p) ==
    /\ prx[p].loop = "up"
    /\ \/ ~Passes(prx[p].via) /\ UNCHANGED spent
       \/ Fault
    /\ Loop(p, "broken")
    /\ UNCHANGED <<world, node, tun, work>>

\* quit is looked at before each sleep, and not after it.
ChecksQuit(p) ==
    /\ prx[p].loop = "broken"
    /\ Loop(p, IF prx[p].quit THEN "lost" ELSE "asleep")
    /\ UNCHANGED <<world, node, tun, work, spent>>

\* One attempt stands for the five.
Redials(p) ==
    /\ prx[p].loop = "asleep"
    /\ Passes(prx[p].via)
    /\ Loop(p, "up")
    /\ UNCHANGED <<world, node, tun, work, spent>>

\* The attempts take fifteen seconds: nobody is still between the dial and the
\* SetStatus that follows it.
GivesUp(p) ==
    /\ prx[p].loop = "asleep"
    /\ \A w \in Workers : work[w].p # p
    /\ \/ ~Passes(prx[p].via) /\ UNCHANGED spent
       \/ Fault
    /\ Loop(p, "lost")
    /\ UNCHANGED <<world, node, tun, work>>

\* Mutant: the status is left as it was.
DisconnectKeepsStatus(p) ==
    /\ prx[p].loop = "lost"
    /\ IF proxy # p
       THEN Loop(p, "ended") /\ UNCHANGED <<node, tun>>
       ELSE /\ Loop(p, IF listed THEN "callback" ELSE "ended")
            /\ proxy' = None /\ tunnel' = None
            /\ tun' = IF tunnel = None THEN tun ELSE [tun EXCEPT ![tunnel] = "closed"]
            /\ UNCHANGED <<listed, status>>
    /\ UNCHANGED <<world, work, spent>>

\* Mutant: the node keeps the proxy that ended.
DisconnectKeepsProxy(p) ==
    /\ prx[p].loop = "lost"
    /\ IF proxy # p
       THEN Loop(p, "ended") /\ UNCHANGED <<node, tun>>
       ELSE /\ Loop(p, IF listed THEN "callback" ELSE "ended")
            /\ tunnel' = None /\ status' = "disconnected"
            /\ tun' = IF tunnel = None THEN tun ELSE [tun EXCEPT ![tunnel] = "closed"]
            /\ UNCHANGED <<listed, proxy>>
    /\ UNCHANGED <<world, work, spent>>

\* ProxyManager.handleDisconnect, under the node's mutex: only for the proxy
\* the node has.
HandleDisconnect(p) ==
    /\ prx[p].loop = "lost"
    /\ IF proxy # p
       THEN Loop(p, "ended") /\ UNCHANGED <<node, tun>>
       ELSE /\ Loop(p, IF listed THEN "callback" ELSE "ended")
            /\ proxy' = None /\ tunnel' = None /\ status' = "disconnected"
            /\ tun' = IF tunnel = None THEN tun ELSE [tun EXCEPT ![tunnel] = "closed"]
            /\ listed' = listed
    /\ UNCHANGED <<world, work, spent>>

\* Manager.handleProxyDisconnect: TunnelManager.Disconnect once more, and the
\* apps are told.
CallbackCloses(p) ==
    /\ prx[p].loop = "callback"
    /\ tun' = IF tunnel = None THEN tun ELSE [tun EXCEPT ![tunnel] = "closed"]
    /\ Loop(p, IF tunnel = None THEN "ended" ELSE "clearing")
    /\ UNCHANGED <<world, node, work, spent>>

CallbackClears(p) ==
    /\ prx[p].loop = "clearing"
    /\ tunnel' = None
    /\ Loop(p, "ended")
    /\ UNCHANGED <<world, listed, status, proxy, tun, work, spent>>

ReadLoop(p) ==
    \/ Breaks(p) \/ ChecksQuit(p) \/ Redials(p) \/ GivesUp(p)
    \/ HandleDisconnect(p) \/ CallbackCloses(p) \/ CallbackClears(p)

TunnelDies(t) ==
    /\ tun[t] = "up" /\ Fault
    /\ tun' = [tun EXCEPT ![t] = "closed"]
    /\ UNCHANGED <<world, node, prx, work>>

Next ==
    \/ \E w \in Workers : Retry(w) \/ Work(w) \/ \E op \in Ops : Request(w, op)
    \/ \E p \in Ends : ReadLoop(p)
    \/ \E t \in Ends : TunnelDies(t)

\* Goroutines run, the health check comes round, and read loops notice.
Spec ==
    /\ Init /\ [][Next]_vars
    /\ \A w \in Workers : WF_vars(Work(w))
    /\ WF_vars(\E w \in Workers : Retry(w))
    /\ \A p \in Ends : WF_vars(ReadLoop(p))

-----------------------------------------------------------------------------
(* Properties.                                                               *)

Live(p) == prx[p].loop \in {"up", "broken", "asleep"}

\* Close met the proxy in the sleep before a dial, which does not look at quit.
MetAsleep(p) == prx[p].quit /\ prx[p].loop \in {"asleep", "up"}

TypeOK ==
    /\ world \in Worlds /\ listed \in BOOLEAN
    /\ status \in {"disconnected", "connecting", "connected", "deploying", "error"}
    /\ tunnel \in Ends \cup {None} /\ proxy \in Ends \cup {None}
    /\ tun \in [Ends -> {"free", "up", "closed"}]
    /\ prx \in [Ends -> [loop : {"free", "up", "broken", "asleep", "lost", "callback", "clearing", "ended"},
                         quit : BOOLEAN, via : Ends \cup {None}]]
    /\ work \in [Workers -> [pc : Steps, op : Ops, t : Ends \cup {None}, p : Ends \cup {None}]]

\* One goroutine at a time takes care of the node.  When a health check and a
\* request overlap, each closes and sets what the other may have set, and only
\* NoDeadProxy survives.
Alone == \E w \in Workers : world.checkers \cup world.handlers = {w}

Quiet == /\ \A w \in Workers : work[w].pc = "idle"
         /\ \A p \in Ends : prx[p].loop \in {"free", "up", "ended"}

\* A proxy that is nobody's and was closed comes to an end: its read loop will
\* look at quit; or, if Close met it asleep, its dial fails, or the goroutine that
\* closed it is about to close the tunnel under it.  No tunnel helps with a local
\* node: its proxy dials once more and lives on.
Ending(p) ==
    \/ prx[p].quit /\ prx[p].loop = "broken"
    \/ MetAsleep(p) /\ (local \/ ~Passes(prx[p].via) \/
                         \E w \in Workers : work[w].pc \in {"nilP", "closeT"})

\* "Clean up any existing proxy": a proxy whose read loop runs is the node's, is
\* about to be, or was closed and comes to an end; any other would go on pushing
\* agentd's events to the apps, twice each.  The exception is a local node's proxy
\* that was closed in its sleep.  Nor does an ssh process outlive the node's
\* interest in it.
NoLeak ==
    /\ TypeOK
    /\ Alone =>
        /\ \A p \in Ends : Live(p) => proxy = p \/ Ending(p) \/ \E w \in Workers : work[w].p = p
        /\ \A t \in Ends : tun[t] = "up" => tunnel = t \/ \E w \in Workers : work[w].t = t

\* handleDisconnect clears a node only of its own proxy, and Connect sets a proxy
\* that others may close at once: however Connects, Removes and callbacks
\* overlap, when nothing moves the node's proxy is one whose read loop runs.
NoDeadProxy == Quiet /\ proxy # None => prx[proxy].loop = "up"

\* "SSH tunnel with automatic reconnection", "Remove disconnects and deletes a
\* node": when nothing moves, a node that the health check leaves alone, because
\* it is connected, has a proxy; one that was removed has neither proxy nor tunnel,
\* and no read loop still gets through to it, save that of a local node's proxy
\* that was closed in its sleep.
SettledTruly ==
    Alone /\ Quiet =>
        /\ listed /\ status = "connected" => proxy # None
        /\ ~listed => /\ proxy = None /\ TunnelsUp = {}
                      /\ \A p \in Ends : prx[p].loop = "up" /\ Passes(prx[p].via)
                                           => local /\ prx[p].quit

\* A listed node is connected in the end, once faults and requests stop.
Heals ==
    <>[](Alone /\ listed =>
            status = "connected" /\ \E p \in Ends : proxy = p /\ prx[p].loop = "up")
=============================================================================

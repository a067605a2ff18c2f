--------------------------- MODULE GatewayProofs ----------------------------
(***************************************************************************)
(* The gateway's nodes and the calls over their proxies.  What NodeConn's  *)
(* run checks of one node with a few tunnels and goroutines holds for any  *)
(* number of them, any bounds and any nodes.  Proxy's theorems follow.     *)
(***************************************************************************)
EXTENDS NodeConn, Proxy, TLAPS

-----------------------------------------------------------------------------
(* The inductive invariants.                                                 *)

Dialled == {"up", "broken", "asleep"}

\* However many goroutines overlap: only one the world allows ever runs; a proxy
\* between its dial and SetProxy belongs to one goroutine, runs, and nobody has
\* closed it; the node's proxy has not ended.
Owned ==
    /\ \A w \in Workers : work[w].pc # "idle" => w \in world.checkers \cup world.handlers
    /\ \A w \in Workers : work[w].pc = "setP" =>
          /\ work[w].p \in Ends
          /\ prx[work[w].p].loop \in Dialled /\ ~prx[work[w].p].quit
          /\ proxy # work[w].p
          /\ \A v \in Workers \ {w} : work[v].p # work[w].p
    /\ proxy # None => prx[proxy].loop \in Dialled \cup {"lost"}

\* The steps at which the node has no proxy, and no tunnel, if one goroutine u takes
\* care of it; and those that lead from a status of before to Connecting.
NoProxyAt  == {"closeT", "nilT", "unlist", "connecting", "closeT2", "nilT2", "open", "setT",
               "closeP2", "nilP2", "dial", "setP", "closeT3", "nilT3"}
NoTunnelAt == {"unlist", "connecting", "closeT2", "nilT2", "open", "setT"}
Leaving    == {"closeP", "nilP", "closeT", "nilT", "unlist", "command", "connecting"}

Absent(u) ==
    /\ work[u].pc \in NoProxyAt => proxy = None
    /\ work[u].pc \in NoTunnelAt => tunnel = None
    /\ ~listed => work[u].pc = "idle" /\ proxy = None

\* A callback that has closed the tunnel meets no other, as none is opened meanwhile.
Callbacks(u) ==
    /\ work[u].pc = "setT" => CallbackOver
    /\ (\E p \in Ends : prx[p].loop = "clearing") => tunnel = None \/ tun[tunnel] # "up"

\* What is about to be cleared was closed.
Closing(u) ==
    /\ work[u].pc \in {"nilP", "nilP2"} => proxy = None \/ prx[proxy].quit
    /\ work[u].pc \in {"nilT", "nilT2", "nilT3"} => tunnel = None \/ tun[tunnel] # "up"

\* A proxy that nobody has closed.
Wanted(p) == prx[p].loop \in Dialled /\ ~prx[p].quit
ProxiesHeld(u) == \A p \in Ends : Wanted(p) => proxy = p \/ (work[u].pc = "setP" /\ work[u].p = p)
TunnelsHeld(u) ==
    /\ \A t \in Ends : tun[t] = "up" => tunnel = t \/ (work[u].pc = "setT" /\ work[u].t = t)
    /\ ~listed => \A t \in Ends : tun[t] # "up"

\* A proxy that was closed in its sleep gets through a tunnel only until u, which closed
\* it, closes the tunnel.
Resting(u) ==
    ~local => \A p \in Ends : MetAsleep(p) /\ prx[p].via \in Ends /\ tun[prx[p].via] = "up"
                                  => work[u].pc \in {"nilP", "closeT"}

\* Connected tells the truth when it is written, and is written over before it lies.
Truthful(u) ==
    /\ work[u].pc = "connected" =>
          /\ proxy \in Ends /\ work[u].p = proxy
          /\ prx[proxy].loop \in Dialled /\ ~prx[proxy].quit
    /\ listed /\ status = "connected" /\ proxy = None => work[u].pc \in Leaving

Caring(u) == Absent(u) /\ Callbacks(u) /\ Closing(u) /\ ProxiesHeld(u) /\ TunnelsHeld(u)
             /\ Resting(u) /\ Truthful(u)
IInv == TypeOK /\ Owned /\ \A u \in Workers : world.checkers \cup world.handlers = {u} => Caring(u)

-----------------------------------------------------------------------------
(* What the operators of the model do.                                       *)

Task  == [pc : Steps, op : Ops, t : Ends \cup {None}, p : Ends \cup {None}]
Proxy == [loop : {"free", "up", "broken", "asleep", "lost", "callback", "clearing", "ended"},
          quit : BOOLEAN, via : Ends \cup {None}]

\* An idle goroutine is one.
LEMMA IdleIsTask == Idle \in Task /\ Idle.pc = "idle" /\ Idle.p = None /\ Idle.t = None
  BY DEF Idle, Task, Steps, Ops

\* What Goto does to the goroutines: w is at step, and has the rest as before unless it
\* has become idle.
LEMMA GotoTask ==
  ASSUME work \in [Workers -> Task], NEW w \in Workers, NEW step \in Steps, Goto(w, step)
  PROVE  /\ work' \in [Workers -> Task]
         /\ work'[w].pc = step
         /\ \A v \in Workers \ {w} : work'[v] = work[v]
         /\ step # "idle" => work'[w].p = work[w].p /\ work'[w].t = work[w].t /\ work'[w].op = work[w].op
         /\ step = "idle" => work'[w].p = None /\ work'[w].t = None
  <1> DEFINE new == IF step = "idle" THEN Idle ELSE [work[w] EXCEPT !.pc = step]
  <1>1. work' = [work EXCEPT ![w] = new]
    BY DEF Goto
  <1>2. work[w] \in Task
    OBVIOUS
  <1>3. /\ new \in Task /\ new.pc = step
        /\ step # "idle" => new.p = work[w].p /\ new.t = work[w].t /\ new.op = work[w].op
        /\ step = "idle" => new.p = None /\ new.t = None
    <2>1. CASE step = "idle"
      BY <2>1, IdleIsTask
    <2>2. CASE step # "idle"
      <3>1. new = [work[w] EXCEPT !.pc = step]
        BY <2>2
      <3> QED
        BY <1>2, <2>2, <3>1 DEF Task
    <2> QED
      BY <2>1, <2>2
  <1> HIDE DEF new
  <1>4. work'[w] = new /\ work' \in [Workers -> Task] /\ \A v \in Workers \ {w} : work'[v] = work[v]
    BY <1>1, <1>3
  <1> QED
    BY <1>3, <1>4

\* Done makes w idle.
LEMMA DoneTask ==
  ASSUME work \in [Workers -> Task], NEW w \in Workers, Done(w)
  PROVE  /\ work' \in [Workers -> Task]
         /\ work'[w].pc = "idle" /\ work'[w].p = None /\ work'[w].t = None
         /\ \A v \in Workers \ {w} : work'[v] = work[v]
  BY IdleIsTask DEF Done

\* Loop moves one read loop.
LEMMA LoopProxy ==
  ASSUME prx \in [Ends -> Proxy], NEW p \in Ends,
         NEW l \in {"free", "up", "broken", "asleep", "lost", "callback", "clearing", "ended"}, Loop(p, l)
  PROVE  /\ prx' \in [Ends -> Proxy]
         /\ prx'[p].loop = l /\ prx'[p].quit = prx[p].quit /\ prx'[p].via = prx[p].via
         /\ \A q \in Ends \ {p} : prx'[q] = prx[q]
  <1> DEFINE new == [prx[p] EXCEPT !.loop = l]
  <1>1. prx' = [prx EXCEPT ![p] = new]
    BY DEF Loop
  <1>2. new \in Proxy /\ new.loop = l /\ new.quit = prx[p].quit /\ new.via = prx[p].via
    BY DEF Proxy
  <1> HIDE DEF new
  <1> QED
    BY <1>1, <1>2

\* A closed proxy has its quit set, and its connection is broken.
LEMMA ClosedProxy ==
  ASSUME prx \in [Ends -> Proxy], NEW p \in Ends, prx' = Closed(p)
  PROVE  /\ prx' \in [Ends -> Proxy]
         /\ prx'[p].quit /\ prx'[p].via = prx[p].via
         /\ prx'[p].loop = IF prx[p].loop = "up" /\ ~prx[p].quit THEN "broken" ELSE prx[p].loop
         /\ \A q \in Ends \ {p} : prx'[q] = prx[q]
  <1> DEFINE new == [loop |-> IF prx[p].loop = "up" /\ ~prx[p].quit THEN "broken" ELSE prx[p].loop,
                     quit |-> TRUE, via |-> prx[p].via]
  <1>1. prx' = [prx EXCEPT ![p] = new]
    BY DEF Closed
  <1>2. new \in Proxy /\ new.quit /\ new.via = prx[p].via
        /\ new.loop = IF prx[p].loop = "up" /\ ~prx[p].quit THEN "broken" ELSE prx[p].loop
    BY DEF Proxy
  <1> HIDE DEF new
  <1> QED
    BY <1>1, <1>2


\* OpenTunnel opens a tunnel nobody uses, and w holds it.
LEMMA OpenedTask ==
  ASSUME work \in [Workers -> Task], NEW w \in Workers, OpenTunnel(w)
  PROVE  \E t \in Ends :
            /\ TunnelFree(t) /\ tun' = [tun EXCEPT ![t] = "up"]
            /\ work' \in [Workers -> Task]
            /\ work'[w].pc = "setT" /\ work'[w].t = t /\ work'[w].p = work[w].p
            /\ \A v \in Workers \ {w} : work'[v] = work[v]
  <1>1. PICK t \in Ends : /\ TunnelFree(t) /\ tun' = [tun EXCEPT ![t] = "up"]
                         /\ work' = [work EXCEPT ![w] = [work[w] EXCEPT !.pc = "setT", !.t = t]]
    BY DEF OpenTunnel, First
  <1> DEFINE new == [work[w] EXCEPT !.pc = "setT", !.t = t]
  <1>2. new \in Task /\ new.pc = "setT" /\ new.t = t /\ new.p = work[w].p
    BY DEF Task, Steps
  <1>3. work' = [work EXCEPT ![w] = new]
    BY <1>1
  <1> HIDE DEF new
  <1> QED
    BY <1>1, <1>2, <1>3

\* Dial connects a proxy nobody uses, and w holds it.
LEMMA DialledTask ==
  ASSUME work \in [Workers -> Task], prx \in [Ends -> Proxy], NEW w \in Workers, Dial(w)
  PROVE  \E p \in Ends :
            /\ ProxyFree(p)
            /\ prx' \in [Ends -> Proxy] /\ prx'[p].loop = "up" /\ ~prx'[p].quit
            /\ \A q \in Ends \ {p} : prx'[q] = prx[q]
            /\ work' \in [Workers -> Task]
            /\ work'[w].pc = "setP" /\ work'[w].p = p
            /\ \A v \in Workers \ {w} : work'[v] = work[v]
  <1>1. PICK p \in Ends :
            /\ ProxyFree(p)
            /\ prx' = [prx EXCEPT ![p] = [loop |-> "up", quit |-> FALSE, via |-> work[w].t]]
            /\ work' = [work EXCEPT ![w] = [work[w] EXCEPT !.pc = "setP", !.p = p]]
    BY DEF Dial, First
  <1> DEFINE new == [work[w] EXCEPT !.pc = "setP", !.p = p]
             old == [loop |-> "up", quit |-> FALSE, via |-> work[w].t]
  <1>2. new \in Task /\ new.pc = "setP" /\ new.p = p
    BY DEF Task, Steps
  <1>3. old \in Proxy /\ old.loop = "up" /\ ~old.quit
    BY DEF Task, Proxy
  <1>4. work' = [work EXCEPT ![w] = new] /\ prx' = [prx EXCEPT ![p] = old]
    BY <1>1
  <1> HIDE DEF new, old
  <1>5. work' \in [Workers -> Task] /\ work'[w] = new /\ \A v \in Workers \ {w} : work'[v] = work[v]
    BY <1>2, <1>4
  <1>6. prx' \in [Ends -> Proxy] /\ prx'[p] = old /\ \A q \in Ends \ {p} : prx'[q] = prx[q]
    BY <1>3, <1>4
  <1> QED
    BY <1>1, <1>2, <1>3, <1>5, <1>6

-----------------------------------------------------------------------------
(* Types.                                                                    *)

\* Closing and clearing a tunnel keep the types.
LEMMA TunnelGoes ==
  ASSUME TypeOK, NEW w \in Workers
  PROVE  /\ CloseTunnel(w, "closeT", "nilT", AfterDisconnect(w)) => TypeOK'
         /\ CloseTunnel(w, "closeT2", "nilT2", AfterTunnel) => TypeOK'
         /\ ClearTunnel(w, "nilT", AfterDisconnect(w)) => TypeOK'
         /\ ClearTunnel(w, "nilT2", AfterTunnel) => TypeOK'
  <1>1. /\ AfterDisconnect(w) \in Steps /\ AfterTunnel \in Steps
        /\ \A at \in {"closeT", "nilT", "closeT2", "nilT2"} : at \in Steps
    BY DEF AfterDisconnect, AfterTunnel, Steps
  <1>2. ASSUME NEW at, NEW clear \in Steps, NEW skip \in Steps, CloseTunnel(w, at, clear, skip)
        PROVE  TypeOK'
    <2>1. work \in [Workers -> Task] /\ tunnel \in Ends \cup {None}
      BY DEF TypeOK, Task
    <2>2. tun' \in [Ends -> {"free", "up", "closed"}]
      BY <1>2 DEF CloseTunnel, TypeOK
    <2>3. work' \in [Workers -> Task]
      BY <1>2, <2>1, GotoTask DEF CloseTunnel
    <2> QED
      BY <1>2, <2>2, <2>3 DEF CloseTunnel, TypeOK, Task, node
  <1>3. ASSUME NEW at, NEW next \in Steps, ClearTunnel(w, at, next)
        PROVE  TypeOK'
    <2>1. work \in [Workers -> Task]
      BY DEF TypeOK, Task
    <2>2. work' \in [Workers -> Task]
      BY <1>3, <2>1, GotoTask DEF ClearTunnel
    <2> QED
      BY <1>3, <2>2 DEF ClearTunnel, TypeOK, Task
  <1> QED
    BY <1>1, <1>2, <1>3

\* Every step keeps the types.
LEMMA TypeStep ==
  ASSUME TypeOK, [Next]_vars
  PROVE  TypeOK'
  <1> USE WorldsAssumption DEF TypeOK, Task, Proxy, World, Ends, None, Steps, Ops, node
  <1>1. ASSUME NEW w \in Workers, Retry(w)
         PROVE  TypeOK'
    BY <1>1, IdleIsTask
    DEF Retry, Idle
  <1>2. ASSUME NEW w \in Workers, NEW op \in Ops, Request(w, op)
         PROVE  TypeOK'
    BY <1>2, IdleIsTask
    DEF Request, Idle, Start
  <1>3. ASSUME NEW w \in Workers, Prepare(w)
         PROVE  TypeOK'
    BY <1>3, GotoTask
    DEF Prepare
  <1>4. ASSUME NEW w \in Workers, CloseProxy(w, "closeP", "nilP", "closeT")
         PROVE  TypeOK'
    BY <1>4, GotoTask, ClosedProxy
    DEF CloseProxy
  <1>5. ASSUME NEW w \in Workers, ClearProxy(w, "nilP", "closeT")
         PROVE  TypeOK'
    BY <1>5, GotoTask
    DEF ClearProxy
  <1>6. ASSUME NEW w \in Workers, CloseTunnel(w, "closeT", "nilT", AfterDisconnect(w))
         PROVE  TypeOK'
    BY <1>6, TunnelGoes
  <1>7. ASSUME NEW w \in Workers, ClearTunnel(w, "nilT", AfterDisconnect(w))
         PROVE  TypeOK'
    BY <1>7, TunnelGoes
  <1>8. ASSUME NEW w \in Workers, Unlist(w)
         PROVE  TypeOK'
    BY <1>8, DoneTask
    DEF Unlist
  <1>9. ASSUME NEW w \in Workers, CommandRuns(w)
         PROVE  TypeOK'
    BY <1>9, IdleIsTask
    DEF CommandRuns, Idle
  <1>10. ASSUME NEW w \in Workers, CommandFails(w)
         PROVE  TypeOK'
    BY <1>10, DoneTask
    DEF CommandFails
  <1>11. ASSUME NEW w \in Workers, Connecting(w)
         PROVE  TypeOK'
    BY <1>11, GotoTask
    DEF Connecting
  <1>12. ASSUME NEW w \in Workers, CloseTunnel(w, "closeT2", "nilT2", AfterTunnel)
         PROVE  TypeOK'
    BY <1>12, TunnelGoes
  <1>13. ASSUME NEW w \in Workers, ClearTunnel(w, "nilT2", AfterTunnel)
         PROVE  TypeOK'
    BY <1>13, TunnelGoes
  <1>14. ASSUME NEW w \in Workers, OpenTunnel(w)
         PROVE  TypeOK'
    BY <1>14, OpenedTask
    DEF OpenTunnel
  <1>15. ASSUME NEW w \in Workers, OpenFails(w)
         PROVE  TypeOK'
    BY <1>15, DoneTask
    DEF OpenFails
  <1>16. ASSUME NEW w \in Workers, SetTunnel(w)
         PROVE  TypeOK'
    BY <1>16, GotoTask
    DEF SetTunnel
  <1>17. ASSUME NEW w \in Workers, CloseProxy(w, "closeP2", "nilP2", "dial")
         PROVE  TypeOK'
    BY <1>17, GotoTask, ClosedProxy
    DEF CloseProxy
  <1>18. ASSUME NEW w \in Workers, ClearProxy(w, "nilP2", "dial")
         PROVE  TypeOK'
    BY <1>18, GotoTask
    DEF ClearProxy
  <1>19. ASSUME NEW w \in Workers, Dial(w)
         PROVE  TypeOK'
    BY <1>19, DialledTask
    DEF Dial
  <1>20. ASSUME NEW w \in Workers, DialFails(w)
         PROVE  TypeOK'
    BY <1>20, GotoTask
    DEF DialFails
  <1>21. ASSUME NEW w \in Workers, SetProxy(w)
         PROVE  TypeOK'
    BY <1>21, GotoTask
    DEF SetProxy
  <1>22. ASSUME NEW w \in Workers, Connected(w)
         PROVE  TypeOK'
    BY <1>22, DoneTask
    DEF Connected
  <1>23. ASSUME NEW w \in Workers, CloseTunnel(w, "closeT3", "nilT3", "idle")
         PROVE  TypeOK'
    BY <1>23, GotoTask
    DEF CloseTunnel
  <1>24. ASSUME NEW w \in Workers, ClearTunnel(w, "nilT3", "idle")
         PROVE  TypeOK'
    BY <1>24, GotoTask
    DEF ClearTunnel
  <1>25. ASSUME NEW p \in Ends, Breaks(p)
         PROVE  TypeOK'
    BY <1>25, LoopProxy
    DEF Breaks
  <1>26. ASSUME NEW p \in Ends, ChecksQuit(p)
         PROVE  TypeOK'
    BY <1>26, LoopProxy
    DEF ChecksQuit
  <1>27. ASSUME NEW p \in Ends, Redials(p)
         PROVE  TypeOK'
    BY <1>27, LoopProxy
    DEF Redials
  <1>28. ASSUME NEW p \in Ends, GivesUp(p)
         PROVE  TypeOK'
    BY <1>28, LoopProxy
    DEF GivesUp
  <1>29. ASSUME NEW p \in Ends, HandleDisconnect(p)
         PROVE  TypeOK'
    BY <1>29, LoopProxy
    DEF HandleDisconnect
  <1>30. ASSUME NEW p \in Ends, CallbackCloses(p)
         PROVE  TypeOK'
    BY <1>30, LoopProxy
    DEF CallbackCloses
  <1>31. ASSUME NEW p \in Ends, CallbackClears(p)
         PROVE  TypeOK'
    BY <1>31, LoopProxy
    DEF CallbackClears
  <1>32. ASSUME NEW t \in Ends, TunnelDies(t)
         PROVE  TypeOK'
    BY <1>32
    DEF TunnelDies
  <1>33. CASE UNCHANGED vars
    BY <1>33
    DEF vars
  <1> QED
    BY <1>1, <1>2, <1>3, <1>4, <1>5, <1>6, <1>7, <1>8, <1>9, <1>10, <1>11, <1>12, <1>13, <1>14,
       <1>15, <1>16, <1>17, <1>18, <1>19, <1>20, <1>21, <1>22, <1>23, <1>24, <1>25, <1>26, <1>27,
       <1>28, <1>29, <1>30, <1>31, <1>32, <1>33
       DEF Next, Work, Disconnect, Connect, ReadLoop

-----------------------------------------------------------------------------
(* What each step does, without EXCEPT.                                      *)

\* Only goroutine w moves; what it holds stays, or it lets go of it.
Only(w) == world' = world /\ \A v \in Workers \ {w} : work'[v] = work[v]
Holds(w)  == work'[w].p = work[w].p /\ work'[w].t = work[w].t
Free(w)   == work'[w].p = None /\ work'[w].t = None
Moves(w, from, to) ==
    /\ Only(w)
    /\ work[w].pc = from /\ work'[w].pc = to
    /\ IF to = "idle" THEN Free(w) ELSE Holds(w)
\* No goroutine moves.
Still == world' = world /\ work' = work
Ties  == tun' = tun /\ prx' = prx

\* What the types say of a state.
LEMMA Shape ==
  ASSUME TypeOK
  PROVE  /\ work \in [Workers -> Task] /\ prx \in [Ends -> Proxy]
         /\ tunnel \in Ends \cup {None} /\ proxy \in Ends \cup {None}
         /\ None \notin Ends
         /\ tun \in [Ends -> {"free", "up", "closed"}]
         /\ \A w \in Workers : work[w].p \in Ends \cup {None} /\ work[w].t \in Ends \cup {None}
         /\ \A p \in Ends : prx[p].quit \in BOOLEAN /\ prx[p].via \in Ends \cup {None}
  BY DEF TypeOK, Task, Proxy, Ends, None

\* A retry starts a goroutine of the health check, on a node that is not connected.
LEMMA RetryEffect ==
  ASSUME TypeOK, NEW w \in Workers, Retry(w)
  PROVE  /\ Only(w) /\ Free(w) /\ w \in world.checkers /\ listed
         /\ work[w].pc = "idle" /\ work'[w].pc = "closeP"
         /\ status # "connected" /\ node' = node /\ Ties
  BY Shape, IdleIsTask DEF Retry, Idle, Only, Free, Ties, node

\* A request starts a goroutine of its own.
LEMMA RequestEffect ==
  ASSUME TypeOK, NEW w \in Workers, NEW op \in Ops, Request(w, op)
  PROVE  /\ Only(w) /\ Free(w) /\ w \in world.handlers /\ listed
         /\ work[w].pc = "idle" /\ work'[w].pc \in {"prepare", "closeP"}
         /\ node' = node /\ Ties
  BY Shape, IdleIsTask DEF Request, Start, Idle, Only, Free, Ties, node

\* After its command a goroutine connects, if the node is still listed.
LEMMA CommandRunsEffect ==
  ASSUME TypeOK, NEW w \in Workers, CommandRuns(w)
  PROVE  /\ Only(w) /\ Free(w)
         /\ work[w].pc = "command" /\ work'[w].pc = IF listed THEN "closeP" ELSE "idle"
         /\ node' = node /\ Ties
  BY Shape, IdleIsTask DEF CommandRuns, Idle, Only, Free, Ties, node

\* Prepare shows a remote node as deploying.
LEMMA PrepareEffect ==
  ASSUME TypeOK, NEW w \in Workers, Prepare(w)
  PROVE  /\ \E to \in {"command", "closeP"} : Moves(w, "prepare", to)
         /\ status' \in {status, "deploying"}
         /\ listed' = listed /\ tunnel' = tunnel /\ proxy' = proxy /\ Ties
  BY Shape, GotoTask DEF Prepare, Moves, Holds, Only, Ties, Steps

\* What closing and clearing do to the node, its proxy and its tunnel.
ProxyCloses ==
    /\ node' = node /\ tun' = tun
    /\ proxy = None => prx' = prx
    /\ proxy # None => /\ prx'[proxy].quit /\ prx'[proxy].via = prx[proxy].via
                       /\ prx'[proxy].loop = 
                             IF prx[proxy].loop = "up" /\ ~prx[proxy].quit THEN "broken" ELSE prx[proxy].loop
    /\ \A q \in Ends \ {proxy} : prx'[q] = prx[q]
ProxyClears == proxy' = None /\ listed' = listed /\ status' = status /\ tunnel' = tunnel /\ Ties
TunnelCloses ==
    /\ node' = node /\ prx' = prx
    /\ \A t \in Ends : tun'[t] = IF t = tunnel THEN "closed" ELSE tun[t]
TunnelClears == tunnel' = None /\ listed' = listed /\ status' = status /\ proxy' = proxy /\ Ties


\* CloseProxy closes the proxy that the node has.
LEMMA CloseProxyEffect ==
  ASSUME TypeOK, NEW w \in Workers, NEW at \in Steps, NEW clear \in Steps, NEW skip \in Steps,
         CloseProxy(w, at, clear, skip)
  PROVE  /\ Moves(w, at, IF proxy = None THEN skip ELSE clear)
         /\ ProxyCloses
  <1>1. CASE proxy = None
    BY <1>1, Shape, GotoTask DEF CloseProxy, Moves, Holds, Free, Only, node, ProxyCloses
  <1>2. CASE proxy \in Ends
    BY <1>2, Shape, GotoTask, ClosedProxy DEF CloseProxy, Moves, Holds, Free, Only, node, ProxyCloses
  <1> QED
    BY <1>1, <1>2, Shape

\* ClearProxy leaves the node without a proxy.
LEMMA ClearProxyEffect ==
  ASSUME TypeOK, NEW w \in Workers, NEW at \in Steps, NEW next \in Steps, ClearProxy(w, at, next)
  PROVE  /\ Moves(w, at, next)
         /\ ProxyClears
  BY Shape, GotoTask DEF ClearProxy, Moves, Holds, Free, Only, Ties, ProxyClears

\* CloseTunnel closes the tunnel that the node has.
LEMMA CloseTunnelEffect ==
  ASSUME TypeOK, NEW w \in Workers, NEW at \in Steps, NEW clear \in Steps, NEW skip \in Steps,
         CloseTunnel(w, at, clear, skip)
  PROVE  /\ Moves(w, at, IF tunnel = None THEN skip ELSE clear)
         /\ TunnelCloses
  BY Shape, GotoTask DEF CloseTunnel, Moves, Holds, Free, Only, node, TunnelCloses

\* ClearTunnel leaves the node without a tunnel.
LEMMA ClearTunnelEffect ==
  ASSUME TypeOK, NEW w \in Workers, NEW at \in Steps, NEW next \in Steps, ClearTunnel(w, at, next)
  PROVE  /\ Moves(w, at, next)
         /\ TunnelClears
  BY Shape, GotoTask DEF ClearTunnel, Moves, Holds, Free, Only, Ties, TunnelClears

\* The closings with their labels.
LEMMA Closings ==
  ASSUME TypeOK, NEW w \in Workers
  PROVE  /\ CloseProxy(w, "closeP", "nilP", "closeT") =>
               Moves(w, "closeP", IF proxy = None THEN "closeT" ELSE "nilP") /\ ProxyCloses
         /\ CloseProxy(w, "closeP2", "nilP2", "dial") =>
               Moves(w, "closeP2", IF proxy = None THEN "dial" ELSE "nilP2") /\ ProxyCloses
         /\ CloseTunnel(w, "closeT3", "nilT3", "idle") =>
               Moves(w, "closeT3", IF tunnel = None THEN "idle" ELSE "nilT3") /\ TunnelCloses
  <1>1. /\ "closeP" \in Steps /\ "nilP" \in Steps /\ "closeT" \in Steps
        /\ "closeP2" \in Steps /\ "nilP2" \in Steps /\ "dial" \in Steps
        /\ "closeT3" \in Steps /\ "nilT3" \in Steps /\ "idle" \in Steps
    BY DEF Steps
  <1>2. CloseProxy(w, "closeP", "nilP", "closeT") =>
            Moves(w, "closeP", IF proxy = None THEN "closeT" ELSE "nilP") /\ ProxyCloses
    BY <1>1, CloseProxyEffect, Zenon
  <1>3. CloseProxy(w, "closeP2", "nilP2", "dial") =>
            Moves(w, "closeP2", IF proxy = None THEN "dial" ELSE "nilP2") /\ ProxyCloses
    BY <1>1, CloseProxyEffect, Zenon
  <1>4. CloseTunnel(w, "closeT3", "nilT3", "idle") =>
            Moves(w, "closeT3", IF tunnel = None THEN "idle" ELSE "nilT3") /\ TunnelCloses
    BY <1>1, CloseTunnelEffect, Zenon
  <1> QED
    BY <1>2, <1>3, <1>4

\* Where a disconnect leads.
LEMMA AfterDisconnectEffect ==
  ASSUME TypeOK, NEW w \in Workers
  PROVE  /\ AfterDisconnect(w) \in {"unlist", "command", "connecting"}
         /\ AfterTunnel \in {"closeP2", "open"}
         /\ AfterDisconnect(w) \in Steps /\ AfterTunnel \in Steps
         /\ \A s \in {"closeT", "nilT", "closeT2", "nilT2"} : s \in Steps
  BY DEF AfterDisconnect, AfterTunnel, Steps

\* Remove takes the node off the list.
LEMMA UnlistEffect ==
  ASSUME TypeOK, NEW w \in Workers, Unlist(w)
  PROVE  /\ Moves(w, "unlist", "idle")
         /\ ~listed' /\ status' = status /\ tunnel' = tunnel /\ proxy' = proxy /\ Ties
  BY Shape, DoneTask DEF Unlist, Moves, Free, Only, Ties

\* A command that fails leaves the node in error.
LEMMA CommandFailsEffect ==
  ASSUME TypeOK, NEW w \in Workers, CommandFails(w)
  PROVE  /\ Moves(w, "command", "idle")
         /\ status' = "error" /\ listed' = listed /\ tunnel' = tunnel /\ proxy' = proxy /\ Ties
  BY Shape, DoneTask DEF CommandFails, Moves, Free, Only, Ties

\* A tunnel that does not open leaves the node in error.
LEMMA OpenFailsEffect ==
  ASSUME TypeOK, NEW w \in Workers, OpenFails(w)
  PROVE  /\ Moves(w, "open", "idle")
         /\ status' = "error" /\ listed' = listed /\ tunnel' = tunnel /\ proxy' = proxy /\ Ties
  BY Shape, DoneTask DEF OpenFails, Moves, Free, Only, Ties

\* The last step of Connect.
LEMMA ConnectedEffect ==
  ASSUME TypeOK, NEW w \in Workers, Connected(w)
  PROVE  /\ Moves(w, "connected", "idle")
         /\ status' = "connected" /\ listed' = listed /\ tunnel' = tunnel /\ proxy' = proxy /\ Ties
  BY Shape, DoneTask DEF Connected, Moves, Free, Only, Ties

\* Connect says so.
LEMMA ConnectingEffect ==
  ASSUME TypeOK, NEW w \in Workers, Connecting(w)
  PROVE  /\ Moves(w, "connecting", "closeT2")
         /\ status' = "connecting" /\ listed' = listed /\ tunnel' = tunnel /\ proxy' = proxy /\ Ties
  BY Shape, GotoTask DEF Connecting, Moves, Holds, Only, Ties, Steps

\* The node gets the tunnel.
LEMMA SetTunnelEffect ==
  ASSUME TypeOK, NEW w \in Workers, SetTunnel(w)
  PROVE  /\ Moves(w, "setT", "closeP2")
         /\ tunnel' = work[w].t /\ listed' = listed /\ status' = status /\ proxy' = proxy /\ Ties
  BY Shape, GotoTask DEF SetTunnel, Moves, Holds, Only, Ties, Steps

\* The node gets the proxy.
LEMMA SetProxyEffect ==
  ASSUME TypeOK, NEW w \in Workers, SetProxy(w)
  PROVE  /\ Moves(w, "setP", "connected")
         /\ proxy' = work[w].p /\ listed' = listed /\ status' = status /\ tunnel' = tunnel /\ Ties
  BY Shape, GotoTask DEF SetProxy, Moves, Holds, Only, Ties, Steps

\* A proxy that cannot be dialled leaves the node in error.
LEMMA DialFailsEffect ==
  ASSUME TypeOK, NEW w \in Workers, DialFails(w)
  PROVE  /\ Moves(w, "dial", "closeT3")
         /\ status' = "error" /\ listed' = listed /\ tunnel' = tunnel /\ proxy' = proxy /\ Ties
  BY Shape, GotoTask DEF DialFails, Moves, Holds, Only, Ties, Steps

\* OpenTunnel opens a tunnel nobody uses, while no callback runs, and w holds it.
LEMMA OpenTunnelEffect ==
  ASSUME TypeOK, NEW w \in Workers, OpenTunnel(w)
  PROVE  /\ Only(w) /\ work[w].pc = "open" /\ work'[w].pc = "setT" /\ work'[w].p = work[w].p
         /\ CallbackOver /\ node' = node /\ prx' = prx
         /\ \E t \in Ends : /\ work'[w].t = t /\ TunnelFree(t)
                         /\ \A i \in Ends : tun'[i] = IF i = t THEN "up" ELSE tun[i]
  <1>1. PICK t \in Ends : /\ TunnelFree(t) /\ tun' = [tun EXCEPT ![t] = "up"]
                         /\ work' \in [Workers -> Task]
                         /\ work'[w].pc = "setT" /\ work'[w].t = t /\ work'[w].p = work[w].p
                         /\ \A v \in Workers \ {w} : work'[v] = work[v]
    BY OpenedTask, Shape
  <1>2. \A i \in Ends : tun'[i] = IF i = t THEN "up" ELSE tun[i]
    BY <1>1, Shape
  <1> QED
    BY <1>1, <1>2 DEF OpenTunnel, Only, node

\* Dial connects a proxy nobody uses, and w holds it.
LEMMA DialEffect ==
  ASSUME TypeOK, NEW w \in Workers, Dial(w)
  PROVE  /\ Only(w) /\ work[w].pc = "dial" /\ work'[w].pc = "setP" /\ node' = node /\ tun' = tun
         /\ \E p \in Ends : /\ work'[w].p = p /\ ProxyFree(p)
                         /\ prx'[p].loop = "up" /\ ~prx'[p].quit
                         /\ \A q \in Ends \ {p} : prx'[q] = prx[q]
  <1>1. PICK p \in Ends :
            /\ ProxyFree(p)
            /\ prx' \in [Ends -> Proxy] /\ prx'[p].loop = "up" /\ ~prx'[p].quit
            /\ \A q \in Ends \ {p} : prx'[q] = prx[q]
            /\ work' \in [Workers -> Task]
            /\ work'[w].pc = "setP" /\ work'[w].p = p
            /\ \A v \in Workers \ {w} : work'[v] = work[v]
    BY DialledTask, Shape
  <1> QED
    BY <1>1 DEF Dial, Only, node

\* A connection breaks.
LEMMA BreaksEffect ==
  ASSUME TypeOK, NEW p \in Ends, Breaks(p)
  PROVE  /\ Still /\ prx[p].loop = "up" /\ prx'[p].loop = "broken" /\ prx'[p].quit = prx[p].quit
         /\ prx'[p].via = prx[p].via /\ \A q \in Ends \ {p} : prx'[q] = prx[q]
         /\ node' = node /\ tun' = tun
  BY Shape, LoopProxy DEF Breaks, Still, node

\* A read loop that was closed is lost.
LEMMA ChecksQuitEffect ==
  ASSUME TypeOK, NEW p \in Ends, ChecksQuit(p)
  PROVE  /\ Still /\ prx[p].loop = "broken" /\ prx'[p].loop = (IF prx[p].quit THEN "lost" ELSE "asleep") /\ prx'[p].quit = prx[p].quit
         /\ prx'[p].via = prx[p].via /\ \A q \in Ends \ {p} : prx'[q] = prx[q]
         /\ node' = node /\ tun' = tun
  BY Shape, LoopProxy DEF ChecksQuit, Still, node

\* A read loop connects again.
LEMMA RedialsEffect ==
  ASSUME TypeOK, NEW p \in Ends, Redials(p)
  PROVE  /\ Still /\ prx[p].loop = "asleep" /\ prx'[p].loop = "up" /\ prx'[p].quit = prx[p].quit
         /\ prx'[p].via = prx[p].via /\ \A q \in Ends \ {p} : prx'[q] = prx[q]
         /\ node' = node /\ tun' = tun
  BY Shape, LoopProxy DEF Redials, Still, node

\* A read loop gives up, and nobody holds its proxy.
LEMMA GivesUpEffect ==
  ASSUME TypeOK, NEW p \in Ends, GivesUp(p)
  PROVE  /\ Still /\ prx[p].loop = "asleep" /\ prx'[p].loop = "lost" /\ prx'[p].quit = prx[p].quit
         /\ prx'[p].via = prx[p].via /\ \A q \in Ends \ {p} : prx'[q] = prx[q]
         /\ node' = node /\ tun' = tun
         /\ \A w \in Workers : work[w].p # p
  BY Shape, LoopProxy DEF GivesUp, Still, node

\* A lost read loop clears the node if the node has its proxy.
LEMMA HandleDisconnectEffect ==
  ASSUME TypeOK, NEW p \in Ends, HandleDisconnect(p)
  PROVE  /\ Still /\ prx[p].loop = "lost" /\ prx'[p].loop = (IF proxy = p /\ listed THEN "callback" ELSE "ended")
         /\ prx'[p].quit = prx[p].quit /\ prx'[p].via = prx[p].via /\ \A q \in Ends \ {p} : prx'[q] = prx[q]
         /\ listed' = listed
         /\ proxy # p => node' = node /\ tun' = tun
         /\ proxy = p => /\ proxy' = None /\ tunnel' = None /\ status' = "disconnected"
                         /\ \A t \in Ends : tun'[t] = IF t = tunnel THEN "closed" ELSE tun[t]
  <1>1. CASE proxy # p
    BY <1>1, Shape, LoopProxy DEF HandleDisconnect, Still, node
  <1>2. CASE proxy = p
    <2>1. \A t \in Ends : tun'[t] = IF t = tunnel THEN "closed" ELSE tun[t]
      BY <1>2, Shape DEF HandleDisconnect
    <2> QED
      BY <1>2, <2>1, Shape, LoopProxy DEF HandleDisconnect, Still, node
  <1> QED
    BY <1>1, <1>2

\* A callback closes the tunnel the node has.
LEMMA CallbackClosesEffect ==
  ASSUME TypeOK, NEW p \in Ends, CallbackCloses(p)
  PROVE  /\ Still /\ prx[p].loop = "callback" /\ prx'[p].loop = (IF tunnel = None THEN "ended" ELSE "clearing") /\ prx'[p].quit = prx[p].quit
         /\ prx'[p].via = prx[p].via /\ \A q \in Ends \ {p} : prx'[q] = prx[q]
         /\ node' = node
         /\ \A t \in Ends : tun'[t] = IF t = tunnel THEN "closed" ELSE tun[t]
  BY Shape, LoopProxy DEF CallbackCloses, Still, node

\* A callback leaves the node without a tunnel.
LEMMA CallbackClearsEffect ==
  ASSUME TypeOK, NEW p \in Ends, CallbackClears(p)
  PROVE  /\ Still /\ prx[p].loop = "clearing" /\ prx'[p].loop = "ended" /\ prx'[p].quit = prx[p].quit
         /\ prx'[p].via = prx[p].via /\ \A q \in Ends \ {p} : prx'[q] = prx[q]
         /\ tun' = tun /\ tunnel' = None /\ listed' = listed /\ status' = status /\ proxy' = proxy
  BY Shape, LoopProxy DEF CallbackClears, Still, node

\* A tunnel dies.
LEMMA TunnelDiesEffect ==
  ASSUME TypeOK, NEW t \in Ends, TunnelDies(t)
  PROVE  /\ Still /\ prx' = prx /\ node' = node
         /\ \A i \in Ends : tun'[i] = IF i = t THEN "closed" ELSE tun[i]
  BY Shape DEF TunnelDies, Still, node

-----------------------------------------------------------------------------
(* However many goroutines overlap.                                          *)

\* Every step keeps Owned.
LEMMA OwnedStep ==
  ASSUME TypeOK, TypeOK', Owned, [Next]_vars
  PROVE  Owned'
  <1> USE Shape DEF Moves, Only, Holds, Free, Still, Ties, node, Owned, Dialled
  <1>1. ASSUME NEW w \in Workers, Retry(w)
         PROVE  Owned'
    BY <1>1, RetryEffect
  <1>2. ASSUME NEW w \in Workers, NEW op \in Ops, Request(w, op)
         PROVE  Owned'
    BY <1>2, RequestEffect
  <1>3. ASSUME NEW w \in Workers, Prepare(w)
         PROVE  Owned'
    BY <1>3, PrepareEffect
  <1>4. ASSUME NEW w \in Workers, CloseProxy(w, "closeP", "nilP", "closeT")
         PROVE  Owned'
    <2>1. Moves(w, "closeP", IF proxy = None THEN "closeT" ELSE "nilP") /\ ProxyCloses
      BY ONLY TypeOK, w \in Workers, <1>4, Closings
    <2> QED
      BY <2>1 DEF ProxyCloses
  <1>5. ASSUME NEW w \in Workers, ClearProxy(w, "nilP", "closeT")
         PROVE  Owned'
    <2>1. Moves(w, "nilP", "closeT") /\ ProxyClears
      BY ONLY TypeOK, w \in Workers, <1>5, ClearProxyEffect DEF Steps
    <2> QED
      BY <2>1 DEF ProxyClears
  <1>6. ASSUME NEW w \in Workers, CloseTunnel(w, "closeT", "nilT", AfterDisconnect(w))
         PROVE  Owned'
    <2>1. Moves(w, "closeT", IF tunnel = None THEN AfterDisconnect(w) ELSE "nilT") /\ TunnelCloses
      BY ONLY TypeOK, w \in Workers, <1>6, CloseTunnelEffect, AfterDisconnectEffect
    <2> QED
      BY <2>1, AfterDisconnectEffect DEF TunnelCloses
  <1>7. ASSUME NEW w \in Workers, ClearTunnel(w, "nilT", AfterDisconnect(w))
         PROVE  Owned'
    <2>1. Moves(w, "nilT", AfterDisconnect(w)) /\ TunnelClears
      BY ONLY TypeOK, w \in Workers, <1>7, ClearTunnelEffect, AfterDisconnectEffect
    <2> QED
      BY <2>1, AfterDisconnectEffect DEF TunnelClears
  <1>8. ASSUME NEW w \in Workers, Unlist(w)
         PROVE  Owned'
    BY <1>8, UnlistEffect
  <1>9. ASSUME NEW w \in Workers, CommandRuns(w)
         PROVE  Owned'
    BY <1>9, CommandRunsEffect
  <1>10. ASSUME NEW w \in Workers, CommandFails(w)
         PROVE  Owned'
    BY <1>10, CommandFailsEffect
  <1>11. ASSUME NEW w \in Workers, Connecting(w)
         PROVE  Owned'
    BY <1>11, ConnectingEffect
  <1>12. ASSUME NEW w \in Workers, CloseTunnel(w, "closeT2", "nilT2", AfterTunnel)
         PROVE  Owned'
    <2>1. Moves(w, "closeT2", IF tunnel = None THEN AfterTunnel ELSE "nilT2") /\ TunnelCloses
      BY ONLY TypeOK, w \in Workers, <1>12, CloseTunnelEffect, AfterDisconnectEffect
    <2> QED
      BY <2>1, AfterDisconnectEffect DEF TunnelCloses
  <1>13. ASSUME NEW w \in Workers, ClearTunnel(w, "nilT2", AfterTunnel)
         PROVE  Owned'
    <2>1. Moves(w, "nilT2", AfterTunnel) /\ TunnelClears
      BY ONLY TypeOK, w \in Workers, <1>13, ClearTunnelEffect, AfterDisconnectEffect
    <2> QED
      BY <2>1, AfterDisconnectEffect DEF TunnelClears
  <1>14. ASSUME NEW w \in Workers, OpenTunnel(w)
         PROVE  Owned'
    BY <1>14, OpenTunnelEffect
  <1>15. ASSUME NEW w \in Workers, OpenFails(w)
         PROVE  Owned'
    BY <1>15, OpenFailsEffect
  <1>16. ASSUME NEW w \in Workers, SetTunnel(w)
         PROVE  Owned'
    BY <1>16, SetTunnelEffect
  <1>17. ASSUME NEW w \in Workers, CloseProxy(w, "closeP2", "nilP2", "dial")
         PROVE  Owned'
    <2>1. Moves(w, "closeP2", IF proxy = None THEN "dial" ELSE "nilP2") /\ ProxyCloses
      BY ONLY TypeOK, w \in Workers, <1>17, Closings
    <2> QED
      BY <2>1 DEF ProxyCloses
  <1>18. ASSUME NEW w \in Workers, ClearProxy(w, "nilP2", "dial")
         PROVE  Owned'
    <2>1. Moves(w, "nilP2", "dial") /\ ProxyClears
      BY ONLY TypeOK, w \in Workers, <1>18, ClearProxyEffect DEF Steps
    <2> QED
      BY <2>1 DEF ProxyClears
  <1>19. ASSUME NEW w \in Workers, Dial(w)
         PROVE  Owned'
    <2>1. PICK p \in Ends :
              /\ work'[w].p = p /\ ProxyFree(p)
              /\ prx'[p].loop = "up" /\ ~prx'[p].quit
              /\ \A q \in Ends \ {p} : prx'[q] = prx[q]
      BY <1>19, DialEffect
    <2>2. /\ proxy # p /\ prx[p].loop \notin Dialled
          /\ \A v \in Workers : work[v].p # p
      BY <2>1 DEF ProxyFree, Dialled
    <2>3. Only(w) /\ work[w].pc = "dial" /\ work'[w].pc = "setP" /\ node' = node
      BY <1>19, DialEffect
    <2>4. proxy' # None => prx'[proxy'].loop \in Dialled \cup {"lost"}
      BY <2>1, <2>2, <2>3 DEF Owned, node
    <2>5. \A v \in Workers : work'[v].pc # "idle" => v \in world'.checkers \cup world'.handlers
      BY <2>3 DEF Owned, Only
    <2>6. ASSUME NEW v \in Workers, work'[v].pc = "setP"
          PROVE  /\ work'[v].p \in Ends
                 /\ prx'[work'[v].p].loop \in Dialled /\ ~prx'[work'[v].p].quit
                 /\ proxy' # work'[v].p
                 /\ \A u \in Workers \ {v} : work'[u].p # work'[v].p
      <3>1. CASE v = w
        BY <3>1, <2>1, <2>2, <2>3 DEF Only, node, Dialled
      <3>2. CASE v # w
        BY <3>2, <2>6, <2>1, <2>2, <2>3 DEF Only, node, Owned
      <3> QED
        BY <3>1, <3>2
    <2> QED
      BY <2>4, <2>5, <2>6 DEF Owned
  <1>20. ASSUME NEW w \in Workers, DialFails(w)
         PROVE  Owned'
    BY <1>20, DialFailsEffect
  <1>21. ASSUME NEW w \in Workers, SetProxy(w)
         PROVE  Owned'
    BY <1>21, SetProxyEffect
  <1>22. ASSUME NEW w \in Workers, Connected(w)
         PROVE  Owned'
    BY <1>22, ConnectedEffect
  <1>23. ASSUME NEW w \in Workers, CloseTunnel(w, "closeT3", "nilT3", "idle")
         PROVE  Owned'
    <2>1. Moves(w, "closeT3", IF tunnel = None THEN "idle" ELSE "nilT3") /\ TunnelCloses
      BY ONLY TypeOK, w \in Workers, <1>23, Closings
    <2> QED
      BY <2>1 DEF TunnelCloses
  <1>24. ASSUME NEW w \in Workers, ClearTunnel(w, "nilT3", "idle")
         PROVE  Owned'
    <2>1. Moves(w, "nilT3", "idle") /\ TunnelClears
      BY ONLY TypeOK, w \in Workers, <1>24, ClearTunnelEffect DEF Steps
    <2> QED
      BY <2>1 DEF TunnelClears
  <1>25. ASSUME NEW p \in Ends, Breaks(p)
         PROVE  Owned'
    BY <1>25, BreaksEffect
  <1>26. ASSUME NEW p \in Ends, ChecksQuit(p)
         PROVE  Owned'
    BY <1>26, ChecksQuitEffect
  <1>27. ASSUME NEW p \in Ends, Redials(p)
         PROVE  Owned'
    BY <1>27, RedialsEffect
  <1>28. ASSUME NEW p \in Ends, GivesUp(p)
         PROVE  Owned'
    BY <1>28, GivesUpEffect
  <1>29. ASSUME NEW p \in Ends, HandleDisconnect(p)
         PROVE  Owned'
    BY <1>29, HandleDisconnectEffect
  <1>30. ASSUME NEW p \in Ends, CallbackCloses(p)
         PROVE  Owned'
    BY <1>30, CallbackClosesEffect
  <1>31. ASSUME NEW p \in Ends, CallbackClears(p)
         PROVE  Owned'
    BY <1>31, CallbackClearsEffect
  <1>32. ASSUME NEW t \in Ends, TunnelDies(t)
         PROVE  Owned'
    BY <1>32, TunnelDiesEffect
  <1>33. CASE UNCHANGED vars
    BY <1>33 DEF vars
  <1> QED
    BY ONLY [Next]_vars, <1>1, <1>2, <1>3, <1>4, <1>5, <1>6, <1>7, <1>8, <1>9, <1>10, <1>11,
       <1>12, <1>13, <1>14, <1>15, <1>16, <1>17, <1>18, <1>19, <1>20, <1>21, <1>22, <1>23, <1>24,
       <1>25, <1>26, <1>27, <1>28, <1>29, <1>30, <1>31, <1>32, <1>33
       DEF Next, Work, Disconnect, Connect, ReadLoop

-----------------------------------------------------------------------------
(* One goroutine takes care of the node.                                     *)

\* Then no other moves.
LEMMA OnlyOne ==
  ASSUME TypeOK, Owned, NEW u \in Workers, world.checkers \cup world.handlers = {u}, NEW w \in Workers,
         Retry(w) \/ Work(w) \/ \E op \in Ops : Request(w, op)
  PROVE  w = u
  <1>1. CASE w \in world.checkers \cup world.handlers
    BY <1>1
  <1>2. CASE work[w].pc # "idle"
    BY <1>2 DEF Owned
  <1> QED
    BY <1>1, <1>2
    DEF Retry, Work, Request, Prepare, Disconnect, Unlist, CommandRuns, CommandFails, Connect,
        CloseProxy, ClearProxy, CloseTunnel, ClearTunnel, Connecting, OpenTunnel, OpenFails,
        SetTunnel, Dial, DialFails, SetProxy, Connected

\* The node is without a proxy and a tunnel where u cleared them.
LEMMA AbsentStep ==
  ASSUME TypeOK, TypeOK', Owned, Owned', NEW u \in Workers, world.checkers \cup world.handlers = {u}, Caring(u), [Next]_vars
  PROVE  Absent(u)'
  <1> USE Shape DEF Moves, Only, Holds, Free, Still, Ties, node, Caring, Absent, NoProxyAt, NoTunnelAt
  <1>1. ASSUME Retry(u)
         PROVE  Absent(u)'
    BY <1>1, RetryEffect
  <1>2. ASSUME NEW op \in Ops, Request(u, op)
         PROVE  Absent(u)'
    BY <1>2, RequestEffect
  <1>3. ASSUME Prepare(u)
         PROVE  Absent(u)'
    BY <1>3, PrepareEffect
  <1>4. ASSUME CloseProxy(u, "closeP", "nilP", "closeT")
         PROVE  Absent(u)'
    <2>1. Moves(u, "closeP", IF proxy = None THEN "closeT" ELSE "nilP") /\ ProxyCloses
      BY ONLY TypeOK, u \in Workers, <1>4, Closings
    <2> QED
      BY <2>1 DEF ProxyCloses
  <1>5. ASSUME ClearProxy(u, "nilP", "closeT")
         PROVE  Absent(u)'
    <2>1. Moves(u, "nilP", "closeT") /\ ProxyClears
      BY ONLY TypeOK, u \in Workers, <1>5, ClearProxyEffect DEF Steps
    <2> QED
      BY <2>1 DEF ProxyClears
  <1>6. ASSUME CloseTunnel(u, "closeT", "nilT", AfterDisconnect(u))
         PROVE  Absent(u)'
    <2>1. Moves(u, "closeT", IF tunnel = None THEN AfterDisconnect(u) ELSE "nilT") /\ TunnelCloses
      BY ONLY TypeOK, u \in Workers, <1>6, CloseTunnelEffect, AfterDisconnectEffect
    <2> QED
      BY <2>1, AfterDisconnectEffect DEF TunnelCloses
  <1>7. ASSUME ClearTunnel(u, "nilT", AfterDisconnect(u))
         PROVE  Absent(u)'
    <2>1. Moves(u, "nilT", AfterDisconnect(u)) /\ TunnelClears
      BY ONLY TypeOK, u \in Workers, <1>7, ClearTunnelEffect, AfterDisconnectEffect
    <2> QED
      BY <2>1, AfterDisconnectEffect DEF TunnelClears
  <1>8. ASSUME Unlist(u)
         PROVE  Absent(u)'
    BY <1>8, UnlistEffect
  <1>9. ASSUME CommandRuns(u)
         PROVE  Absent(u)'
    BY <1>9, CommandRunsEffect
  <1>10. ASSUME CommandFails(u)
         PROVE  Absent(u)'
    BY <1>10, CommandFailsEffect
  <1>11. ASSUME Connecting(u)
         PROVE  Absent(u)'
    BY <1>11, ConnectingEffect
  <1>12. ASSUME CloseTunnel(u, "closeT2", "nilT2", AfterTunnel)
         PROVE  Absent(u)'
    <2>1. Moves(u, "closeT2", IF tunnel = None THEN AfterTunnel ELSE "nilT2") /\ TunnelCloses
      BY ONLY TypeOK, u \in Workers, <1>12, CloseTunnelEffect, AfterDisconnectEffect
    <2> QED
      BY <2>1, AfterDisconnectEffect DEF TunnelCloses
  <1>13. ASSUME ClearTunnel(u, "nilT2", AfterTunnel)
         PROVE  Absent(u)'
    <2>1. Moves(u, "nilT2", AfterTunnel) /\ TunnelClears
      BY ONLY TypeOK, u \in Workers, <1>13, ClearTunnelEffect, AfterDisconnectEffect
    <2> QED
      BY <2>1, AfterDisconnectEffect DEF TunnelClears
  <1>14. ASSUME OpenTunnel(u)
         PROVE  Absent(u)'
    BY <1>14, OpenTunnelEffect
  <1>15. ASSUME OpenFails(u)
         PROVE  Absent(u)'
    BY <1>15, OpenFailsEffect
  <1>16. ASSUME SetTunnel(u)
         PROVE  Absent(u)'
    BY <1>16, SetTunnelEffect
  <1>17. ASSUME CloseProxy(u, "closeP2", "nilP2", "dial")
         PROVE  Absent(u)'
    <2>1. Moves(u, "closeP2", IF proxy = None THEN "dial" ELSE "nilP2") /\ ProxyCloses
      BY ONLY TypeOK, u \in Workers, <1>17, Closings
    <2> QED
      BY <2>1 DEF ProxyCloses
  <1>18. ASSUME ClearProxy(u, "nilP2", "dial")
         PROVE  Absent(u)'
    <2>1. Moves(u, "nilP2", "dial") /\ ProxyClears
      BY ONLY TypeOK, u \in Workers, <1>18, ClearProxyEffect DEF Steps
    <2> QED
      BY <2>1 DEF ProxyClears
  <1>19. ASSUME Dial(u)
         PROVE  Absent(u)'
    BY <1>19, DialEffect
  <1>20. ASSUME DialFails(u)
         PROVE  Absent(u)'
    BY <1>20, DialFailsEffect
  <1>21. ASSUME SetProxy(u)
         PROVE  Absent(u)'
    BY <1>21, SetProxyEffect
  <1>22. ASSUME Connected(u)
         PROVE  Absent(u)'
    BY <1>22, ConnectedEffect
  <1>23. ASSUME CloseTunnel(u, "closeT3", "nilT3", "idle")
         PROVE  Absent(u)'
    <2>1. Moves(u, "closeT3", IF tunnel = None THEN "idle" ELSE "nilT3") /\ TunnelCloses
      BY ONLY TypeOK, u \in Workers, <1>23, Closings
    <2> QED
      BY <2>1 DEF TunnelCloses
  <1>24. ASSUME ClearTunnel(u, "nilT3", "idle")
         PROVE  Absent(u)'
    <2>1. Moves(u, "nilT3", "idle") /\ TunnelClears
      BY ONLY TypeOK, u \in Workers, <1>24, ClearTunnelEffect DEF Steps
    <2> QED
      BY <2>1 DEF TunnelClears
  <1>25. ASSUME NEW p \in Ends, Breaks(p)
         PROVE  Absent(u)'
    BY <1>25, BreaksEffect
  <1>26. ASSUME NEW p \in Ends, ChecksQuit(p)
         PROVE  Absent(u)'
    BY <1>26, ChecksQuitEffect
  <1>27. ASSUME NEW p \in Ends, Redials(p)
         PROVE  Absent(u)'
    BY <1>27, RedialsEffect
  <1>28. ASSUME NEW p \in Ends, GivesUp(p)
         PROVE  Absent(u)'
    BY <1>28, GivesUpEffect
  <1>29. ASSUME NEW p \in Ends, HandleDisconnect(p)
         PROVE  Absent(u)'
    BY <1>29, HandleDisconnectEffect
  <1>30. ASSUME NEW p \in Ends, CallbackCloses(p)
         PROVE  Absent(u)'
    BY <1>30, CallbackClosesEffect
  <1>31. ASSUME NEW p \in Ends, CallbackClears(p)
         PROVE  Absent(u)'
    BY <1>31, CallbackClearsEffect
  <1>32. ASSUME NEW t \in Ends, TunnelDies(t)
         PROVE  Absent(u)'
    BY <1>32, TunnelDiesEffect
  <1>33. CASE UNCHANGED vars
    BY <1>33 DEF vars
  <1> QED
    BY ONLY [Next]_vars, OnlyOne, TypeOK, Owned, world.checkers \cup world.handlers = {u}, u \in Workers,
       <1>1, <1>2, <1>3, <1>4, <1>5, <1>6, <1>7, <1>8, <1>9, <1>10, <1>11, <1>12, <1>13, <1>14, <1>15, <1>16, <1>17, <1>18, <1>19, <1>20, <1>21, <1>22, <1>23, <1>24, <1>25, <1>26, <1>27, <1>28, <1>29, <1>30, <1>31, <1>32, <1>33
       DEF Next, Work, Disconnect, Connect, ReadLoop

\* No callback that has closed the tunnel meets another tunnel.
LEMMA CallbacksStep ==
  ASSUME TypeOK, TypeOK', Owned, Owned', NEW u \in Workers, world.checkers \cup world.handlers = {u}, Caring(u), [Next]_vars
  PROVE  Callbacks(u)'
  <1> USE Shape DEF Moves, Only, Holds, Free, Still, Ties, node, Caring, Absent, NoProxyAt, NoTunnelAt, Callbacks, CallbackOver
  <1>1. ASSUME Retry(u)
         PROVE  Callbacks(u)'
    BY <1>1, RetryEffect
  <1>2. ASSUME NEW op \in Ops, Request(u, op)
         PROVE  Callbacks(u)'
    BY <1>2, RequestEffect
  <1>3. ASSUME Prepare(u)
         PROVE  Callbacks(u)'
    BY <1>3, PrepareEffect
  <1>4. ASSUME CloseProxy(u, "closeP", "nilP", "closeT")
         PROVE  Callbacks(u)'
    <2>1. Moves(u, "closeP", IF proxy = None THEN "closeT" ELSE "nilP") /\ ProxyCloses
      BY ONLY TypeOK, u \in Workers, <1>4, Closings
    <2> QED
      BY <2>1 DEF ProxyCloses
  <1>5. ASSUME ClearProxy(u, "nilP", "closeT")
         PROVE  Callbacks(u)'
    <2>1. Moves(u, "nilP", "closeT") /\ ProxyClears
      BY ONLY TypeOK, u \in Workers, <1>5, ClearProxyEffect DEF Steps
    <2> QED
      BY <2>1 DEF ProxyClears
  <1>6. ASSUME CloseTunnel(u, "closeT", "nilT", AfterDisconnect(u))
         PROVE  Callbacks(u)'
    <2>1. Moves(u, "closeT", IF tunnel = None THEN AfterDisconnect(u) ELSE "nilT") /\ TunnelCloses
      BY ONLY TypeOK, u \in Workers, <1>6, CloseTunnelEffect, AfterDisconnectEffect
    <2> QED
      BY <2>1, AfterDisconnectEffect DEF TunnelCloses
  <1>7. ASSUME ClearTunnel(u, "nilT", AfterDisconnect(u))
         PROVE  Callbacks(u)'
    <2>1. Moves(u, "nilT", AfterDisconnect(u)) /\ TunnelClears
      BY ONLY TypeOK, u \in Workers, <1>7, ClearTunnelEffect, AfterDisconnectEffect
    <2> QED
      BY <2>1, AfterDisconnectEffect DEF TunnelClears
  <1>8. ASSUME Unlist(u)
         PROVE  Callbacks(u)'
    BY <1>8, UnlistEffect
  <1>9. ASSUME CommandRuns(u)
         PROVE  Callbacks(u)'
    BY <1>9, CommandRunsEffect
  <1>10. ASSUME CommandFails(u)
         PROVE  Callbacks(u)'
    BY <1>10, CommandFailsEffect
  <1>11. ASSUME Connecting(u)
         PROVE  Callbacks(u)'
    BY <1>11, ConnectingEffect
  <1>12. ASSUME CloseTunnel(u, "closeT2", "nilT2", AfterTunnel)
         PROVE  Callbacks(u)'
    <2>1. Moves(u, "closeT2", IF tunnel = None THEN AfterTunnel ELSE "nilT2") /\ TunnelCloses
      BY ONLY TypeOK, u \in Workers, <1>12, CloseTunnelEffect, AfterDisconnectEffect
    <2> QED
      BY <2>1, AfterDisconnectEffect DEF TunnelCloses
  <1>13. ASSUME ClearTunnel(u, "nilT2", AfterTunnel)
         PROVE  Callbacks(u)'
    <2>1. Moves(u, "nilT2", AfterTunnel) /\ TunnelClears
      BY ONLY TypeOK, u \in Workers, <1>13, ClearTunnelEffect, AfterDisconnectEffect
    <2> QED
      BY <2>1, AfterDisconnectEffect DEF TunnelClears
  <1>14. ASSUME OpenTunnel(u)
         PROVE  Callbacks(u)'
    BY <1>14, OpenTunnelEffect
  <1>15. ASSUME OpenFails(u)
         PROVE  Callbacks(u)'
    BY <1>15, OpenFailsEffect
  <1>16. ASSUME SetTunnel(u)
         PROVE  Callbacks(u)'
    BY <1>16, SetTunnelEffect
  <1>17. ASSUME CloseProxy(u, "closeP2", "nilP2", "dial")
         PROVE  Callbacks(u)'
    <2>1. Moves(u, "closeP2", IF proxy = None THEN "dial" ELSE "nilP2") /\ ProxyCloses
      BY ONLY TypeOK, u \in Workers, <1>17, Closings
    <2> QED
      BY <2>1 DEF ProxyCloses
  <1>18. ASSUME ClearProxy(u, "nilP2", "dial")
         PROVE  Callbacks(u)'
    <2>1. Moves(u, "nilP2", "dial") /\ ProxyClears
      BY ONLY TypeOK, u \in Workers, <1>18, ClearProxyEffect DEF Steps
    <2> QED
      BY <2>1 DEF ProxyClears
  <1>19. ASSUME Dial(u)
         PROVE  Callbacks(u)'
    BY <1>19, DialEffect
  <1>20. ASSUME DialFails(u)
         PROVE  Callbacks(u)'
    BY <1>20, DialFailsEffect
  <1>21. ASSUME SetProxy(u)
         PROVE  Callbacks(u)'
    BY <1>21, SetProxyEffect
  <1>22. ASSUME Connected(u)
         PROVE  Callbacks(u)'
    BY <1>22, ConnectedEffect
  <1>23. ASSUME CloseTunnel(u, "closeT3", "nilT3", "idle")
         PROVE  Callbacks(u)'
    <2>1. Moves(u, "closeT3", IF tunnel = None THEN "idle" ELSE "nilT3") /\ TunnelCloses
      BY ONLY TypeOK, u \in Workers, <1>23, Closings
    <2> QED
      BY <2>1 DEF TunnelCloses
  <1>24. ASSUME ClearTunnel(u, "nilT3", "idle")
         PROVE  Callbacks(u)'
    <2>1. Moves(u, "nilT3", "idle") /\ TunnelClears
      BY ONLY TypeOK, u \in Workers, <1>24, ClearTunnelEffect DEF Steps
    <2> QED
      BY <2>1 DEF TunnelClears
  <1>25. ASSUME NEW p \in Ends, Breaks(p)
         PROVE  Callbacks(u)'
    BY <1>25, BreaksEffect
  <1>26. ASSUME NEW p \in Ends, ChecksQuit(p)
         PROVE  Callbacks(u)'
    BY <1>26, ChecksQuitEffect
  <1>27. ASSUME NEW p \in Ends, Redials(p)
         PROVE  Callbacks(u)'
    BY <1>27, RedialsEffect
  <1>28. ASSUME NEW p \in Ends, GivesUp(p)
         PROVE  Callbacks(u)'
    BY <1>28, GivesUpEffect
  <1>29. ASSUME NEW p \in Ends, HandleDisconnect(p)
         PROVE  Callbacks(u)'
    BY <1>29, HandleDisconnectEffect
  <1>30. ASSUME NEW p \in Ends, CallbackCloses(p)
         PROVE  Callbacks(u)'
    BY <1>30, CallbackClosesEffect
  <1>31. ASSUME NEW p \in Ends, CallbackClears(p)
         PROVE  Callbacks(u)'
    BY <1>31, CallbackClearsEffect
  <1>32. ASSUME NEW t \in Ends, TunnelDies(t)
         PROVE  Callbacks(u)'
    BY <1>32, TunnelDiesEffect
  <1>33. CASE UNCHANGED vars
    BY <1>33 DEF vars
  <1> QED
    BY ONLY [Next]_vars, OnlyOne, TypeOK, Owned, world.checkers \cup world.handlers = {u}, u \in Workers,
       <1>1, <1>2, <1>3, <1>4, <1>5, <1>6, <1>7, <1>8, <1>9, <1>10, <1>11, <1>12, <1>13, <1>14, <1>15, <1>16, <1>17, <1>18, <1>19, <1>20, <1>21, <1>22, <1>23, <1>24, <1>25, <1>26, <1>27, <1>28, <1>29, <1>30, <1>31, <1>32, <1>33
       DEF Next, Work, Disconnect, Connect, ReadLoop

\* Nothing is cleared that was not closed.
LEMMA ClosingStep ==
  ASSUME TypeOK, TypeOK', Owned, Owned', NEW u \in Workers, world.checkers \cup world.handlers = {u}, Caring(u), [Next]_vars
  PROVE  Closing(u)'
  <1> USE Shape DEF Moves, Only, Holds, Free, Still, Ties, node, Caring, Closing
  <1>1. ASSUME Retry(u)
         PROVE  Closing(u)'
    BY <1>1, RetryEffect
  <1>2. ASSUME NEW op \in Ops, Request(u, op)
         PROVE  Closing(u)'
    BY <1>2, RequestEffect
  <1>3. ASSUME Prepare(u)
         PROVE  Closing(u)'
    BY <1>3, PrepareEffect
  <1>4. ASSUME CloseProxy(u, "closeP", "nilP", "closeT")
         PROVE  Closing(u)'
    <2>1. Moves(u, "closeP", IF proxy = None THEN "closeT" ELSE "nilP") /\ ProxyCloses
      BY ONLY TypeOK, u \in Workers, <1>4, Closings
    <2> QED
      BY <2>1 DEF ProxyCloses
  <1>5. ASSUME ClearProxy(u, "nilP", "closeT")
         PROVE  Closing(u)'
    <2>1. Moves(u, "nilP", "closeT") /\ ProxyClears
      BY ONLY TypeOK, u \in Workers, <1>5, ClearProxyEffect DEF Steps
    <2> QED
      BY <2>1 DEF ProxyClears
  <1>6. ASSUME CloseTunnel(u, "closeT", "nilT", AfterDisconnect(u))
         PROVE  Closing(u)'
    <2>1. Moves(u, "closeT", IF tunnel = None THEN AfterDisconnect(u) ELSE "nilT") /\ TunnelCloses
      BY ONLY TypeOK, u \in Workers, <1>6, CloseTunnelEffect, AfterDisconnectEffect
    <2> QED
      BY <2>1, AfterDisconnectEffect DEF TunnelCloses
  <1>7. ASSUME ClearTunnel(u, "nilT", AfterDisconnect(u))
         PROVE  Closing(u)'
    <2>1. Moves(u, "nilT", AfterDisconnect(u)) /\ TunnelClears
      BY ONLY TypeOK, u \in Workers, <1>7, ClearTunnelEffect, AfterDisconnectEffect
    <2> QED
      BY <2>1, AfterDisconnectEffect DEF TunnelClears
  <1>8. ASSUME Unlist(u)
         PROVE  Closing(u)'
    BY <1>8, UnlistEffect
  <1>9. ASSUME CommandRuns(u)
         PROVE  Closing(u)'
    BY <1>9, CommandRunsEffect
  <1>10. ASSUME CommandFails(u)
         PROVE  Closing(u)'
    BY <1>10, CommandFailsEffect
  <1>11. ASSUME Connecting(u)
         PROVE  Closing(u)'
    BY <1>11, ConnectingEffect
  <1>12. ASSUME CloseTunnel(u, "closeT2", "nilT2", AfterTunnel)
         PROVE  Closing(u)'
    <2>1. Moves(u, "closeT2", IF tunnel = None THEN AfterTunnel ELSE "nilT2") /\ TunnelCloses
      BY ONLY TypeOK, u \in Workers, <1>12, CloseTunnelEffect, AfterDisconnectEffect
    <2> QED
      BY <2>1, AfterDisconnectEffect DEF TunnelCloses
  <1>13. ASSUME ClearTunnel(u, "nilT2", AfterTunnel)
         PROVE  Closing(u)'
    <2>1. Moves(u, "nilT2", AfterTunnel) /\ TunnelClears
      BY ONLY TypeOK, u \in Workers, <1>13, ClearTunnelEffect, AfterDisconnectEffect
    <2> QED
      BY <2>1, AfterDisconnectEffect DEF TunnelClears
  <1>14. ASSUME OpenTunnel(u)
         PROVE  Closing(u)'
    BY <1>14, OpenTunnelEffect
  <1>15. ASSUME OpenFails(u)
         PROVE  Closing(u)'
    BY <1>15, OpenFailsEffect
  <1>16. ASSUME SetTunnel(u)
         PROVE  Closing(u)'
    BY <1>16, SetTunnelEffect
  <1>17. ASSUME CloseProxy(u, "closeP2", "nilP2", "dial")
         PROVE  Closing(u)'
    <2>1. Moves(u, "closeP2", IF proxy = None THEN "dial" ELSE "nilP2") /\ ProxyCloses
      BY ONLY TypeOK, u \in Workers, <1>17, Closings
    <2> QED
      BY <2>1 DEF ProxyCloses
  <1>18. ASSUME ClearProxy(u, "nilP2", "dial")
         PROVE  Closing(u)'
    <2>1. Moves(u, "nilP2", "dial") /\ ProxyClears
      BY ONLY TypeOK, u \in Workers, <1>18, ClearProxyEffect DEF Steps
    <2> QED
      BY <2>1 DEF ProxyClears
  <1>19. ASSUME Dial(u)
         PROVE  Closing(u)'
    BY <1>19, DialEffect
  <1>20. ASSUME DialFails(u)
         PROVE  Closing(u)'
    BY <1>20, DialFailsEffect
  <1>21. ASSUME SetProxy(u)
         PROVE  Closing(u)'
    BY <1>21, SetProxyEffect
  <1>22. ASSUME Connected(u)
         PROVE  Closing(u)'
    BY <1>22, ConnectedEffect
  <1>23. ASSUME CloseTunnel(u, "closeT3", "nilT3", "idle")
         PROVE  Closing(u)'
    <2>1. Moves(u, "closeT3", IF tunnel = None THEN "idle" ELSE "nilT3") /\ TunnelCloses
      BY ONLY TypeOK, u \in Workers, <1>23, Closings
    <2> QED
      BY <2>1 DEF TunnelCloses
  <1>24. ASSUME ClearTunnel(u, "nilT3", "idle")
         PROVE  Closing(u)'
    <2>1. Moves(u, "nilT3", "idle") /\ TunnelClears
      BY ONLY TypeOK, u \in Workers, <1>24, ClearTunnelEffect DEF Steps
    <2> QED
      BY <2>1 DEF TunnelClears
  <1>25. ASSUME NEW p \in Ends, Breaks(p)
         PROVE  Closing(u)'
    BY <1>25, BreaksEffect
  <1>26. ASSUME NEW p \in Ends, ChecksQuit(p)
         PROVE  Closing(u)'
    BY <1>26, ChecksQuitEffect
  <1>27. ASSUME NEW p \in Ends, Redials(p)
         PROVE  Closing(u)'
    BY <1>27, RedialsEffect
  <1>28. ASSUME NEW p \in Ends, GivesUp(p)
         PROVE  Closing(u)'
    BY <1>28, GivesUpEffect
  <1>29. ASSUME NEW p \in Ends, HandleDisconnect(p)
         PROVE  Closing(u)'
    BY <1>29, HandleDisconnectEffect
  <1>30. ASSUME NEW p \in Ends, CallbackCloses(p)
         PROVE  Closing(u)'
    BY <1>30, CallbackClosesEffect
  <1>31. ASSUME NEW p \in Ends, CallbackClears(p)
         PROVE  Closing(u)'
    BY <1>31, CallbackClearsEffect
  <1>32. ASSUME NEW t \in Ends, TunnelDies(t)
         PROVE  Closing(u)'
    BY <1>32, TunnelDiesEffect
  <1>33. CASE UNCHANGED vars
    BY <1>33 DEF vars
  <1> QED
    BY ONLY [Next]_vars, OnlyOne, TypeOK, Owned, world.checkers \cup world.handlers = {u}, u \in Workers,
       <1>1, <1>2, <1>3, <1>4, <1>5, <1>6, <1>7, <1>8, <1>9, <1>10, <1>11, <1>12, <1>13, <1>14, <1>15, <1>16, <1>17, <1>18, <1>19, <1>20, <1>21, <1>22, <1>23, <1>24, <1>25, <1>26, <1>27, <1>28, <1>29, <1>30, <1>31, <1>32, <1>33
       DEF Next, Work, Disconnect, Connect, ReadLoop

\* A living proxy is the node's or held by u.
LEMMA ProxiesHeldStep ==
  ASSUME TypeOK, TypeOK', Owned, Owned', NEW u \in Workers, world.checkers \cup world.handlers = {u}, Caring(u), [Next]_vars
  PROVE  ProxiesHeld(u)'
  <1> USE Shape DEF Moves, Only, Holds, Free, Still, Ties, node, Caring, Absent, NoProxyAt, NoTunnelAt, Closing, ProxiesHeld, Wanted, Dialled
  <1>1. ASSUME Retry(u)
         PROVE  ProxiesHeld(u)'
    BY <1>1, RetryEffect
  <1>2. ASSUME NEW op \in Ops, Request(u, op)
         PROVE  ProxiesHeld(u)'
    BY <1>2, RequestEffect
  <1>3. ASSUME Prepare(u)
         PROVE  ProxiesHeld(u)'
    BY <1>3, PrepareEffect
  <1>4. ASSUME CloseProxy(u, "closeP", "nilP", "closeT")
         PROVE  ProxiesHeld(u)'
    <2>1. Moves(u, "closeP", IF proxy = None THEN "closeT" ELSE "nilP") /\ ProxyCloses
      BY ONLY TypeOK, u \in Workers, <1>4, Closings
    <2> QED
      BY <2>1 DEF ProxyCloses
  <1>5. ASSUME ClearProxy(u, "nilP", "closeT")
         PROVE  ProxiesHeld(u)'
    <2>1. Moves(u, "nilP", "closeT") /\ ProxyClears
      BY ONLY TypeOK, u \in Workers, <1>5, ClearProxyEffect DEF Steps
    <2> QED
      BY <2>1 DEF ProxyClears
  <1>6. ASSUME CloseTunnel(u, "closeT", "nilT", AfterDisconnect(u))
         PROVE  ProxiesHeld(u)'
    <2>1. Moves(u, "closeT", IF tunnel = None THEN AfterDisconnect(u) ELSE "nilT") /\ TunnelCloses
      BY ONLY TypeOK, u \in Workers, <1>6, CloseTunnelEffect, AfterDisconnectEffect
    <2> QED
      BY <2>1, AfterDisconnectEffect DEF TunnelCloses
  <1>7. ASSUME ClearTunnel(u, "nilT", AfterDisconnect(u))
         PROVE  ProxiesHeld(u)'
    <2>1. Moves(u, "nilT", AfterDisconnect(u)) /\ TunnelClears
      BY ONLY TypeOK, u \in Workers, <1>7, ClearTunnelEffect, AfterDisconnectEffect
    <2> QED
      BY <2>1, AfterDisconnectEffect DEF TunnelClears
  <1>8. ASSUME Unlist(u)
         PROVE  ProxiesHeld(u)'
    BY <1>8, UnlistEffect
  <1>9. ASSUME CommandRuns(u)
         PROVE  ProxiesHeld(u)'
    BY <1>9, CommandRunsEffect
  <1>10. ASSUME CommandFails(u)
         PROVE  ProxiesHeld(u)'
    BY <1>10, CommandFailsEffect
  <1>11. ASSUME Connecting(u)
         PROVE  ProxiesHeld(u)'
    BY <1>11, ConnectingEffect
  <1>12. ASSUME CloseTunnel(u, "closeT2", "nilT2", AfterTunnel)
         PROVE  ProxiesHeld(u)'
    <2>1. Moves(u, "closeT2", IF tunnel = None THEN AfterTunnel ELSE "nilT2") /\ TunnelCloses
      BY ONLY TypeOK, u \in Workers, <1>12, CloseTunnelEffect, AfterDisconnectEffect
    <2> QED
      BY <2>1, AfterDisconnectEffect DEF TunnelCloses
  <1>13. ASSUME ClearTunnel(u, "nilT2", AfterTunnel)
         PROVE  ProxiesHeld(u)'
    <2>1. Moves(u, "nilT2", AfterTunnel) /\ TunnelClears
      BY ONLY TypeOK, u \in Workers, <1>13, ClearTunnelEffect, AfterDisconnectEffect
    <2> QED
      BY <2>1, AfterDisconnectEffect DEF TunnelClears
  <1>14. ASSUME OpenTunnel(u)
         PROVE  ProxiesHeld(u)'
    BY <1>14, OpenTunnelEffect
  <1>15. ASSUME OpenFails(u)
         PROVE  ProxiesHeld(u)'
    BY <1>15, OpenFailsEffect
  <1>16. ASSUME SetTunnel(u)
         PROVE  ProxiesHeld(u)'
    BY <1>16, SetTunnelEffect
  <1>17. ASSUME CloseProxy(u, "closeP2", "nilP2", "dial")
         PROVE  ProxiesHeld(u)'
    <2>1. Moves(u, "closeP2", IF proxy = None THEN "dial" ELSE "nilP2") /\ ProxyCloses
      BY ONLY TypeOK, u \in Workers, <1>17, Closings
    <2> QED
      BY <2>1 DEF ProxyCloses
  <1>18. ASSUME ClearProxy(u, "nilP2", "dial")
         PROVE  ProxiesHeld(u)'
    <2>1. Moves(u, "nilP2", "dial") /\ ProxyClears
      BY ONLY TypeOK, u \in Workers, <1>18, ClearProxyEffect DEF Steps
    <2> QED
      BY <2>1 DEF ProxyClears
  <1>19. ASSUME Dial(u)
         PROVE  ProxiesHeld(u)'
    BY <1>19, DialEffect
  <1>20. ASSUME DialFails(u)
         PROVE  ProxiesHeld(u)'
    BY <1>20, DialFailsEffect
  <1>21. ASSUME SetProxy(u)
         PROVE  ProxiesHeld(u)'
    BY <1>21, SetProxyEffect
  <1>22. ASSUME Connected(u)
         PROVE  ProxiesHeld(u)'
    BY <1>22, ConnectedEffect
  <1>23. ASSUME CloseTunnel(u, "closeT3", "nilT3", "idle")
         PROVE  ProxiesHeld(u)'
    <2>1. Moves(u, "closeT3", IF tunnel = None THEN "idle" ELSE "nilT3") /\ TunnelCloses
      BY ONLY TypeOK, u \in Workers, <1>23, Closings
    <2> QED
      BY <2>1 DEF TunnelCloses
  <1>24. ASSUME ClearTunnel(u, "nilT3", "idle")
         PROVE  ProxiesHeld(u)'
    <2>1. Moves(u, "nilT3", "idle") /\ TunnelClears
      BY ONLY TypeOK, u \in Workers, <1>24, ClearTunnelEffect DEF Steps
    <2> QED
      BY <2>1 DEF TunnelClears
  <1>25. ASSUME NEW p \in Ends, Breaks(p)
         PROVE  ProxiesHeld(u)'
    BY <1>25, BreaksEffect
  <1>26. ASSUME NEW p \in Ends, ChecksQuit(p)
         PROVE  ProxiesHeld(u)'
    BY <1>26, ChecksQuitEffect
  <1>27. ASSUME NEW p \in Ends, Redials(p)
         PROVE  ProxiesHeld(u)'
    BY <1>27, RedialsEffect
  <1>28. ASSUME NEW p \in Ends, GivesUp(p)
         PROVE  ProxiesHeld(u)'
    BY <1>28, GivesUpEffect
  <1>29. ASSUME NEW p \in Ends, HandleDisconnect(p)
         PROVE  ProxiesHeld(u)'
    BY <1>29, HandleDisconnectEffect
  <1>30. ASSUME NEW p \in Ends, CallbackCloses(p)
         PROVE  ProxiesHeld(u)'
    BY <1>30, CallbackClosesEffect
  <1>31. ASSUME NEW p \in Ends, CallbackClears(p)
         PROVE  ProxiesHeld(u)'
    BY <1>31, CallbackClearsEffect
  <1>32. ASSUME NEW t \in Ends, TunnelDies(t)
         PROVE  ProxiesHeld(u)'
    BY <1>32, TunnelDiesEffect
  <1>33. CASE UNCHANGED vars
    BY <1>33 DEF vars
  <1> QED
    BY ONLY [Next]_vars, OnlyOne, TypeOK, Owned, world.checkers \cup world.handlers = {u}, u \in Workers,
       <1>1, <1>2, <1>3, <1>4, <1>5, <1>6, <1>7, <1>8, <1>9, <1>10, <1>11, <1>12, <1>13, <1>14, <1>15, <1>16, <1>17, <1>18, <1>19, <1>20, <1>21, <1>22, <1>23, <1>24, <1>25, <1>26, <1>27, <1>28, <1>29, <1>30, <1>31, <1>32, <1>33
       DEF Next, Work, Disconnect, Connect, ReadLoop

\* An open tunnel is the node's or held by u.
LEMMA TunnelsHeldStep ==
  ASSUME TypeOK, TypeOK', Owned, Owned', NEW u \in Workers, world.checkers \cup world.handlers = {u}, Caring(u), [Next]_vars
  PROVE  TunnelsHeld(u)'
  <1> USE Shape DEF Moves, Only, Holds, Free, Still, Ties, node, Caring, Absent, NoProxyAt, NoTunnelAt, Closing, Callbacks, CallbackOver, TunnelsHeld
  <1>1. ASSUME Retry(u)
         PROVE  TunnelsHeld(u)'
    BY <1>1, RetryEffect
  <1>2. ASSUME NEW op \in Ops, Request(u, op)
         PROVE  TunnelsHeld(u)'
    BY <1>2, RequestEffect
  <1>3. ASSUME Prepare(u)
         PROVE  TunnelsHeld(u)'
    BY <1>3, PrepareEffect
  <1>4. ASSUME CloseProxy(u, "closeP", "nilP", "closeT")
         PROVE  TunnelsHeld(u)'
    <2>1. Moves(u, "closeP", IF proxy = None THEN "closeT" ELSE "nilP") /\ ProxyCloses
      BY ONLY TypeOK, u \in Workers, <1>4, Closings
    <2> QED
      BY <2>1 DEF ProxyCloses
  <1>5. ASSUME ClearProxy(u, "nilP", "closeT")
         PROVE  TunnelsHeld(u)'
    <2>1. Moves(u, "nilP", "closeT") /\ ProxyClears
      BY ONLY TypeOK, u \in Workers, <1>5, ClearProxyEffect DEF Steps
    <2> QED
      BY <2>1 DEF ProxyClears
  <1>6. ASSUME CloseTunnel(u, "closeT", "nilT", AfterDisconnect(u))
         PROVE  TunnelsHeld(u)'
    <2>1. Moves(u, "closeT", IF tunnel = None THEN AfterDisconnect(u) ELSE "nilT") /\ TunnelCloses
      BY ONLY TypeOK, u \in Workers, <1>6, CloseTunnelEffect, AfterDisconnectEffect
    <2> QED
      BY <2>1, AfterDisconnectEffect DEF TunnelCloses
  <1>7. ASSUME ClearTunnel(u, "nilT", AfterDisconnect(u))
         PROVE  TunnelsHeld(u)'
    <2>1. Moves(u, "nilT", AfterDisconnect(u)) /\ TunnelClears
      BY ONLY TypeOK, u \in Workers, <1>7, ClearTunnelEffect, AfterDisconnectEffect
    <2> QED
      BY <2>1, AfterDisconnectEffect DEF TunnelClears
  <1>8. ASSUME Unlist(u)
         PROVE  TunnelsHeld(u)'
    BY <1>8, UnlistEffect
  <1>9. ASSUME CommandRuns(u)
         PROVE  TunnelsHeld(u)'
    BY <1>9, CommandRunsEffect
  <1>10. ASSUME CommandFails(u)
         PROVE  TunnelsHeld(u)'
    BY <1>10, CommandFailsEffect
  <1>11. ASSUME Connecting(u)
         PROVE  TunnelsHeld(u)'
    BY <1>11, ConnectingEffect
  <1>12. ASSUME CloseTunnel(u, "closeT2", "nilT2", AfterTunnel)
         PROVE  TunnelsHeld(u)'
    <2>1. Moves(u, "closeT2", IF tunnel = None THEN AfterTunnel ELSE "nilT2") /\ TunnelCloses
      BY ONLY TypeOK, u \in Workers, <1>12, CloseTunnelEffect, AfterDisconnectEffect
    <2> QED
      BY <2>1, AfterDisconnectEffect DEF TunnelCloses
  <1>13. ASSUME ClearTunnel(u, "nilT2", AfterTunnel)
         PROVE  TunnelsHeld(u)'
    <2>1. Moves(u, "nilT2", AfterTunnel) /\ TunnelClears
      BY ONLY TypeOK, u \in Workers, <1>13, ClearTunnelEffect, AfterDisconnectEffect
    <2> QED
      BY <2>1, AfterDisconnectEffect DEF TunnelClears
  <1>14. ASSUME OpenTunnel(u)
         PROVE  TunnelsHeld(u)'
    BY <1>14, OpenTunnelEffect
  <1>15. ASSUME OpenFails(u)
         PROVE  TunnelsHeld(u)'
    BY <1>15, OpenFailsEffect
  <1>16. ASSUME SetTunnel(u)
         PROVE  TunnelsHeld(u)'
    BY <1>16, SetTunnelEffect
  <1>17. ASSUME CloseProxy(u, "closeP2", "nilP2", "dial")
         PROVE  TunnelsHeld(u)'
    <2>1. Moves(u, "closeP2", IF proxy = None THEN "dial" ELSE "nilP2") /\ ProxyCloses
      BY ONLY TypeOK, u \in Workers, <1>17, Closings
    <2> QED
      BY <2>1 DEF ProxyCloses
  <1>18. ASSUME ClearProxy(u, "nilP2", "dial")
         PROVE  TunnelsHeld(u)'
    <2>1. Moves(u, "nilP2", "dial") /\ ProxyClears
      BY ONLY TypeOK, u \in Workers, <1>18, ClearProxyEffect DEF Steps
    <2> QED
      BY <2>1 DEF ProxyClears
  <1>19. ASSUME Dial(u)
         PROVE  TunnelsHeld(u)'
    BY <1>19, DialEffect
  <1>20. ASSUME DialFails(u)
         PROVE  TunnelsHeld(u)'
    BY <1>20, DialFailsEffect
  <1>21. ASSUME SetProxy(u)
         PROVE  TunnelsHeld(u)'
    BY <1>21, SetProxyEffect
  <1>22. ASSUME Connected(u)
         PROVE  TunnelsHeld(u)'
    BY <1>22, ConnectedEffect
  <1>23. ASSUME CloseTunnel(u, "closeT3", "nilT3", "idle")
         PROVE  TunnelsHeld(u)'
    <2>1. Moves(u, "closeT3", IF tunnel = None THEN "idle" ELSE "nilT3") /\ TunnelCloses
      BY ONLY TypeOK, u \in Workers, <1>23, Closings
    <2> QED
      BY <2>1 DEF TunnelCloses
  <1>24. ASSUME ClearTunnel(u, "nilT3", "idle")
         PROVE  TunnelsHeld(u)'
    <2>1. Moves(u, "nilT3", "idle") /\ TunnelClears
      BY ONLY TypeOK, u \in Workers, <1>24, ClearTunnelEffect DEF Steps
    <2> QED
      BY <2>1 DEF TunnelClears
  <1>25. ASSUME NEW p \in Ends, Breaks(p)
         PROVE  TunnelsHeld(u)'
    BY <1>25, BreaksEffect
  <1>26. ASSUME NEW p \in Ends, ChecksQuit(p)
         PROVE  TunnelsHeld(u)'
    BY <1>26, ChecksQuitEffect
  <1>27. ASSUME NEW p \in Ends, Redials(p)
         PROVE  TunnelsHeld(u)'
    BY <1>27, RedialsEffect
  <1>28. ASSUME NEW p \in Ends, GivesUp(p)
         PROVE  TunnelsHeld(u)'
    BY <1>28, GivesUpEffect
  <1>29. ASSUME NEW p \in Ends, HandleDisconnect(p)
         PROVE  TunnelsHeld(u)'
    BY <1>29, HandleDisconnectEffect
  <1>30. ASSUME NEW p \in Ends, CallbackCloses(p)
         PROVE  TunnelsHeld(u)'
    BY <1>30, CallbackClosesEffect
  <1>31. ASSUME NEW p \in Ends, CallbackClears(p)
         PROVE  TunnelsHeld(u)'
    BY <1>31, CallbackClearsEffect
  <1>32. ASSUME NEW t \in Ends, TunnelDies(t)
         PROVE  TunnelsHeld(u)'
    BY <1>32, TunnelDiesEffect
  <1>33. CASE UNCHANGED vars
    BY <1>33 DEF vars
  <1> QED
    BY ONLY [Next]_vars, OnlyOne, TypeOK, Owned, world.checkers \cup world.handlers = {u}, u \in Workers,
       <1>1, <1>2, <1>3, <1>4, <1>5, <1>6, <1>7, <1>8, <1>9, <1>10, <1>11, <1>12, <1>13, <1>14, <1>15, <1>16, <1>17, <1>18, <1>19, <1>20, <1>21, <1>22, <1>23, <1>24, <1>25, <1>26, <1>27, <1>28, <1>29, <1>30, <1>31, <1>32, <1>33
       DEF Next, Work, Disconnect, Connect, ReadLoop

\* A proxy closed in its sleep finds no tunnel, or u about to close it.
LEMMA RestingStep ==
  ASSUME TypeOK, TypeOK', Owned, Owned', NEW u \in Workers, world.checkers \cup world.handlers = {u}, Caring(u), [Next]_vars
  PROVE  Resting(u)'
  <1> USE Shape DEF Moves, Only, Holds, Free, Still, Ties, node, Caring, Absent, NoProxyAt, NoTunnelAt, TunnelsHeld, TunnelFree, Resting, MetAsleep, local
  <1>1. ASSUME Retry(u)
         PROVE  Resting(u)'
    BY <1>1, RetryEffect
  <1>2. ASSUME NEW op \in Ops, Request(u, op)
         PROVE  Resting(u)'
    BY <1>2, RequestEffect
  <1>3. ASSUME Prepare(u)
         PROVE  Resting(u)'
    BY <1>3, PrepareEffect
  <1>4. ASSUME CloseProxy(u, "closeP", "nilP", "closeT")
         PROVE  Resting(u)'
    <2>1. Moves(u, "closeP", IF proxy = None THEN "closeT" ELSE "nilP") /\ ProxyCloses
      BY ONLY TypeOK, u \in Workers, <1>4, Closings
    <2> QED
      BY <2>1 DEF ProxyCloses
  <1>5. ASSUME ClearProxy(u, "nilP", "closeT")
         PROVE  Resting(u)'
    <2>1. Moves(u, "nilP", "closeT") /\ ProxyClears
      BY ONLY TypeOK, u \in Workers, <1>5, ClearProxyEffect DEF Steps
    <2> QED
      BY <2>1 DEF ProxyClears
  <1>6. ASSUME CloseTunnel(u, "closeT", "nilT", AfterDisconnect(u))
         PROVE  Resting(u)'
    <2>1. Moves(u, "closeT", IF tunnel = None THEN AfterDisconnect(u) ELSE "nilT") /\ TunnelCloses
      BY ONLY TypeOK, u \in Workers, <1>6, CloseTunnelEffect, AfterDisconnectEffect
    <2> QED
      BY <2>1, AfterDisconnectEffect DEF TunnelCloses
  <1>7. ASSUME ClearTunnel(u, "nilT", AfterDisconnect(u))
         PROVE  Resting(u)'
    <2>1. Moves(u, "nilT", AfterDisconnect(u)) /\ TunnelClears
      BY ONLY TypeOK, u \in Workers, <1>7, ClearTunnelEffect, AfterDisconnectEffect
    <2> QED
      BY <2>1, AfterDisconnectEffect DEF TunnelClears
  <1>8. ASSUME Unlist(u)
         PROVE  Resting(u)'
    BY <1>8, UnlistEffect
  <1>9. ASSUME CommandRuns(u)
         PROVE  Resting(u)'
    BY <1>9, CommandRunsEffect
  <1>10. ASSUME CommandFails(u)
         PROVE  Resting(u)'
    BY <1>10, CommandFailsEffect
  <1>11. ASSUME Connecting(u)
         PROVE  Resting(u)'
    BY <1>11, ConnectingEffect
  <1>12. ASSUME CloseTunnel(u, "closeT2", "nilT2", AfterTunnel)
         PROVE  Resting(u)'
    <2>1. Moves(u, "closeT2", IF tunnel = None THEN AfterTunnel ELSE "nilT2") /\ TunnelCloses
      BY ONLY TypeOK, u \in Workers, <1>12, CloseTunnelEffect, AfterDisconnectEffect
    <2> QED
      BY <2>1, AfterDisconnectEffect DEF TunnelCloses
  <1>13. ASSUME ClearTunnel(u, "nilT2", AfterTunnel)
         PROVE  Resting(u)'
    <2>1. Moves(u, "nilT2", AfterTunnel) /\ TunnelClears
      BY ONLY TypeOK, u \in Workers, <1>13, ClearTunnelEffect, AfterDisconnectEffect
    <2> QED
      BY <2>1, AfterDisconnectEffect DEF TunnelClears
  <1>14. ASSUME OpenTunnel(u)
         PROVE  Resting(u)'
    BY <1>14, OpenTunnelEffect
  <1>15. ASSUME OpenFails(u)
         PROVE  Resting(u)'
    BY <1>15, OpenFailsEffect
  <1>16. ASSUME SetTunnel(u)
         PROVE  Resting(u)'
    BY <1>16, SetTunnelEffect
  <1>17. ASSUME CloseProxy(u, "closeP2", "nilP2", "dial")
         PROVE  Resting(u)'
    <2>1. Moves(u, "closeP2", IF proxy = None THEN "dial" ELSE "nilP2") /\ ProxyCloses
      BY ONLY TypeOK, u \in Workers, <1>17, Closings
    <2> QED
      BY <2>1 DEF ProxyCloses
  <1>18. ASSUME ClearProxy(u, "nilP2", "dial")
         PROVE  Resting(u)'
    <2>1. Moves(u, "nilP2", "dial") /\ ProxyClears
      BY ONLY TypeOK, u \in Workers, <1>18, ClearProxyEffect DEF Steps
    <2> QED
      BY <2>1 DEF ProxyClears
  <1>19. ASSUME Dial(u)
         PROVE  Resting(u)'
    BY <1>19, DialEffect
  <1>20. ASSUME DialFails(u)
         PROVE  Resting(u)'
    BY <1>20, DialFailsEffect
  <1>21. ASSUME SetProxy(u)
         PROVE  Resting(u)'
    BY <1>21, SetProxyEffect
  <1>22. ASSUME Connected(u)
         PROVE  Resting(u)'
    BY <1>22, ConnectedEffect
  <1>23. ASSUME CloseTunnel(u, "closeT3", "nilT3", "idle")
         PROVE  Resting(u)'
    <2>1. Moves(u, "closeT3", IF tunnel = None THEN "idle" ELSE "nilT3") /\ TunnelCloses
      BY ONLY TypeOK, u \in Workers, <1>23, Closings
    <2> QED
      BY <2>1 DEF TunnelCloses
  <1>24. ASSUME ClearTunnel(u, "nilT3", "idle")
         PROVE  Resting(u)'
    <2>1. Moves(u, "nilT3", "idle") /\ TunnelClears
      BY ONLY TypeOK, u \in Workers, <1>24, ClearTunnelEffect DEF Steps
    <2> QED
      BY <2>1 DEF TunnelClears
  <1>25. ASSUME NEW p \in Ends, Breaks(p)
         PROVE  Resting(u)'
    BY <1>25, BreaksEffect
  <1>26. ASSUME NEW p \in Ends, ChecksQuit(p)
         PROVE  Resting(u)'
    BY <1>26, ChecksQuitEffect
  <1>27. ASSUME NEW p \in Ends, Redials(p)
         PROVE  Resting(u)'
    BY <1>27, RedialsEffect
  <1>28. ASSUME NEW p \in Ends, GivesUp(p)
         PROVE  Resting(u)'
    BY <1>28, GivesUpEffect
  <1>29. ASSUME NEW p \in Ends, HandleDisconnect(p)
         PROVE  Resting(u)'
    BY <1>29, HandleDisconnectEffect
  <1>30. ASSUME NEW p \in Ends, CallbackCloses(p)
         PROVE  Resting(u)'
    BY <1>30, CallbackClosesEffect
  <1>31. ASSUME NEW p \in Ends, CallbackClears(p)
         PROVE  Resting(u)'
    BY <1>31, CallbackClearsEffect
  <1>32. ASSUME NEW t \in Ends, TunnelDies(t)
         PROVE  Resting(u)'
    BY <1>32, TunnelDiesEffect
  <1>33. CASE UNCHANGED vars
    BY <1>33 DEF vars
  <1> QED
    BY ONLY [Next]_vars, OnlyOne, TypeOK, Owned, world.checkers \cup world.handlers = {u}, u \in Workers,
       <1>1, <1>2, <1>3, <1>4, <1>5, <1>6, <1>7, <1>8, <1>9, <1>10, <1>11, <1>12, <1>13, <1>14, <1>15, <1>16, <1>17, <1>18, <1>19, <1>20, <1>21, <1>22, <1>23, <1>24, <1>25, <1>26, <1>27, <1>28, <1>29, <1>30, <1>31, <1>32, <1>33
       DEF Next, Work, Disconnect, Connect, ReadLoop

\* The status connected is true when it is written, and written over before it lies.
LEMMA TruthfulStep ==
  ASSUME TypeOK, TypeOK', Owned, Owned', NEW u \in Workers, world.checkers \cup world.handlers = {u}, Caring(u), [Next]_vars
  PROVE  Truthful(u)'
  <1> USE Shape DEF Moves, Only, Holds, Free, Still, Ties, node, Caring, Absent, NoProxyAt, NoTunnelAt, Truthful, Leaving, Owned, Dialled
  <1>1. ASSUME Retry(u)
         PROVE  Truthful(u)'
    BY <1>1, RetryEffect
  <1>2. ASSUME NEW op \in Ops, Request(u, op)
         PROVE  Truthful(u)'
    BY <1>2, RequestEffect
  <1>3. ASSUME Prepare(u)
         PROVE  Truthful(u)'
    BY <1>3, PrepareEffect
  <1>4. ASSUME CloseProxy(u, "closeP", "nilP", "closeT")
         PROVE  Truthful(u)'
    <2>1. Moves(u, "closeP", IF proxy = None THEN "closeT" ELSE "nilP") /\ ProxyCloses
      BY ONLY TypeOK, u \in Workers, <1>4, Closings
    <2> QED
      BY <2>1 DEF ProxyCloses
  <1>5. ASSUME ClearProxy(u, "nilP", "closeT")
         PROVE  Truthful(u)'
    <2>1. Moves(u, "nilP", "closeT") /\ ProxyClears
      BY ONLY TypeOK, u \in Workers, <1>5, ClearProxyEffect DEF Steps
    <2> QED
      BY <2>1 DEF ProxyClears
  <1>6. ASSUME CloseTunnel(u, "closeT", "nilT", AfterDisconnect(u))
         PROVE  Truthful(u)'
    <2>1. Moves(u, "closeT", IF tunnel = None THEN AfterDisconnect(u) ELSE "nilT") /\ TunnelCloses
      BY ONLY TypeOK, u \in Workers, <1>6, CloseTunnelEffect, AfterDisconnectEffect
    <2> QED
      BY <2>1, AfterDisconnectEffect DEF TunnelCloses
  <1>7. ASSUME ClearTunnel(u, "nilT", AfterDisconnect(u))
         PROVE  Truthful(u)'
    <2>1. Moves(u, "nilT", AfterDisconnect(u)) /\ TunnelClears
      BY ONLY TypeOK, u \in Workers, <1>7, ClearTunnelEffect, AfterDisconnectEffect
    <2> QED
      BY <2>1, AfterDisconnectEffect DEF TunnelClears
  <1>8. ASSUME Unlist(u)
         PROVE  Truthful(u)'
    BY <1>8, UnlistEffect
  <1>9. ASSUME CommandRuns(u)
         PROVE  Truthful(u)'
    BY <1>9, CommandRunsEffect
  <1>10. ASSUME CommandFails(u)
         PROVE  Truthful(u)'
    BY <1>10, CommandFailsEffect
  <1>11. ASSUME Connecting(u)
         PROVE  Truthful(u)'
    BY <1>11, ConnectingEffect
  <1>12. ASSUME CloseTunnel(u, "closeT2", "nilT2", AfterTunnel)
         PROVE  Truthful(u)'
    <2>1. Moves(u, "closeT2", IF tunnel = None THEN AfterTunnel ELSE "nilT2") /\ TunnelCloses
      BY ONLY TypeOK, u \in Workers, <1>12, CloseTunnelEffect, AfterDisconnectEffect
    <2> QED
      BY <2>1, AfterDisconnectEffect DEF TunnelCloses
  <1>13. ASSUME ClearTunnel(u, "nilT2", AfterTunnel)
         PROVE  Truthful(u)'
    <2>1. Moves(u, "nilT2", AfterTunnel) /\ TunnelClears
      BY ONLY TypeOK, u \in Workers, <1>13, ClearTunnelEffect, AfterDisconnectEffect
    <2> QED
      BY <2>1, AfterDisconnectEffect DEF TunnelClears
  <1>14. ASSUME OpenTunnel(u)
         PROVE  Truthful(u)'
    BY <1>14, OpenTunnelEffect
  <1>15. ASSUME OpenFails(u)
         PROVE  Truthful(u)'
    BY <1>15, OpenFailsEffect
  <1>16. ASSUME SetTunnel(u)
         PROVE  Truthful(u)'
    BY <1>16, SetTunnelEffect
  <1>17. ASSUME CloseProxy(u, "closeP2", "nilP2", "dial")
         PROVE  Truthful(u)'
    <2>1. Moves(u, "closeP2", IF proxy = None THEN "dial" ELSE "nilP2") /\ ProxyCloses
      BY ONLY TypeOK, u \in Workers, <1>17, Closings
    <2> QED
      BY <2>1 DEF ProxyCloses
  <1>18. ASSUME ClearProxy(u, "nilP2", "dial")
         PROVE  Truthful(u)'
    <2>1. Moves(u, "nilP2", "dial") /\ ProxyClears
      BY ONLY TypeOK, u \in Workers, <1>18, ClearProxyEffect DEF Steps
    <2> QED
      BY <2>1 DEF ProxyClears
  <1>19. ASSUME Dial(u)
         PROVE  Truthful(u)'
    BY <1>19, DialEffect
  <1>20. ASSUME DialFails(u)
         PROVE  Truthful(u)'
    BY <1>20, DialFailsEffect
  <1>21. ASSUME SetProxy(u)
         PROVE  Truthful(u)'
    BY <1>21, SetProxyEffect
  <1>22. ASSUME Connected(u)
         PROVE  Truthful(u)'
    BY <1>22, ConnectedEffect
  <1>23. ASSUME CloseTunnel(u, "closeT3", "nilT3", "idle")
         PROVE  Truthful(u)'
    <2>1. Moves(u, "closeT3", IF tunnel = None THEN "idle" ELSE "nilT3") /\ TunnelCloses
      BY ONLY TypeOK, u \in Workers, <1>23, Closings
    <2> QED
      BY <2>1 DEF TunnelCloses
  <1>24. ASSUME ClearTunnel(u, "nilT3", "idle")
         PROVE  Truthful(u)'
    <2>1. Moves(u, "nilT3", "idle") /\ TunnelClears
      BY ONLY TypeOK, u \in Workers, <1>24, ClearTunnelEffect DEF Steps
    <2> QED
      BY <2>1 DEF TunnelClears
  <1>25. ASSUME NEW p \in Ends, Breaks(p)
         PROVE  Truthful(u)'
    BY <1>25, BreaksEffect
  <1>26. ASSUME NEW p \in Ends, ChecksQuit(p)
         PROVE  Truthful(u)'
    BY <1>26, ChecksQuitEffect
  <1>27. ASSUME NEW p \in Ends, Redials(p)
         PROVE  Truthful(u)'
    BY <1>27, RedialsEffect
  <1>28. ASSUME NEW p \in Ends, GivesUp(p)
         PROVE  Truthful(u)'
    BY <1>28, GivesUpEffect
  <1>29. ASSUME NEW p \in Ends, HandleDisconnect(p)
         PROVE  Truthful(u)'
    BY <1>29, HandleDisconnectEffect
  <1>30. ASSUME NEW p \in Ends, CallbackCloses(p)
         PROVE  Truthful(u)'
    BY <1>30, CallbackClosesEffect
  <1>31. ASSUME NEW p \in Ends, CallbackClears(p)
         PROVE  Truthful(u)'
    BY <1>31, CallbackClearsEffect
  <1>32. ASSUME NEW t \in Ends, TunnelDies(t)
         PROVE  Truthful(u)'
    BY <1>32, TunnelDiesEffect
  <1>33. CASE UNCHANGED vars
    BY <1>33 DEF vars
  <1> QED
    BY ONLY [Next]_vars, OnlyOne, TypeOK, Owned, world.checkers \cup world.handlers = {u}, u \in Workers,
       <1>1, <1>2, <1>3, <1>4, <1>5, <1>6, <1>7, <1>8, <1>9, <1>10, <1>11, <1>12, <1>13, <1>14, <1>15, <1>16, <1>17, <1>18, <1>19, <1>20, <1>21, <1>22, <1>23, <1>24, <1>25, <1>26, <1>27, <1>28, <1>29, <1>30, <1>31, <1>32, <1>33
       DEF Next, Work, Disconnect, Connect, ReadLoop

-----------------------------------------------------------------------------
(* The theorems.                                                             *)

\* The invariant holds at first: every goroutine is idle and nothing is open.
LEMMA InitIInv == Init => IInv
  <1> SUFFICES ASSUME Init PROVE IInv
    OBVIOUS
  <1>1. TypeOK
    BY IdleIsTask, WorldsAssumption DEF Init, TypeOK, Task, Unused, Ends, None
  <1>2. /\ \A w \in Workers : work[w] = Idle
        /\ \A p \in Ends : prx[p].loop = "free" /\ ~prx[p].quit
        /\ \A t \in Ends : tun[t] = "free"
        /\ listed /\ status = "disconnected" /\ tunnel = None /\ proxy = None
    BY DEF Init, Unused
  <1>3. Owned
    BY <1>2, IdleIsTask DEF Owned
  <1>4. ASSUME NEW u \in Workers PROVE Caring(u)
    BY <1>2, IdleIsTask
    DEF Caring, Absent, Callbacks, Closing, ProxiesHeld, TunnelsHeld, Truthful, NoProxyAt, NoTunnelAt,
        Resting, MetAsleep, Wanted, Dialled, CallbackOver
  <1> QED
    BY <1>1, <1>3, <1>4 DEF IInv

\* No step changes the world.
LEMMA WorldStep ==
  ASSUME [Next]_vars
  PROVE  world' = world
  BY DEF Next, vars, Work, Disconnect, Connect, ReadLoop, Retry, Request, Prepare, CloseProxy, ClearProxy,
         CloseTunnel, ClearTunnel, Unlist, CommandRuns, CommandFails, Connecting, OpenTunnel, OpenFails,
         SetTunnel, Dial, DialFails, SetProxy, Connected, Breaks, ChecksQuit, Redials, GivesUp,
         HandleDisconnect, CallbackCloses, CallbackClears, TunnelDies

\* Every step keeps the invariant.
LEMMA StepIInv == IInv /\ [Next]_vars => IInv'
  <1> SUFFICES ASSUME IInv, [Next]_vars PROVE IInv'
    OBVIOUS
  <1>1. TypeOK /\ Owned /\ TypeOK'
    BY TypeStep DEF IInv
  <1>2. Owned'
    BY <1>1, OwnedStep
  <1>3. ASSUME NEW u \in Workers, world'.checkers \cup world'.handlers = {u}
        PROVE  Caring(u)'
    <2>1. world.checkers \cup world.handlers = {u}
      BY <1>3, WorldStep
    <2>2. Caring(u)
      BY <2>1 DEF IInv
    <2> QED
      BY <1>1, <1>2, <2>1, <2>2, AbsentStep, CallbacksStep, ClosingStep, ProxiesHeldStep,
         TunnelsHeldStep, RestingStep, TruthfulStep
      DEF Caring
  <1> QED
    BY <1>1, <1>2, <1>3 DEF IInv

\* IInv is an invariant of every node.
THEOREM Invariance == Spec => []IInv
  BY InitIInv, StepIInv, PTL DEF Spec

\* Every variable keeps its type.
THEOREM TypeCorrect == Spec => []TypeOK
  <1>1. IInv => TypeOK
    BY DEF IInv
  <1> QED
    BY <1>1, Invariance, PTL

\* NoLeak: for a node that one goroutine at a time takes care of, a proxy whose read
\* loop runs is the node's, about to be, or was closed and comes to an end; only a local
\* node's proxy that was closed in its sleep need not.  A tunnel that is up is the
\* node's, or about to be.
THEOREM NothingLeaks == Spec => []NoLeak
  <1>1. ASSUME IInv, NEW u \in Workers, world.checkers \cup world.handlers = {u}
        PROVE  /\ \A p \in Ends : Live(p) => proxy = p \/ Ending(p) \/ \E w \in Workers : work[w].p = p
               /\ \A t \in Ends : tun[t] = "up" => tunnel = t \/ \E w \in Workers : work[w].t = t
    <2>1. ProxiesHeld(u) /\ TunnelsHeld(u) /\ Resting(u)
      BY <1>1 DEF IInv, Caring
    <2>2. ASSUME NEW p \in Ends, Live(p)
          PROVE  proxy = p \/ Ending(p) \/ \E w \in Workers : work[w].p = p
      <3>1. CASE ~prx[p].quit
        BY <2>1, <2>2, <3>1 DEF ProxiesHeld, Wanted, Dialled, Live
      <3>2. CASE prx[p].quit
        BY <2>1, <2>2, <3>2 DEF Resting, Live, Ending, MetAsleep, Passes, TunnelsUp
      <3> QED
        BY <3>1, <3>2
    <2> QED
      BY <2>1, <2>2 DEF TunnelsHeld
  <1>2. IInv => NoLeak
    BY <1>1 DEF IInv, NoLeak, Alone
  <1> QED
    BY <1>2, Invariance, PTL

\* NoDeadProxy: however many goroutines overlap, when nothing moves the read loop of the
\* node's proxy runs.
THEOREM ProxyRuns == Spec => []NoDeadProxy
  <1>1. IInv => NoDeadProxy
    BY Shape DEF IInv, NoDeadProxy, Quiet, Owned, Dialled
  <1> QED
    BY <1>1, Invariance, PTL

\* SettledTruly: when nothing moves, a node said to be connected has a proxy, and one
\* that was removed has neither a proxy nor a tunnel; no read loop still gets through to
\* it, save that of a local node's proxy that was closed in its sleep.
THEOREM SettlesTruly == Spec => []SettledTruly
  <1>1. ASSUME IInv, NEW u \in Workers, world.checkers \cup world.handlers = {u}, Quiet
        PROVE  /\ listed /\ status = "connected" => proxy # None
               /\ ~listed => /\ proxy = None /\ TunnelsUp = {}
                             /\ \A p \in Ends : prx[p].loop = "up" /\ Passes(prx[p].via)
                                                  => local /\ prx[p].quit
    <2>1. TypeOK /\ Absent(u) /\ ProxiesHeld(u) /\ TunnelsHeld(u) /\ Truthful(u)
      BY <1>1 DEF IInv, Caring
    <2>2. work[u].pc = "idle"
      BY <1>1 DEF Quiet
    <2>3. listed /\ status = "connected" => proxy # None
      BY <2>1, <2>2 DEF Truthful, Leaving
    <2>4. ASSUME ~listed
          PROVE  proxy = None /\ TunnelsUp = {}
      BY <2>1, <2>4 DEF Absent, TunnelsHeld, TunnelsUp
    <2>5. ASSUME ~listed, NEW p \in Ends, prx[p].loop = "up", Passes(prx[p].via)
          PROVE  local /\ prx[p].quit
      <3>1. local
        BY <2>4, <2>5 DEF Passes
      <3>2. prx[p].quit
        BY <2>1, <2>2, <2>4, <2>5, Shape DEF ProxiesHeld, Wanted, Dialled
      <3> QED
        BY <3>1, <3>2
    <2> QED
      BY <2>3, <2>4, <2>5
  <1>2. IInv => SettledTruly
    BY <1>1 DEF SettledTruly, Alone
  <1> QED
    BY <1>2, Invariance, PTL

-----------------------------------------------------------------------------
(***************************************************************************)
(* The calls over one proxy.  For any number of callers, calls,            *)
(* connections and retries: every call that can still be answered is in    *)
(* the map of pending calls, no two calls share an id, and the disconnect  *)
(* callback fires once.  The invariant that carries the proof adds that    *)
(* ids are used in order, so the next one is nobody's: that is what keeps  *)
(* calls apart across a reconnect.                                         *)
(***************************************************************************)

IdsUsed ==
    /\ \A g \in Callers : Active(g) => call[g].id \in IDs /\ call[g].id < nextID
    /\ \A i \in IDs : chan[i] # "none" => i < nextID

AttemptLeft == reader.pc = "sleeping" => reader.try < MaxRetries

CallsInv == ProxyTypeOK /\ EveryCallTracked /\ OneOwner /\ IdsUsed /\ DisconnectToldOnce /\ AttemptLeft

USE ProxyAssumption DEF IDs, Conns

(* A fresh proxy has no call and has told nobody.                            *)
LEMMA CallsEstablished == ProxyInit => CallsInv
  <1> SUFFICES ASSUME ProxyInit PROVE CallsInv
    OBVIOUS
  <1> USE DEF ProxyInit, Active, NoCall
  <1>1. ProxyTypeOK
    <2>1. link \in [Conns -> {"none", "up", "lost", "closed"}] /\ conn \in Conns
      OBVIOUS
    <2>2. nextID \in 1..MaxCalls + 1
      OBVIOUS
    <2>3. chan \in [IDs -> {"none", "open", "reply", "closed"}]
      OBVIOUS
    <2>4. call \in [Callers -> [pc : {"idle", "registered", "waiting"}, id : 0..MaxCalls]]
      OBVIOUS
    <2>5. reader \in [pc : {"reading", "trying", "sleeping", "exited"}, try : 0..MaxRetries]
      OBVIOUS
    <2> QED
      BY <2>1, <2>2, <2>3, <2>4, <2>5 DEF ProxyTypeOK
  <1>2. EveryCallTracked /\ OneOwner
    BY DEF EveryCallTracked, OneOwner
  <1>3. IdsUsed
    BY DEF IdsUsed
  <1>4. DisconnectToldOnce /\ AttemptLeft
    BY DEF DisconnectToldOnce, AttemptLeft
  <1> QED
    BY <1>1, <1>2, <1>3, <1>4 DEF CallsInv

(* A caller's step touches its own call and its own entry.                   *)
LEMMA CallPreserves ==
    ASSUME NEW g \in Callers, CallsInv,
           Register(g) \/ WriteSucceeds(g) \/ WriteFails(g) \/ Return(g) \/ Timeout(g)
    PROVE  CallsInv'
  <1> USE DEF CallsInv, ProxyTypeOK, EveryCallTracked, OneOwner, IdsUsed, DisconnectToldOnce,
              AttemptLeft, Active,
              NoCall, wire, loops
  <1>1. CASE Register(g)
    <2>1. nextID \in IDs /\ chan[nextID] = "none" /\ nextID \notin pending
      BY <1>1 DEF Register
    <2>2. ProxyTypeOK'
      BY <1>1 DEF Register
    <2>3. EveryCallTracked'
      <3>1. ASSUME NEW h \in Callers, Active(h)', chan'[call'[h].id] = "open"
            PROVE  call'[h].id \in pending'
        BY <1>1, <2>1, <3>1 DEF Register
      <3>2. ASSUME NEW i \in pending'
            PROVE  chan'[i] = "open" /\ \E h \in Callers : Active(h)' /\ call'[h].id = i
        <4>1. CASE i = nextID
          BY <1>1, <4>1 DEF Register
        <4>2. CASE i # nextID
          BY <1>1, <3>2, <4>2 DEF Register
        <4> QED
          BY <4>1, <4>2
      <3> QED
        BY <3>1, <3>2
    <2>4. OneOwner'
      BY <1>1 DEF Register
    <2>5. IdsUsed' /\ DisconnectToldOnce' /\ AttemptLeft'
      BY <1>1 DEF Register
    <2> QED
      BY <2>2, <2>3, <2>4, <2>5
  <1>2. CASE WriteSucceeds(g)
    <2>1. ProxyTypeOK'
      BY <1>2 DEF WriteSucceeds
    <2>2. \A h \in Callers : (Active(h)' <=> Active(h)) /\ call'[h].id = call[h].id
      BY <1>2 DEF WriteSucceeds
    <2>3. EveryCallTracked' /\ OneOwner' /\ IdsUsed' /\ DisconnectToldOnce' /\ AttemptLeft'
      BY <1>2, <2>2 DEF WriteSucceeds
    <2> QED
      BY <2>1, <2>3
  <1>3. CASE WriteFails(g) \/ Timeout(g)
    <2>1. /\ Active(g) /\ call' = [call EXCEPT ![g] = NoCall]
          /\ pending' = pending \ {call[g].id}
          /\ UNCHANGED <<link, conn, nextID, chan, sent, replies, reader, pingers, quit, told>>
      BY <1>3 DEF WriteFails, Timeout
    <2>2. ProxyTypeOK' /\ DisconnectToldOnce' /\ AttemptLeft'
      <3>1. ProxyTypeOK'
        <4>1. call' \in [Callers -> [pc : {"idle", "registered", "waiting"}, id : 0..MaxCalls]]
          BY <2>1
        <4>2. pending' \subseteq IDs
          BY <2>1
        <4> QED
          BY <2>1, <4>1, <4>2
      <3>2. DisconnectToldOnce' /\ AttemptLeft'
        BY <2>1
      <3> QED
        BY <3>1, <3>2
    <2>4. OneOwner' /\ IdsUsed'
      <3>1. OneOwner'
        BY <2>1
      <3>2. IdsUsed'
        BY <2>1
      <3> QED
        BY <3>1, <3>2
    <2>3. EveryCallTracked'
      <3>1. ASSUME NEW h \in Callers, Active(h)', chan'[call'[h].id] = "open"
            PROVE  call'[h].id \in pending'
        BY <2>1, <3>1
      <3>2. ASSUME NEW i \in pending'
            PROVE  chan'[i] = "open" /\ \E h \in Callers : Active(h)' /\ call'[h].id = i
        BY <2>1, <3>2
      <3> QED
        BY <3>1, <3>2
    <2> QED
      BY <2>2, <2>3, <2>4
  <1>4. CASE Return(g)
    <2>1. call[g].id \notin pending
      BY <1>4 DEF Return
    <2>2. ProxyTypeOK' /\ OneOwner' /\ IdsUsed' /\ DisconnectToldOnce' /\ AttemptLeft'
      BY <1>4 DEF Return
    <2>3. EveryCallTracked'
      BY <1>4, <2>1 DEF Return
    <2> QED
      BY <2>2, <2>3
  <1> QED
    BY <1>1, <1>2, <1>3, <1>4

(* The read loop answers a pending call or fails all of them.                *)
LEMMA ReadLoopPreserves == CallsInv /\ ProxyReadLoop => CallsInv'
  <1> SUFFICES ASSUME CallsInv, ProxyReadLoop PROVE CallsInv'
    OBVIOUS
  <1> USE DEF CallsInv, ProxyTypeOK, EveryCallTracked, OneOwner, IdsUsed, DisconnectToldOnce,
              AttemptLeft, Active, wire
  <1>1. ASSUME NEW m \in replies, Receive(m) PROVE CallsInv'
    <2>1. ProxyTypeOK' /\ OneOwner' /\ IdsUsed' /\ DisconnectToldOnce' /\ AttemptLeft'
      <3>1. ProxyTypeOK'
        BY <1>1 DEF Receive, loops
      <3>2. OneOwner' /\ DisconnectToldOnce' /\ AttemptLeft'
        BY <1>1 DEF Receive, loops
      <3>3. IdsUsed'
        BY <1>1 DEF Receive, loops
      <3> QED
        BY <3>1, <3>2, <3>3
    <2>2. EveryCallTracked'
      <3>1. ASSUME NEW h \in Callers, Active(h)', chan'[call'[h].id] = "open"
            PROVE  call'[h].id \in pending'
        BY <1>1, <3>1 DEF Receive
      <3>2. ASSUME NEW i \in pending'
            PROVE  chan'[i] = "open" /\ \E h \in Callers : Active(h)' /\ call'[h].id = i
        BY <1>1, <3>2 DEF Receive
      <3> QED
        BY <3>1, <3>2
    <2> QED
      BY <2>1, <2>2
  <1>2. CASE ReadFails
    <2>1. ProxyTypeOK' /\ OneOwner' /\ IdsUsed' /\ DisconnectToldOnce' /\ AttemptLeft'
      BY <1>2 DEF ReadFails, FailPending
    <2>2. EveryCallTracked'
      BY <1>2 DEF ReadFails, FailPending
    <2> QED
      BY <2>1, <2>2
  <1>3. CASE Sleep \/ GiveUp \/ RedialFails
    <2>1. UNCHANGED <<link, conn, sent, replies, nextID, pending, chan, call, pingers, quit>>
      BY <1>3 DEF Sleep, GiveUp, RedialFails
    <2>2. reader' \in [pc : {"reading", "trying", "sleeping", "exited"}, try : 0..MaxRetries]
      BY <1>3 DEF Sleep, GiveUp, RedialFails
    <2>3. told' \in Nat /\ DisconnectToldOnce' /\ AttemptLeft'
      BY <1>3 DEF Sleep, GiveUp, RedialFails
    <2>4. EveryCallTracked' /\ OneOwner'
      BY <2>1
    <2>5. IdsUsed'
      BY <2>1
    <2>6. ProxyTypeOK'
      BY <2>1, <2>2, <2>3
    <2> QED
      BY <2>3, <2>4, <2>5, <2>6
  <1>4. ASSUME NEW c \in Conns, Redial(c) PROVE CallsInv'
    BY <1>4 DEF Redial
  <1> QED
    BY <1>1, <1>2, <1>3, <1>4 DEF ProxyReadLoop

(* Every step preserves the invariant.                                       *)
LEMMA CallsPreserved == CallsInv /\ [ProxyNext]_proxyVars => CallsInv'
  <1> SUFFICES ASSUME CallsInv, [ProxyNext]_proxyVars PROVE CallsInv'
    OBVIOUS
  <1> USE DEF CallsInv, ProxyTypeOK, EveryCallTracked, OneOwner, IdsUsed, DisconnectToldOnce,
              AttemptLeft, Active,
              wire, loops
  <1>1. ASSUME NEW m \in sent, Answer(m) PROVE CallsInv'
    BY <1>1 DEF Answer
  <1>2. CASE LinkLost \/ Close
    <2>1. ProxyTypeOK'
      <3>1. link' \in [Conns -> {"none", "up", "lost", "closed"}]
        BY <1>2 DEF LinkLost, Close
      <3>2. sent' \subseteq sent /\ replies' \subseteq replies
        BY <1>2 DEF LinkLost, Close
      <3>3. quit' \in BOOLEAN /\ UNCHANGED <<conn, nextID, pending, chan, call, reader, pingers, told>>
        BY <1>2 DEF LinkLost, Close
      <3> QED
        BY <3>1, <3>2, <3>3
    <2>2. EveryCallTracked' /\ OneOwner'
      <3>1. UNCHANGED <<pending, chan, call>>
        BY <1>2 DEF LinkLost, Close
      <3> QED
        BY <3>1
    <2>3. IdsUsed'
      BY <1>2 DEF LinkLost, Close, On
    <2>4. DisconnectToldOnce' /\ AttemptLeft'
      BY <1>2 DEF LinkLost, Close, On
    <2> QED
      BY <2>1, <2>2, <2>3, <2>4
  <1>3. CASE PingLoopEnds
    BY <1>3 DEF PingLoopEnds
  <1>4. CASE UNCHANGED proxyVars
    BY <1>4 DEF proxyVars
  <1> QED
    BY <1>1, <1>2, <1>3, <1>4, CallPreserves, ReadLoopPreserves DEF ProxyNext

(* The strengthened invariant holds of every behaviour of Call, the read      *)
(* loop, its reconnects, the ping loops and Close.                            *)
THEOREM CallsInvariant == ProxySpec => []CallsInv
  BY CallsEstablished, CallsPreserved, PTL DEF ProxySpec

(* Types, and a reconnect never passes maxRetries attempts.                   *)
THEOREM CallTypes == ProxySpec => []ProxyTypeOK
  BY CallsInvariant, PTL DEF CallsInv

(* A waiting Call is always where a reply or a failed connection finds it,    *)
(* and a finished Call leaves no entry behind in p.pending.                   *)
THEOREM EveryCallTrackedAlways == ProxySpec => []EveryCallTracked
  BY CallsInvariant, PTL DEF CallsInv

(* A reply routed by readLoop is the answer to the call that gets it.         *)
THEOREM OneOwnerAlways == ProxySpec => []OneOwner
  BY CallsInvariant, PTL DEF CallsInv

(* However the attempts, the give-up and Close overlap, onDisconnect has been *)
(* called once when the read loop is over, and not before.                    *)
THEOREM DisconnectToldOnceAlways == ProxySpec => []DisconnectToldOnce
  BY CallsInvariant, PTL DEF CallsInv
=============================================================================

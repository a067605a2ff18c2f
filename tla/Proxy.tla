------------------------------- MODULE Proxy -------------------------------
(***************************************************************************)
(* agentgw/internal/proxy: the gateway's JSON-RPC client to one agentd.     *)
(* Any number of goroutines Call; one read loop routes replies to them and, *)
(* when the connection fails, fails the calls in flight and dials again;    *)
(* ping loops keep the connection alive; Close may come at any time.        *)
(* Events without an id pass through the read loop and touch no state here. *)
(***************************************************************************)
EXTENDS Naturals, FiniteSets

CONSTANTS
    Callers,     \* goroutines that call ForwardCall
    MaxCalls,    \* bound on calls ever made
    MaxConns,    \* bound on connections ever made
    MaxRetries,  \* maxRetries of tryReconnect (5 in the code)
    Reconnect    \* the reconnect flag: ProxyManager sets it, New does not

ASSUME ProxyAssumption ==
    /\ MaxCalls \in Nat /\ MaxConns \in Nat \ {0} /\ MaxRetries \in Nat
    /\ Reconnect \in BOOLEAN

IDs   == 1..MaxCalls
Conns == 1..MaxConns

VARIABLES
    link,     \* each connection: "none" yet, "up", "lost" (the peer is gone), "closed"
    conn,     \* p.conn
    nextID,   \* p.nextID
    pending,  \* the keys of p.pending
    chan,     \* the reply channel of each id: "none" yet, "open", "reply", "closed"
    call,     \* each caller's Call
    sent,     \* requests agentd has and has not answered, by connection
    replies,  \* replies on their way back, by connection
    reader,   \* the read loop and its reconnect attempts
    pingers,  \* ping loops running
    quit,     \* p.quit is closed
    told      \* onDisconnect callbacks made

proxyVars == <<link, conn, nextID, pending, chan, call, sent, replies, reader, pingers, quit, told>>
wire == <<link, conn, sent, replies>>
loops == <<reader, pingers, quit, told>>

NoCall == [pc |-> "idle", id |-> 0]
On(c) == {m \in sent \cup replies : m.conn = c}

\* NewWithReconnect has dialled and started both loops.
ProxyInit ==
    /\ link = [c \in Conns |-> IF c = 1 THEN "up" ELSE "none"]
    /\ conn = 1 /\ nextID = 1
    /\ pending = {} /\ chan = [i \in IDs |-> "none"]
    /\ call = [g \in Callers |-> NoCall]
    /\ sent = {} /\ replies = {}
    /\ reader = [pc |-> "reading", try |-> 0]
    /\ pingers = 1 /\ quit = FALSE /\ told = 0

-----------------------------------------------------------------------------
(* Call.                                                                     *)

\* The entry is made under p.mu before the request is written.
Register(g) ==
    /\ call[g].pc = "idle" /\ nextID \in IDs
    /\ call' = [call EXCEPT ![g] = [pc |-> "registered", id |-> nextID]]
    /\ pending' = pending \cup {nextID}
    /\ chan' = [chan EXCEPT ![nextID] = "open"]
    /\ nextID' = nextID + 1
    /\ UNCHANGED <<wire, loops>>

\* A write to a peer that is gone may still succeed into the socket's buffer.
WriteSucceeds(g) ==
    /\ call[g].pc = "registered" /\ link[conn] # "closed"
    /\ call' = [call EXCEPT ![g] = [pc |-> "waiting", id |-> call[g].id]]
    /\ sent' = IF link[conn] = "up" THEN sent \cup {[conn |-> conn, id |-> call[g].id]} ELSE sent
    /\ UNCHANGED <<link, conn, nextID, pending, chan, replies, loops>>

WriteFails(g) ==
    /\ call[g].pc = "registered" /\ link[conn] # "up"
    /\ call' = [call EXCEPT ![g] = NoCall]
    /\ pending' = pending \ {call[g].id}
    /\ UNCHANGED <<wire, nextID, chan, loops>>

\* A reply, or the channel closed: "connection closed".
Return(g) ==
    /\ call[g].pc = "waiting" /\ chan[call[g].id] \in {"reply", "closed"}
    /\ call' = [call EXCEPT ![g] = NoCall]
    /\ UNCHANGED <<wire, nextID, pending, chan, loops>>

Timeout(g) ==
    /\ call[g].pc = "waiting"
    /\ call' = [call EXCEPT ![g] = NoCall]
    /\ pending' = pending \ {call[g].id}
    /\ UNCHANGED <<wire, nextID, chan, loops>>

-----------------------------------------------------------------------------
(* agentd and the network.                                                   *)

Answer(m) ==
    /\ m \in sent
    /\ sent' = sent \ {m} /\ replies' = replies \cup {m}
    /\ UNCHANGED <<link, conn, nextID, pending, chan, call, loops>>

LinkLost ==
    /\ link[conn] = "up"
    /\ link' = [link EXCEPT ![conn] = "lost"]
    /\ sent' = sent \ On(conn) /\ replies' = replies \ On(conn)
    /\ UNCHANGED <<conn, nextID, pending, chan, call, loops>>

-----------------------------------------------------------------------------
(* The read loop.                                                            *)

\* A reply whose entry is gone (timed out) is dropped.
Receive(m) ==
    /\ reader.pc = "reading" /\ m \in replies /\ m.conn = conn
    /\ replies' = replies \ {m}
    /\ pending' = pending \ {m.id}
    /\ chan' = IF m.id \in pending THEN [chan EXCEPT ![m.id] = "reply"] ELSE chan
    /\ UNCHANGED <<link, conn, nextID, call, sent, loops>>

\* Mutant: the entries are dropped and nobody is told.
ForgetPending ==
    /\ chan' = chan
    /\ pending' = {}

\* Close every waiting channel and start with an empty map.
FailPending ==
    /\ chan' = [i \in IDs |-> IF i \in pending THEN "closed" ELSE chan[i]]
    /\ pending' = {}

ReadFails ==
    /\ reader.pc = "reading" /\ link[conn] # "up"
    /\ FailPending
    /\ reader' = [pc |-> "trying", try |-> IF Reconnect THEN 0 ELSE MaxRetries]
    /\ UNCHANGED <<wire, nextID, call, pingers, quit, told>>

\* tryReconnect: give up when closed or out of attempts; else sleep, and dial.
Sleep ==
    /\ reader.pc = "trying" /\ reader.try < MaxRetries /\ ~quit
    /\ reader' = [pc |-> "sleeping", try |-> reader.try]
    /\ UNCHANGED <<wire, nextID, pending, chan, call, pingers, quit, told>>

\* Mutant: the read loop goes on after it gave up.
GiveUpReadsOn ==
    /\ reader.pc = "trying" /\ (reader.try = MaxRetries \/ quit)
    /\ reader' = [pc |-> "reading", try |-> 0]
    /\ told' = told + 1
    /\ UNCHANGED <<wire, nextID, pending, chan, call, pingers, quit>>

GiveUp ==
    /\ reader.pc = "trying" /\ (reader.try = MaxRetries \/ quit)
    /\ reader' = [pc |-> "exited", try |-> reader.try]
    /\ told' = told + 1
    /\ UNCHANGED <<wire, nextID, pending, chan, call, pingers, quit>>

\* Mutant: no attempt is ever counted.
RedialFailsUncounted ==
    /\ reader.pc = "sleeping"
    /\ reader' = [pc |-> "trying", try |-> 0]
    /\ UNCHANGED <<wire, nextID, pending, chan, call, pingers, quit, told>>

RedialFails ==
    /\ reader.pc = "sleeping"
    /\ reader' = [pc |-> "trying", try |-> reader.try + 1]
    /\ UNCHANGED <<wire, nextID, pending, chan, call, pingers, quit, told>>

\* Mutant: ids start again on the new connection.
RedialRenumbers(c) ==
    /\ reader.pc = "sleeping" /\ link[c] = "none"
    /\ link' = [link EXCEPT ![c] = "up"]
    /\ conn' = c
    /\ reader' = [pc |-> "reading", try |-> 0]
    /\ pingers' = pingers + 1
    /\ nextID' = 1
    /\ UNCHANGED <<pending, chan, call, sent, replies, quit, told>>

\* The new connection replaces p.conn, with a ping loop of its own; the ids go
\* on where they were.
Redial(c) ==
    /\ reader.pc = "sleeping" /\ link[c] = "none"
    /\ link' = [link EXCEPT ![c] = "up"]
    /\ conn' = c
    /\ reader' = [pc |-> "reading", try |-> 0]
    /\ pingers' = pingers + 1
    /\ UNCHANGED <<nextID, pending, chan, call, sent, replies, quit, told>>

-----------------------------------------------------------------------------
\* A ping loop ends at its next tick when p is closed or its write fails.
PingLoopEnds ==
    /\ pingers > 0
    /\ quit \/ link[conn] # "up"
    /\ pingers' = pingers - 1
    /\ UNCHANGED <<wire, nextID, pending, chan, call, reader, quit, told>>

\* Close: the quit channel, then the connection p.conn is then.
Close ==
    /\ ~quit
    /\ quit' = TRUE
    /\ link' = [link EXCEPT ![conn] = "closed"]
    /\ sent' = sent \ On(conn) /\ replies' = replies \ On(conn)
    /\ UNCHANGED <<conn, nextID, pending, chan, call, reader, pingers, told>>

ProxyReadLoop ==
    \/ \E m \in replies : Receive(m)
    \/ ReadFails \/ Sleep \/ GiveUp \/ RedialFails
    \/ \E c \in Conns : Redial(c)

ProxyNext ==
    \/ \E g \in Callers : Register(g) \/ WriteSucceeds(g) \/ WriteFails(g) \/ Return(g) \/ Timeout(g)
    \/ \E m \in sent : Answer(m)
    \/ LinkLost
    \/ ProxyReadLoop
    \/ PingLoopEnds
    \/ Close

\* The read loop runs, and a sleep ends.  When dials fail or links go down is
\* not promised.
ProxySpec == ProxyInit /\ [][ProxyNext]_proxyVars /\ WF_proxyVars(ProxyReadLoop)

-----------------------------------------------------------------------------
(* Properties.                                                               *)

Active(g) == call[g].pc # "idle"

\* Types.  A try never passes maxRetries.
ProxyTypeOK ==
    /\ link \in [Conns -> {"none", "up", "lost", "closed"}] /\ conn \in Conns
    /\ nextID \in 1..MaxCalls + 1
    /\ pending \subseteq IDs /\ chan \in [IDs -> {"none", "open", "reply", "closed"}]
    /\ call \in [Callers -> [pc : {"idle", "registered", "waiting"}, id : 0..MaxCalls]]
    /\ sent \subseteq [conn : Conns, id : IDs] /\ replies \subseteq [conn : Conns, id : IDs]
    /\ reader \in [pc : {"reading", "trying", "sleeping", "exited"}, try : 0..MaxRetries]
    /\ pingers \in Nat /\ quit \in BOOLEAN /\ told \in Nat

\* A call whose channel is still open can be woken: its entry is in the map,
\* where a reply or a failure of the connection will find it.  And the map holds
\* no entry whose call is over.
EveryCallTracked ==
    /\ \A g \in Callers : Active(g) /\ chan[call[g].id] = "open" => call[g].id \in pending
    /\ \A i \in pending : chan[i] = "open" /\ \E g \in Callers : Active(g) /\ call[g].id = i

\* Across connections too, no two calls share an id, so a late reply or the
\* end of one call is never taken for another's.
OneOwner == \A g, h \in Callers : Active(g) /\ Active(h) /\ call[g].id = call[h].id => g = h

\* onDisconnect fires once, when the read loop ends, and never before.
DisconnectToldOnce == told = (IF reader.pc = "exited" THEN 1 ELSE 0)

\* A read loop that is not reading comes back to reading or ends: no attempt
\* hangs, and a Close during one is noticed or overtaken.
ReconnectDecides == reader.pc \in {"trying", "sleeping"} ~> reader.pc \in {"reading", "exited"}
=============================================================================

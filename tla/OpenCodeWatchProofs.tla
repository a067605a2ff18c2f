------------------------- MODULE OpenCodeWatchProofs -------------------------
(***************************************************************************)
(* For any sessions, messages, parts, clears, failures and sends: what a   *)
(* poll leaves in the buffer, and that what was cleared stays cleared.     *)
(***************************************************************************)
EXTENDS OpenCodeWatch, FiniteSetTheorems, SequenceTheorems, Loops

-----------------------------------------------------------------------------
(* Events given to the callback.                                             *)

Events   == [id : Ids, kind : {"sub", "text", "ask"}, role : {"user", "assistant"},
             text : 0..MaxText]
Statuses == {"working", "idle"}
\* The buffer and the status between two callbacks.
States   == [buf : Seq(Events), status : Statuses]

Keyed(b) ==
    \A x, y \in DOMAIN b :
        x # y /\ b[x].id # None /\ b[x].id = b[y].id /\ b[x].kind = b[y].kind => b[x].kind = "ask"

\* A user's message is text.
UserText(b) == \A e \in Range(b) : e.role = "user" => e.kind = "text"

\* What a user can write, and what OpenCode can.
Sane(m) == m \in Message /\ (m.role = "user" => ~m.sub /\ m.ask = "no")

\* e is an event of message i as m.
Of(e, i, m) == e.id = i /\ e.role = m.role /\ e.text = m.text

\* c is b after events of message i as m.
After(b, c, i, m) ==
    /\ \A e \in Range(c) : e \in Range(b) \/ Of(e, i, m)
    /\ \A e \in Range(b) : e \in Range(c) \/ (e.id = i /\ \E f \in Range(c) : Of(f, i, m) /\ f.kind = e.kind)
    /\ Keyed(b) => Keyed(c)
    /\ UserText(b) => UserText(c)

\* The text of i is there, or the user has said it in another message.
Said(b, i, m) ==
    \/ \E e \in Range(b) : Of(e, i, m) /\ e.kind = "text"
    \/ m.role = "user" /\ \E e \in Range(b) : e.id # i /\ e.role = "user" /\ e.text = m.text

HasSub(b, i) == \E e \in Range(b) : e.id = i /\ e.kind = "sub"

\* g is an event the watcher may give of message i as m.
Gift(g, i, m) ==
    /\ g \in [ev : {Event(i, "sub", m), Event(i, "text", m)}, ask : BOOLEAN, st : Statuses \cup {"none"}]
    /\ m.role = "user" => g.ev.kind = "text"
    /\ g.ask => m.ask = "asked" /\ g.ev.kind = "text"

(* Nothing recorded, nothing changed.                                        *)
LEMMA AfterNothing ==
  ASSUME NEW b, NEW i, NEW m
  PROVE  After(b, b, i, m)
BY DEF After

(* Recording goes on.                                                        *)
LEMMA AfterAgain ==
  ASSUME NEW b, NEW c, NEW d, NEW i, NEW m, After(b, c, i, m), After(c, d, i, m)
  PROVE  After(b, d, i, m)
<1>1. \A e \in Range(d) : e \in Range(b) \/ Of(e, i, m)
  BY DEF After
<1>2. ASSUME NEW e \in Range(b)
      PROVE  e \in Range(d) \/ (e.id = i /\ \E f \in Range(d) : Of(f, i, m) /\ f.kind = e.kind)
  <2>1. CASE e \in Range(c)
    BY <2>1 DEF After
  <2>2. CASE e.id = i /\ \E f \in Range(c) : Of(f, i, m) /\ f.kind = e.kind
    <3>1. PICK f \in Range(c) : Of(f, i, m) /\ f.kind = e.kind
      BY <2>2
    <3>2. f \in Range(d) \/ \E g \in Range(d) : Of(g, i, m) /\ g.kind = f.kind
      BY DEF After
    <3> QED
      BY <2>2, <3>1, <3>2
  <2> QED
    BY <2>1, <2>2 DEF After
<1> QED
  BY <1>1, <1>2 DEF After

(* What was said of a message, and its reasoning, stay.                      *)
LEMMA SaidStays ==
  ASSUME NEW b, NEW c, NEW i, NEW m, After(b, c, i, m), Said(b, i, m)
  PROVE  Said(c, i, m)
BY DEF After, Said, Of

(* The reasoning and tool parts of every message stay in the buffer.         *)
LEMMA SubStays ==
  ASSUME NEW b, NEW c, NEW i, NEW j, NEW m, After(b, c, i, m), HasSub(b, j)
  PROVE  HasSub(c, j)
BY DEF After, HasSub, Of

(* An event appended to the buffer.                                          *)
LEMMA AppendAfter ==
  ASSUME NEW b \in Seq(Events), NEW e \in Events, NEW i, NEW m, Of(e, i, m), e.role = "user" => e.kind = "text",
         e.kind = "ask" \/ e.id = None \/ \A x \in DOMAIN b : ~(b[x].id = e.id /\ b[x].kind = e.kind)
  PROVE  /\ Append(b, e) \in Seq(Events) /\ After(b, Append(b, e), i, m)
         /\ e \in Range(Append(b, e))
<1> DEFINE c == Append(b, e)
<1>1. c \in Seq(Events) /\ DOMAIN b = 1..Len(b) /\ DOMAIN c = 1..Len(b) + 1 /\ Len(b) \in Nat
  OBVIOUS
<1>2. c[Len(b) + 1] = e /\ \A x \in DOMAIN b : c[x] = b[x]
  BY <1>1
<1>3. \A x \in DOMAIN c : x \in DOMAIN b \/ x = Len(b) + 1
  BY <1>1
<1> HIDE DEF c
<1>4. \A f \in Range(c) : f \in Range(b) \/ f = e
  BY <1>2, <1>3 DEF Range
<1>5. Range(b) \subseteq Range(c) /\ e \in Range(c)
  BY <1>1, <1>2 DEF Range
<1>6. Keyed(b) => Keyed(c)
  <2> SUFFICES ASSUME Keyed(b), NEW x \in DOMAIN c, NEW y \in DOMAIN c,
                      x # y, c[x].id # None, c[x].id = c[y].id, c[x].kind = c[y].kind
               PROVE  c[x].kind = "ask"
    BY DEF Keyed
  <2>1. CASE x \in DOMAIN b /\ y \in DOMAIN b
    BY <1>2, <2>1 DEF Keyed
  <2>2. CASE x = Len(b) + 1 /\ y \in DOMAIN b
    BY <1>2, <2>2
  <2>3. CASE y = Len(b) + 1 /\ x \in DOMAIN b
    BY <1>2, <2>3
  <2> QED
    BY <1>3, <2>1, <2>2, <2>3
<1>7. UserText(b) => UserText(c)
  BY <1>4 DEF UserText
<1> QED
  BY <1>1, <1>4, <1>5, <1>6, <1>7 DEF After, c

(* UpdateOrAppend.                                                           *)
LEMMA RecordedAfter ==
  ASSUME NEW b \in Seq(Events), NEW e \in Events, NEW i, NEW m, Of(e, i, m), e.role = "user" => e.kind = "text"
  PROVE  /\ Recorded(b, e) \in Seq(Events) /\ After(b, Recorded(b, e), i, m)
         /\ e \in Range(Recorded(b, e))
<1> DEFINE here == {x \in DOMAIN b : b[x].id = e.id /\ b[x].kind = e.kind}
           c    == [x \in DOMAIN b |-> IF x \in here THEN e ELSE b[x]]
<1>1. CASE here = {}
  <2>1. Recorded(b, e) = Append(b, e)
    BY <1>1 DEF Recorded
  <2>2. \A x \in DOMAIN b : ~(b[x].id = e.id /\ b[x].kind = e.kind)
    BY <1>1
  <2> QED
    BY <2>1, <2>2, AppendAfter
<1>2. CASE here # {}
  <2>1. Recorded(b, e) = c
    BY <1>2 DEF Recorded
  <2>2. DOMAIN b = 1..Len(b) /\ Len(b) \in Nat /\ \A x \in DOMAIN b : b[x] \in Events
    OBVIOUS
  <2>3. c \in [1..Len(b) -> Events]
    BY <2>2
  <2>4. c \in Seq(Events)
    BY <2>2, <2>3, SeqDef
  <2>5. DOMAIN c = DOMAIN b /\ here \subseteq DOMAIN b /\ \A x \in DOMAIN b : c[x] = IF x \in here THEN e ELSE b[x]
    OBVIOUS
  <2>6. \A x \in DOMAIN b : c[x].id = b[x].id /\ c[x].kind = b[x].kind
    BY <2>5
  <2>7. \A x \in here : c[x] = e /\ b[x].id = e.id /\ b[x].kind = e.kind
    BY <2>5
  <2>8. \A x \in DOMAIN b \ here : c[x] = b[x]
    BY <2>5
  <2> HIDE DEF c, here
  <2>9. e \in Range(c)
    BY <1>2, <2>5, <2>7 DEF Range
  <2>10. \A f \in Range(c) : f \in Range(b) \/ f = e
    BY <2>5 DEF Range
  <2>11. ASSUME NEW f \in Range(b)
         PROVE  f \in Range(c) \/ (f.id = i /\ \E g \in Range(c) : Of(g, i, m) /\ g.kind = f.kind)
    <3>1. PICK x \in DOMAIN b : f = b[x]
      BY DEF Range
    <3>2. CASE x \in here
      BY <2>7, <2>9, <3>1, <3>2 DEF Of
    <3>3. CASE x \notin here
      BY <2>5, <2>8, <3>1, <3>3 DEF Range
    <3> QED
      BY <3>2, <3>3
  <2>12. Keyed(b) => Keyed(c)
    BY <2>5, <2>6 DEF Keyed
  <2>13. UserText(b) => UserText(c)
    BY <2>10 DEF UserText
  <2> QED
    BY <2>1, <2>4, <2>9, <2>10, <2>11, <2>12, <2>13 DEF After
<1> QED
  BY <1>1, <1>2

(* One callback.                                                             *)
LEMMA CallbackAfter ==
  ASSUME NEW a \in States, NEW i \in Messages, NEW m, Sane(m), NEW g, Gift(g, i, m)
  PROVE  /\ Callback(a, g) \in States /\ After(a.buf, Callback(a, g).buf, i, m)
         /\ g.ev.kind = "sub" => HasSub(Callback(a, g).buf, i)
         /\ g.ev.kind = "text" /\ ~g.ask /\ UserText(a.buf) => Said(Callback(a, g).buf, i, m)
<1> DEFINE b == a.buf
           e == g.ev
           repeats == e.role = "user" /\ b # <<>> /\ b[Len(b)].role = "user" /\ b[Len(b)].text = e.text
<1>1. b \in Seq(Events) /\ a.status \in Statuses
  BY DEF States
<1>2. /\ e.id = i /\ e.role = m.role /\ e.text = m.text /\ e.kind \in {"sub", "text"}
      /\ e = [id |-> i, kind |-> e.kind, role |-> m.role, text |-> m.text]
      /\ g.st \in Statuses \cup {"none"} /\ g.ask \in BOOLEAN
  BY DEF Gift, Event
<1>3. m.role \in {"user", "assistant"} /\ m.text \in 0..MaxText
  BY DEF Sane, Message
<1>4. e \in Events
  BY <1>2, <1>3 DEF Events, Ids
<1>5. Of(e, i, m) /\ (e.role = "user" => e.kind = "text")
  BY <1>2 DEF Of, Gift
<1>6. CASE repeats
  <2>1. Callback(a, g) = a
    BY <1>6 DEF Callback
  <2>2. After(b, b, i, m)
    BY AfterNothing
  <2>3. e.kind = "text"
    BY <1>5, <1>6
  <2>4. UserText(b) => Said(b, i, m)
    <3>1. b[Len(b)] \in Range(b)
      BY <1>1, <1>6 DEF Range
    <3> QED
      BY <1>2, <1>6, <3>1 DEF UserText, Said, Of
  <2> QED
    BY <2>1, <2>2, <2>3, <2>4
<1>7. CASE ~repeats
  <2> DEFINE c == IF g.ask THEN Asked(b, [e EXCEPT !.kind = "ask"]) ELSE Recorded(b, e)
             st == IF g.st = "none" THEN a.status ELSE g.st
  <2>1. Callback(a, g) = [buf |-> c, status |-> st]
    BY <1>7 DEF Callback
  <2>2. st \in Statuses
    BY <1>1, <1>2 DEF Statuses
  <2>3. CASE g.ask
    <3> DEFINE q == [e EXCEPT !.kind = "ask"]
    <3>1. q.id = i /\ q.role = m.role /\ q.text = m.text /\ q.kind = "ask"
      BY <1>2
    <3>2. q \in Events
      BY <1>2, <1>3 DEF Events, Ids
    <3>3. m.role # "user"
      BY <2>3 DEF Gift, Sane
    <3> HIDE DEF q
    <3>4. Append(b, q) \in Seq(Events) /\ After(b, Append(b, q), i, m)
      <4>1. Of(q, i, m) /\ (q.role = "user" => q.kind = "text") /\ q.kind = "ask"
        BY <3>1, <3>3 DEF Of
      <4> QED
        BY <1>1, <3>2, <4>1, AppendAfter
    <3>5. Asked(b, q) \in {b, Append(b, q)}
      BY DEF Asked
    <3>6. Asked(b, q) \in Seq(Events) /\ After(b, Asked(b, q), i, m)
      BY <1>1, <3>4, <3>5, AfterNothing
    <3>7. c = Asked(b, q)
      BY <2>3 DEF q
    <3>8. e.kind = "text"
      BY <2>3 DEF Gift
    <3> HIDE DEF c, st, b, e
    <3>9. Callback(a, g).buf = c /\ Callback(a, g) \in States
      BY <2>1, <2>2, <3>6, <3>7 DEF States
    <3>10. After(b, c, i, m)
      BY <3>6, <3>7
    <3> QED
      BY <2>3, <3>8, <3>9, <3>10 DEF b, e
  <2>4. CASE ~g.ask
    <3>1. c = Recorded(b, e)
      BY <2>4
    <3>2. c \in Seq(Events) /\ After(b, c, i, m) /\ e \in Range(c)
      BY <1>1, <1>4, <1>5, <3>1, RecordedAfter
    <3> HIDE DEF c, st
    <3>3. Callback(a, g).buf = c /\ Callback(a, g) \in States
      BY <2>1, <2>2, <3>2 DEF States
    <3>4. e.kind = "sub" => HasSub(c, i)
      BY <1>2, <3>2 DEF HasSub
    <3>5. e.kind = "text" => Said(c, i, m)
      BY <1>5, <3>2 DEF Said
    <3> QED
      BY <3>2, <3>3, <3>4, <3>5
  <2> QED
    BY <1>2, <2>3, <2>4
<1> QED
  BY <1>6, <1>7

-----------------------------------------------------------------------------
(* The callbacks of one message.                                             *)

Gifts(i, m) ==
    {g \in [ev : {Event(i, "sub", m), Event(i, "text", m)}, ask : BOOLEAN, st : Statuses \cup {"none"}] :
        Gift(g, i, m)}

\* What b holds once g was given.
Taken(g, b, i, m) ==
    /\ g.ev.kind = "sub" => HasSub(b, i)
    /\ g.ev.kind = "text" /\ ~g.ask => Said(b, i, m)

(* The loop over the callbacks is the one it is written as.                  *)
LEMMA CalledTurns ==
  ASSUME buf \in Seq(Events), status \in Statuses, NEW i \in Messages, NEW m, Sane(m), NEW gs \in Seq(Gifts(i, m))
  PROVE  /\ Called(gs)[0] = [buf |-> buf, status |-> status]
         /\ \A k \in 1..Len(gs) : Called(gs)[k] = Callback(Called(gs)[k - 1], gs[k])
<1> DEFINE n == Len(gs)
           s0 == [buf |-> buf, status |-> status]
           r == Called(gs)
           G == [k \in 1..n |-> [a \in States |-> Callback(a, gs[k])]]
           Is(f) == f = [k \in 0..n |-> IF k = 0 THEN s0 ELSE Callback(f[k - 1], gs[k])]
<1>1. n \in Nat /\ \A k \in 1..n : Gift(gs[k], i, m)
  BY DEF Gifts
<1>2. s0 \in States
  BY DEF States
<1>3. G \in [1..n -> [States -> States]]
  <2>1. ASSUME NEW k \in 1..n, NEW a \in States PROVE Callback(a, gs[k]) \in States
    BY <1>1, CallbackAfter
  <2> QED
    BY <2>1
<1>4. PICK f : IsLoop(f, n, States, s0, G)
  <2> HIDE DEF G, n, s0, Is
  <2> QED
    BY <1>1, <1>2, <1>3, LoopExists
<1>5. Is(f)
  <2>1. ASSUME NEW k \in 1..n PROVE f[k] = Callback(f[k - 1], gs[k])
    <3>1. f[k - 1] \in States
      <4>1. k - 1 \in 0..n
        BY <1>1
      <4> QED
        BY <1>4, <4>1 DEF IsLoop
    <3> HIDE DEF s0
    <3> QED
      BY <1>4, <3>1 DEF IsLoop
  <2> HIDE DEF s0
  <2> QED
    BY <1>1, <1>4, <2>1 DEF IsLoop
<1>6. r = CHOOSE g : Is(g)
  BY DEF Called
<1>7. Is(r)
  <2> HIDE DEF Is, r
  <2> QED
    BY <1>5, <1>6
<1> HIDE DEF r, s0
<1>8. r[0] = s0 /\ \A k \in 1..n : r[k] = Callback(r[k - 1], gs[k])
  BY <1>1, <1>7
<1> QED
  BY <1>8 DEF r, s0

(* What the callbacks of a message do to the buffer.                         *)
LEMMA CallsAfter ==
  ASSUME buf \in Seq(Events), status \in Statuses, UserText(buf),
         NEW i \in Messages, NEW m, Sane(m), NEW gs \in Seq(Gifts(i, m)), Calls(gs)
  PROVE  /\ buf' \in Seq(Events) /\ status' \in Statuses /\ After(buf, buf', i, m)
         /\ \A g \in Range(gs) : Taken(g, buf', i, m)
<1> DEFINE n == Len(gs)
           r == Called(gs)
           Good(k) == /\ r[k] \in States /\ After(buf, r[k].buf, i, m)
                      /\ \A j \in 1..k : Taken(gs[j], r[k].buf, i, m)
           T == {k \in 0..n : Good(k)}
<1>1. n \in Nat /\ DOMAIN gs = 1..n /\ \A k \in 1..n : Gift(gs[k], i, m)
  BY DEF Gifts
<1>2. r[0] = [buf |-> buf, status |-> status] /\ \A k \in 1..n : r[k] = Callback(r[k - 1], gs[k])
  BY CalledTurns
<1> HIDE DEF r
<1>3. 0 \in T
  <2>1. r[0] \in States /\ r[0].buf = buf
    BY <1>2 DEF States
  <2>2. After(buf, r[0].buf, i, m)
    BY <2>1, AfterNothing
  <2> QED
    BY <1>1, <2>1, <2>2
<1>4. ASSUME NEW k \in 1..n, k - 1 \in T PROVE k \in T
  <2> DEFINE a == r[k - 1]
             c == r[k]
  <2>1. a \in States /\ After(buf, a.buf, i, m) /\ (\A j \in 1..k - 1 : Taken(gs[j], a.buf, i, m))
    BY <1>4
  <2>2. c = Callback(a, gs[k]) /\ Gift(gs[k], i, m)
    BY <1>1, <1>2
  <2> HIDE DEF a, c
  <2>3. UserText(a.buf)
    BY <2>1 DEF After
  <2>4. c \in States /\ After(a.buf, c.buf, i, m) /\ Taken(gs[k], c.buf, i, m)
    <3>1. c \in States /\ After(a.buf, c.buf, i, m)
      BY <2>1, <2>2, CallbackAfter
    <3>2. gs[k].ev.kind = "sub" => HasSub(c.buf, i)
      BY <2>1, <2>2, CallbackAfter
    <3>3. gs[k].ev.kind = "text" /\ ~gs[k].ask => Said(c.buf, i, m)
      BY <2>1, <2>2, <2>3, CallbackAfter
    <3> QED
      BY <3>1, <3>2, <3>3 DEF Taken
  <2>5. After(buf, c.buf, i, m)
    BY <2>1, <2>4, AfterAgain
  <2>6. ASSUME NEW j \in 1..k PROVE Taken(gs[j], c.buf, i, m)
    <3>1. CASE j = k
      BY <2>4, <3>1
    <3>2. CASE j # k
      <4>1. Taken(gs[j], a.buf, i, m)
        BY <1>1, <2>1, <3>2
      <4> QED
        BY <2>4, <4>1, SaidStays, SubStays DEF Taken
    <3> QED
      BY <3>1, <3>2
  <2>7. Good(k)
    BY <2>4, <2>5, <2>6 DEF c
  <2> HIDE DEF Good
  <2> QED
    BY <1>1, <2>7
<1>5. Good(n)
  <2> HIDE DEF Good
  <2>1. 0..n \subseteq T
    <3> HIDE DEF T, n
    <3> QED
      BY <1>1, <1>3, <1>4, Reaches
  <2> QED
    BY <1>1, <2>1
<1>6. buf' = r[n].buf /\ status' = r[n].status
  BY DEF Calls, r
<1>7. ASSUME NEW g \in Range(gs) PROVE Taken(g, buf', i, m)
  <2>1. PICK k \in 1..n : g = gs[k]
    BY <1>1 DEF Range
  <2> QED
    BY <1>5, <1>6, <2>1
<1> QED
  BY <1>5, <1>6, <1>7 DEF States

-----------------------------------------------------------------------------
(* The events of a message.                                                  *)

(* Its reasoning or tool part, once.                                         *)
LEMMA SubsGifts ==
  ASSUME NEW i \in Messages, NEW m, Sane(m), NEW st \in Statuses
  PROVE  /\ Subs(i, m, st) \in Seq(Gifts(i, m))
         /\ Pending(i, m) => \E g \in Range(Subs(i, m, st)) : g.ev.kind = "sub"
<1> DEFINE g == Given(i, "sub", m, Assistant(m, st))
<1>1. CASE Pending(i, m)
  <2>1. Subs(i, m, st) = <<g>>
    BY <1>1 DEF Subs
  <2>2. m.role # "user"
    BY <1>1 DEF Pending, Sane
  <2>3. g.ev = Event(i, "sub", m) /\ g.ev.kind = "sub" /\ g.ask = FALSE /\ g.st \in Statuses \cup {"none"}
        /\ g = [ev |-> g.ev, ask |-> g.ask, st |-> g.st]
    BY DEF Given, Event, Assistant
  <2> HIDE DEF g
  <2>4. g \in Gifts(i, m)
    BY <2>2, <2>3 DEF Gifts, Gift
  <2>5. <<g>>[1] = g /\ DOMAIN <<g>> = {1}
    OBVIOUS
  <2>6. g \in Range(<<g>>)
    BY <2>5 DEF Range
  <2> QED
    BY <2>1, <2>3, <2>4, <2>6
<1>2. CASE ~Pending(i, m)
  BY <1>2 DEF Subs
<1> QED
  BY <1>1, <1>2

(* Its text, as a question or not.                                           *)
LEMMA TextGifts ==
  ASSUME NEW i \in Messages, NEW m, Sane(m), NEW st \in Statuses
  PROVE  /\ Text(i, m, st) \in Seq(Gifts(i, m))
         /\ Shown(m) /\ m.ask # "asked" => \E g \in Range(Text(i, m, st)) : g.ev.kind = "text" /\ ~g.ask
<1> DEFINE g == Given(i, "text", m, Assistant(m, st))
<1>1. CASE Shown(m)
  <2>1. Text(i, m, st) = <<g>>
    BY <1>1 DEF Text
  <2>3. g.ev = Event(i, "text", m) /\ g.ev.kind = "text" /\ g.ask = (m.ask = "asked") /\ g.st \in Statuses \cup {"none"}
        /\ g = [ev |-> g.ev, ask |-> g.ask, st |-> g.st]
    BY DEF Given, Event, Assistant
  <2> HIDE DEF g
  <2>4. g \in Gifts(i, m)
    BY <2>3 DEF Gifts, Gift
  <2>5. <<g>>[1] = g /\ DOMAIN <<g>> = {1}
    OBVIOUS
  <2>6. g \in Range(<<g>>)
    BY <2>5 DEF Range
  <2>7. m.ask # "asked" => ~g.ask
    BY <2>3
  <2>8. <<g>> \in Seq(Gifts(i, m))
    BY <2>4
  <2>9. m.ask # "asked" => \E x \in Range(<<g>>) : x.ev.kind = "text" /\ ~x.ask
    BY <2>3, <2>6, <2>7
  <2> QED
    BY <2>1, <2>8, <2>9
<1>2. CASE ~Shown(m)
  BY <1>2 DEF Text
<1> QED
  BY <1>1, <1>2

(* The announcement that an answer has begun, or that it uses a tool.        *)
LEMMA NoticeGifts ==
  ASSUME NEW i \in Messages, NEW m, Sane(m)
  PROVE  <<[Given(i, "text", m, "working") EXCEPT !.ask = FALSE]>> \in Seq(Gifts(i, m))
         /\ <<Given(i, "text", m, "working")>> \in Seq(Gifts(i, m))
<1> DEFINE g == Given(i, "text", m, "working")
           h == [Given(i, "text", m, "working") EXCEPT !.ask = FALSE]
<1>1. g.ev = Event(i, "text", m) /\ g.ev.kind = "text" /\ g.ask = (m.ask = "asked") /\ g.st \in Statuses
        /\ g = [ev |-> g.ev, ask |-> g.ask, st |-> g.st]
  BY DEF Given, Event, Statuses
<1>2. h.ev = Event(i, "text", m) /\ h.ev.kind = "text" /\ h.ask = FALSE /\ h.st \in Statuses
        /\ h = [ev |-> h.ev, ask |-> h.ask, st |-> h.st]
  <2> DEFINE asks == m.ask = "asked"
  <2>1. g = [ev |-> Event(i, "text", m), ask |-> asks, st |-> "working"]
    BY DEF Given
  <2>2. h = [g EXCEPT !.ask = FALSE]
    OBVIOUS
  <2> HIDE DEF g, h, asks
  <2>3. h = [ev |-> Event(i, "text", m), ask |-> FALSE, st |-> "working"]
    BY <2>1, <2>2
  <2> QED
    BY <2>3 DEF Event, Statuses
<1> HIDE DEF g, h
<1>3. g \in Gifts(i, m) /\ h \in Gifts(i, m)
  BY <1>1, <1>2 DEF Gifts, Gift
<1> QED
  BY <1>3 DEF g, h

(* Its history, put after that of earlier messages.                          *)
LEMMA HistoryAfter ==
  ASSUME NEW b \in Seq(Events), NEW i \in Messages, NEW m, Sane(m), \A e \in Range(b) : e.id # i
  PROVE  /\ b \o HistoryOf(i, m) \in Seq(Events) /\ After(b, b \o HistoryOf(i, m), i, m)
         /\ Shown(m) /\ m.ask # "asked" =>
               \E e \in Range(b \o HistoryOf(i, m)) : Of(e, i, m) /\ e.kind = "text"
<1> DEFINE e == Event(i, "sub", m)
           f == Event(i, IF m.ask = "asked" THEN "ask" ELSE "text", m)
           u == IF m.sub THEN <<e>> ELSE <<>>
           v == IF Shown(m) THEN <<f>> ELSE <<>>
           c == b \o u
<1>1. HistoryOf(i, m) = u \o v
  BY DEF HistoryOf
<1>2. m.role \in {"user", "assistant"} /\ m.text \in 0..MaxText /\ m.sub \in BOOLEAN
      /\ (m.role = "user" => ~m.sub /\ m.ask = "no")
  BY DEF Sane, Message
<1>3. e \in Events /\ Of(e, i, m) /\ e.kind = "sub"
  BY <1>2 DEF Event, Events, Ids, Of
<1>4. f \in Events /\ Of(f, i, m) /\ f.kind \in {"ask", "text"} /\ (f.role = "user" => f.kind = "text")
      /\ (m.ask # "asked" => f.kind = "text")
  BY <1>2 DEF Event, Events, Ids, Of
<1> HIDE DEF e, f
<1>5. u \in Seq(Events) /\ v \in Seq(Events)
  BY <1>3, <1>4
<1>6. b \o (u \o v) = c \o v
  <2> HIDE DEF u, v
  <2> HIDE DEF c
  <2>1. ASSUME NEW S, NEW p \in Seq(S), NEW q \in Seq(S), NEW t \in Seq(S)
        PROVE  p \o (q \o t) = (p \o q) \o t
    BY SMTT(30)
  <2>2. b \o (u \o v) = (b \o u) \o v
    BY <1>5, <2>1
  <2>3. c = b \o u
    BY DEF c
  <2> QED
    BY <2>2, <2>3
<1>7. \A x \in DOMAIN b : b[x].id # i
  BY DEF Range
<1>8. c \in Seq(Events) /\ After(b, c, i, m) /\ \A x \in DOMAIN c : c[x].id # i \/ c[x].kind = "sub"
  <2>1. CASE m.sub
    <3>1. c = Append(b, e)
      BY <2>1, <1>3
    <3>2. e.role = "user" => e.kind = "text"
      BY <1>2, <1>3, <2>1 DEF Of
    <3>3. \A x \in DOMAIN b : ~(b[x].id = e.id /\ b[x].kind = e.kind)
      BY <1>3, <1>7 DEF Of
    <3>4. Append(b, e) \in Seq(Events) /\ After(b, Append(b, e), i, m)
      BY <1>3, <3>2, <3>3, AppendAfter
    <3>5. \A x \in DOMAIN Append(b, e) : (x \in DOMAIN b /\ Append(b, e)[x] = b[x]) \/ Append(b, e)[x] = e
      BY <1>3
    <3> QED
      BY <1>3, <1>7, <3>1, <3>4, <3>5
  <2>2. CASE ~m.sub
    <3>1. c = b
      BY <2>2, ConcatEmptySeq
    <3> QED
      BY <1>7, <3>1, AfterNothing
  <2> QED
    BY <2>1, <2>2
<1> HIDE DEF u, c
<1>9. c \o v \in Seq(Events) /\ After(c, c \o v, i, m) /\ (Shown(m) => f \in Range(c \o v))
  <2>1. CASE Shown(m)
    <3>1. c \o v = Append(c, f)
      BY <2>1, <1>4, <1>8
    <3>2. \A x \in DOMAIN c : ~(c[x].id = f.id /\ c[x].kind = f.kind)
      BY <1>4, <1>8 DEF Of
    <3>3. Append(c, f) \in Seq(Events) /\ After(c, Append(c, f), i, m) /\ f \in Range(Append(c, f))
      BY <1>4, <1>8, <3>2, AppendAfter
    <3> QED
      BY <3>1, <3>3
  <2>2. CASE ~Shown(m)
    <3>1. c \o v = c
      BY <2>2, <1>8, ConcatEmptySeq
    <3> QED
      BY <1>8, <2>2, <3>1, AfterNothing
  <2> QED
    BY <2>1, <2>2
<1> HIDE DEF v
<1>10. After(b, c \o v, i, m)
  BY <1>8, <1>9, AfterAgain
<1> QED
  BY <1>1, <1>4, <1>6, <1>9, <1>10

-----------------------------------------------------------------------------
(* The history of a session.                                                 *)

(* Loading it is the loop it is written as.                                  *)
LEMMA LoadedTurns ==
  ASSUME NEW s, db[s] \in Seq(Message), \A i \in DOMAIN db[s] : Sane(db[s][i]), Count(s) <= MaxMessages
  PROVE  /\ Loaded(s)[0] = <<>>
         /\ \A k \in 1..Count(s) : Loaded(s)[k] = Loaded(s)[k - 1] \o HistoryOf(k, db[s][k])
<1> DEFINE n == Count(s)
           r == Loaded(s)
           H(k) == HistoryOf(k, db[s][k])
           G == [k \in 1..n |-> [b \in Seq(Events) |-> b \o H(k)]]
           Is(f) == f = [k \in 0..n |-> IF k = 0 THEN <<>> ELSE f[k - 1] \o H(k)]
<1>1. n \in Nat /\ 1..n \subseteq Messages /\ DOMAIN db[s] = 1..n
  BY WatchAssumption DEF Count, Messages
<1>2. <<>> \in Seq(Events)
  OBVIOUS
<1>3. ASSUME NEW k \in 1..n, NEW b \in Seq(Events) PROVE b \o H(k) \in Seq(Events)
  <2>1. Sane(db[s][k]) /\ k \in Messages
    BY <1>1
  <2>2. \A e \in Range(<<>>) : e.id # k
    BY DEF Range
  <2>3. <<>> \o H(k) \in Seq(Events)
    BY <1>2, <2>1, <2>2, HistoryAfter
  <2>4. H(k) \in Seq(Events)
    <3>1. Event(k, "sub", db[s][k]) \in Events
          /\ Event(k, IF db[s][k].ask = "asked" THEN "ask" ELSE "text", db[s][k]) \in Events
      BY <2>1 DEF Event, Events, Ids, Sane, Message
    <3> QED
      BY <3>1 DEF HistoryOf
  <2> QED
    BY <2>4
<1>4. G \in [1..n -> [Seq(Events) -> Seq(Events)]]
  BY <1>3
<1>5. PICK f : IsLoop(f, n, Seq(Events), <<>>, G)
  <2> HIDE DEF G, n, Is
  <2> QED
    BY <1>1, <1>2, <1>4, LoopExists
<1>6. Is(f)
  <2>1. ASSUME NEW k \in 1..n PROVE f[k] = f[k - 1] \o H(k)
    <3>1. f[k - 1] \in Seq(Events)
      <4>1. k - 1 \in 0..n
        BY <1>1
      <4> QED
        BY <1>5, <4>1 DEF IsLoop
    <3> HIDE DEF H
    <3> QED
      BY <1>5, <3>1 DEF IsLoop
  <2> HIDE DEF H
  <2> QED
    BY <1>1, <1>5, <2>1 DEF IsLoop
<1>7. r = CHOOSE g : Is(g)
  BY DEF Loaded
<1>8. Is(r)
  <2> HIDE DEF Is, r
  <2> QED
    BY <1>6, <1>7
<1> HIDE DEF r, H
<1>9. r[0] = <<>> /\ \A k \in 1..n : r[k] = r[k - 1] \o H(k)
  BY <1>1, <1>8
<1> QED
  BY <1>9 DEF r, H

(* It holds each message once, in their order, with all its text.            *)
LEMMA HistoryHolds ==
  ASSUME NEW s, db[s] \in Seq(Message), \A i \in DOMAIN db[s] : Sane(db[s][i]), Count(s) <= MaxMessages
  PROVE  /\ OpenCodeDBHistory(s) \in Seq(Events)
         /\ Keyed(OpenCodeDBHistory(s)) /\ UserText(OpenCodeDBHistory(s))
         /\ \A e \in Range(OpenCodeDBHistory(s)) : e.id \in 1..Count(s)
         /\ \A j \in 1..Count(s) : db[s][j].text > 0 /\ db[s][j].ask # "asked" =>
               \E e \in Range(OpenCodeDBHistory(s)) : Of(e, j, db[s][j]) /\ e.kind = "text"
<1> DEFINE n == Count(s)
           r == Loaded(s)
           Tells(b, j) == db[s][j].text > 0 /\ db[s][j].ask # "asked" =>
                             \E e \in Range(b) : Of(e, j, db[s][j]) /\ e.kind = "text"
           Good(k, b) == /\ b \in Seq(Events) /\ Keyed(b) /\ UserText(b)
                         /\ \A e \in Range(b) : e.id \in 1..k
                         /\ \A j \in 1..k : Tells(b, j)
           T == {k \in 0..n : Good(k, r[k])}
<1>1. n \in Nat /\ 1..n \subseteq Messages /\ DOMAIN db[s] = 1..n
  BY WatchAssumption DEF Count, Messages
<1>2. r[0] = <<>> /\ \A k \in 1..n : r[k] = r[k - 1] \o HistoryOf(k, db[s][k])
  BY LoadedTurns
<1> HIDE DEF r
<1>3. 0 \in T
  <2>1. Good(0, <<>>)
    BY DEF Keyed, UserText, Range
  <2> HIDE DEF Good
  <2> QED
    BY <1>1, <1>2, <2>1
<1>4. ASSUME NEW k \in 1..n, k - 1 \in T PROVE k \in T
  <2> DEFINE b == r[k - 1]
             m == db[s][k]
             c == b \o HistoryOf(k, m)
  <2>1. Good(k - 1, b)
    BY <1>4
  <2>2. k \in Messages /\ Sane(m)
    BY <1>1
  <2>3. r[k] = c
    BY <1>2
  <2> HIDE DEF b
  <2>4. \A e \in Range(b) : e.id # k
    BY <1>1, <2>1
  <2>5. /\ c \in Seq(Events) /\ After(b, c, k, m)
        /\ Shown(m) /\ m.ask # "asked" => \E e \in Range(c) : Of(e, k, m) /\ e.kind = "text"
    <3> HIDE DEF m
    <3> QED
      BY <2>1, <2>2, <2>4, HistoryAfter
  <2> HIDE DEF c
  <2>6. Keyed(c) /\ UserText(c)
    BY <2>1, <2>5 DEF After
  <2>7. \A e \in Range(c) : e.id \in 1..k
    <3>1. \A e \in Range(c) : e \in Range(b) \/ e.id = k
      BY <2>5 DEF After, Of
    <3> QED
      BY <1>1, <2>1, <3>1
  <2>8. ASSUME NEW j \in 1..k PROVE Tells(c, j)
    <3>1. CASE j = k
      BY <2>5, <3>1 DEF Shown
    <3>2. CASE j # k
      <4>1. Tells(b, j) /\ j \in 1..k - 1
        BY <1>1, <2>1, <3>2
      <4>2. \A e \in Range(b) : e \in Range(c)
        BY <2>4, <2>5 DEF After
      <4> QED
        BY <4>1, <4>2
    <3> QED
      BY <3>1, <3>2
  <2>9. Good(k, c)
    <3> HIDE DEF Tells
    <3> QED
      BY <2>5, <2>6, <2>7, <2>8
  <2> HIDE DEF Good
  <2> QED
    BY <1>1, <2>3, <2>9
<1>5. Good(n, r[n])
  <2> HIDE DEF Good
  <2>1. 0..n \subseteq T
    <3> HIDE DEF T, n
    <3> QED
      BY <1>1, <1>3, <1>4, Reaches
  <2> QED
    BY <1>1, <2>1
<1> QED
  BY <1>5 DEF OpenCodeDBHistory, r

-----------------------------------------------------------------------------
(* The messages a poll reads.                                                *)

Rising(q) == \A x, y \in DOMAIN q : x < y => q[x] < q[y]

(* Leaving out those that cannot be read is the loop it is written as.       *)
LEMMA ReadingTurns ==
  ASSUME NEW ids \in Seq(Messages), NEW bad
  PROVE  /\ Reading(ids, bad)[0] = <<>>
         /\ \A k \in 1..Len(ids) :
               Reading(ids, bad)[k] = IF ids[k] \in bad THEN Reading(ids, bad)[k - 1]
                                      ELSE Append(Reading(ids, bad)[k - 1], ids[k])
<1> DEFINE n == Len(ids)
           r == Reading(ids, bad)
           Next1(q, k) == IF ids[k] \in bad THEN q ELSE Append(q, ids[k])
           G == [k \in 1..n |-> [q \in Seq(Messages) |-> Next1(q, k)]]
           Is(f) == f = [k \in 0..n |-> IF k = 0 THEN <<>> ELSE Next1(f[k - 1], k)]
<1>1. n \in Nat /\ \A k \in 1..n : ids[k] \in Messages
  OBVIOUS
<1>2. <<>> \in Seq(Messages)
  OBVIOUS
<1>3. G \in [1..n -> [Seq(Messages) -> Seq(Messages)]]
  BY <1>1
<1>4. PICK f : IsLoop(f, n, Seq(Messages), <<>>, G)
  <2> HIDE DEF G, n, Is, Next1
  <2> QED
    BY <1>1, <1>2, <1>3, LoopExists
<1>5. Is(f)
  <2>1. ASSUME NEW k \in 1..n PROVE f[k] = Next1(f[k - 1], k)
    <3>1. f[k - 1] \in Seq(Messages)
      <4>1. k - 1 \in 0..n
        BY <1>1
      <4> QED
        BY <1>4, <4>1 DEF IsLoop
    <3> HIDE DEF Next1
    <3> QED
      BY <1>4, <3>1 DEF IsLoop
  <2> HIDE DEF Next1
  <2> QED
    BY <1>1, <1>4, <2>1 DEF IsLoop
<1>6. r = CHOOSE g : Is(g)
  BY DEF Reading
<1>7. Is(r)
  <2> HIDE DEF Is, r
  <2> QED
    BY <1>5, <1>6
<1> HIDE DEF r, Next1
<1>8. r[0] = <<>> /\ \A k \in 1..n : r[k] = Next1(r[k - 1], k)
  BY <1>1, <1>7
<1> QED
  BY <1>8 DEF r, Next1

(* What is left are the others, in their order.                              *)
LEMMA ReadableHolds ==
  ASSUME NEW ids \in Seq(Messages), Rising(ids), NEW bad
  PROVE  /\ Readable(ids, bad) \in Seq(Messages) /\ Rising(Readable(ids, bad))
         /\ Range(Readable(ids, bad)) = Range(ids) \ bad
<1> DEFINE n == Len(ids)
           r == Reading(ids, bad)
           Good(k, q) == /\ q \in Seq(Messages) /\ Rising(q)
                         /\ \A i \in Range(q) : i \notin bad /\ \E j \in 1..k : i = ids[j]
                         /\ \A j \in 1..k : ids[j] \notin bad => ids[j] \in Range(q)
           T == {k \in 0..n : Good(k, r[k])}
<1>1. n \in Nat /\ DOMAIN ids = 1..n /\ \A k \in 1..n : ids[k] \in Messages
  OBVIOUS
<1>2. /\ r[0] = <<>>
      /\ \A k \in 1..n : r[k] = IF ids[k] \in bad THEN r[k - 1] ELSE Append(r[k - 1], ids[k])
  BY ReadingTurns
<1> HIDE DEF r
<1>3. 0 \in T
  <2>1. Good(0, <<>>)
    BY DEF Rising, Range
  <2> HIDE DEF Good
  <2> QED
    BY <1>1, <1>2, <2>1
<1>4. ASSUME NEW k \in 1..n, k - 1 \in T PROVE k \in T
  <2> DEFINE q == r[k - 1]
             c == Append(q, ids[k])
  <2>1. Good(k - 1, q)
    BY <1>4
  <2>2. k \in Nat /\ ids[k] \in Messages /\ \A j \in 1..k : j \in 1..k - 1 \/ j = k
    BY <1>1
  <2>3. CASE ids[k] \in bad
    <3>1. r[k] = q
      BY <1>2, <2>3
    <3> HIDE DEF q
    <3>2. \A j \in 1..k : ids[j] \notin bad => ids[j] \in Range(q)
      BY <2>1, <2>2, <2>3
    <3>3. \A i \in Range(q) : i \notin bad /\ \E j \in 1..k : i = ids[j]
      BY <2>1, <2>2
    <3>4. Good(k, q)
      BY <2>1, <3>2, <3>3
    <3> HIDE DEF Good
    <3> QED
      BY <1>1, <3>1, <3>4
  <2>4. CASE ids[k] \notin bad
    <3>1. r[k] = c
      BY <1>2, <2>4
    <3> HIDE DEF q
    <3>2. /\ c \in Seq(Messages) /\ DOMAIN q = 1..Len(q) /\ DOMAIN c = 1..Len(q) + 1 /\ Len(q) \in Nat
          /\ c[Len(q) + 1] = ids[k] /\ \A x \in DOMAIN q : c[x] = q[x]
      BY <2>1, <2>2
    <3> HIDE DEF c
    <3>3. \A i \in Range(c) : i \in Range(q) \/ i = ids[k]
      <4>1. \A x \in DOMAIN c : x \in DOMAIN q \/ x = Len(q) + 1
        BY <3>2
      <4> QED
        BY <3>2, <4>1 DEF Range
    <3>4. \A i \in Range(q) : i \in Range(c)
      BY <3>2 DEF Range
    <3>5. ids[k] \in Range(c)
      <4>1. Len(q) + 1 \in DOMAIN c
        BY <3>2
      <4> QED
        BY <3>2, <4>1 DEF Range
    <3>6. \A x \in DOMAIN q : q[x] < ids[k]
      <4>1. ASSUME NEW x \in DOMAIN q PROVE q[x] < ids[k]
        <5>1. q[x] \in Range(q)
          BY DEF Range
        <5>2. PICK j \in 1..k - 1 : q[x] = ids[j]
          BY <2>1, <5>1
        <5>3. j \in 1..n /\ k \in 1..n /\ j < k
          BY <1>1
        <5> QED
          BY <1>1, <5>2, <5>3 DEF Rising
      <4> QED
        BY <4>1
    <3>7. Rising(c)
      <4> SUFFICES ASSUME NEW x \in DOMAIN c, NEW y \in DOMAIN c, x < y PROVE c[x] < c[y]
        BY DEF Rising
      <4>1. x \in DOMAIN q
        BY <3>2
      <4>2. CASE y \in DOMAIN q
        BY <2>1, <3>2, <4>1, <4>2 DEF Rising
      <4>3. CASE y \notin DOMAIN q
        <5>1. y = Len(q) + 1
          BY <3>2, <4>3
        <5> QED
          BY <3>2, <3>6, <4>1, <5>1
      <4> QED
        BY <4>2, <4>3
    <3>8. \A i \in Range(c) : i \notin bad /\ \E j \in 1..k : i = ids[j]
      BY <2>1, <2>2, <2>4, <3>3
    <3>9. \A j \in 1..k : ids[j] \notin bad => ids[j] \in Range(c)
      BY <2>1, <2>2, <3>4, <3>5
    <3>10. Good(k, c)
      BY <3>2, <3>7, <3>8, <3>9
    <3> HIDE DEF Good
    <3> QED
      BY <1>1, <3>1, <3>10
  <2> QED
    BY <2>3, <2>4
<1>5. Good(n, r[n])
  <2> HIDE DEF Good
  <2>1. 0..n \subseteq T
    <3> HIDE DEF T, n
    <3> QED
      BY <1>1, <1>3, <1>4, Reaches
  <2> QED
    BY <1>1, <2>1
<1>6. Readable(ids, bad) = r[n]
  BY DEF Readable, r
<1>7. Range(r[n]) = Range(ids) \ bad
  BY <1>1, <1>5 DEF Range
<1> QED
  BY <1>5, <1>6, <1>7

-----------------------------------------------------------------------------
(* The inductive invariant.                                                  *)

N      == Count(w.sess)
Msg(i) == db[w.sess][i]
Due    == Range(poll.ids)
Final  == poll.ids[Len(poll.ids)]
Quiet  == ~clearing /\ ~raced
\* i is not looked at any more.
Gone(i) == i <= base \/ <<w.sess, i>> \in missed

\* A message m that was read may have become d.
Grows(m, d) == m.role = d.role /\ (m.ask = "asked" => d.ask = "asked")

DbSane ==
    /\ \A s \in Sessions : \A i \in DOMAIN db[s] : Sane(db[s][i])
    /\ \A s \in Sessions : s > latest => db[s] = <<>>

\* What is remembered, read and recorded are messages of the session.
Within ==
    /\ w.last <= N /\ w.stream <= N /\ base <= N
    /\ \A e \in Range(buf) : e.id <= N
    /\ \A i \in Due : i <= N

PollShape ==
    /\ Rising(poll.ids)
    /\ poll.pc = "idle" => poll = Idle
    /\ poll.pc = "parts" => poll.msgs = <<>>
    /\ poll.pc = "emit" =>
          /\ poll.ids # <<>> /\ Len(poll.msgs) = Len(poll.ids)
          /\ \A k \in DOMAIN poll.ids : Sane(poll.msgs[k]) /\ Grows(poll.msgs[k], Msg(poll.ids[k]))

Sound == TypeOK /\ DbSane /\ Within /\ PollShape /\ Keyed(buf) /\ UserText(buf)

\* No clear and poll overlapped: after a clear nothing from before it is there or comes.
Clean ==
    ~raced =>
       /\ clearing => poll.pc = "idle" /\ \A e \in Range(buf) : e.id = None
       /\ ~clearing =>
             /\ \A e \in Range(buf) : e.id = None \/ e.id > base
             /\ w.last >= base /\ (w.stream # None => w.stream > base)
             /\ \A i \in Due : i > base

OwnText(i, t) == \E e \in Range(buf) : e.id = i /\ e.kind = "text" /\ e.text = t /\ e.role = Msg(i).role
Told(i, t) ==
    \/ OwnText(i, t)
    \/ Msg(i).role = "user" /\ \E e \in Range(buf) : e.id < i /\ e.role = "user" /\ e.text = t
Shows(i) ==
    /\ Msg(i).sub => HasSub(buf, i)
    /\ Msg(i).text > 0 /\ Msg(i).ask # "asked" => Told(i, Msg(i).text)

\* What a poll has yet to process comes after what is done, and nothing between is left out.
Ahead ==
    /\ w.last > base => w.last < N
    /\ poll.pc # "emit" /\ w.stream # None => w.stream > w.last
    /\ \A i \in Due : i > w.last /\ (w.stream # None => i >= w.stream)
    /\ w.stream # None => \A i \in w.last + 1 .. w.stream - 1 : Gone(i)
AllRead ==
    /\ poll.pc = "parts" =>
          /\ \A i \in w.last + 1 .. N : i \in Due \/ Gone(i) \/ \A j \in Due : j < i
          /\ ~dirty => \A i \in From(w) + 1 .. N : i \in Due
    /\ poll.pc = "emit" =>
          /\ \A i \in w.last + 1 .. Final : i \in Due \/ Gone(i)
          /\ ~dirty => Final = N
AsRead ==
    poll.pc = "emit" =>
       \A k \in DOMAIN poll.ids, i \in 1..N :
          /\ i = poll.ids[k] /\ ~Gone(i)
          /\ k < Len(poll.ids) \/ ~dirty \/ \E e \in Range(buf) : e.id > i
          => poll.msgs[k] = Msg(i)

\* What is done is shown, and so is what was read of the message that may still grow.
DoneShown ==
    /\ \A i \in w.subs : HasSub(buf, i)
    /\ \A i \in 1 .. w.last : ~Gone(i) => Shows(i)
    /\ \A i \in 1..N : i = w.stream /\ w.text > 0 /\ ~Gone(i) /\ Msg(i).ask # "asked" => Told(i, w.text)
\* A user's message that is read again after a later one is there already.
Reread ==
    \A e \in Range(buf) : \A i \in w.last + 1 .. e.id - 1 :
        ~Gone(i) /\ Msg(i).role = "user" /\ Msg(i).text > 0 => OwnText(i, Msg(i).text)
AllShown == poll.pc = "idle" /\ ~dirty => \A i \in 1..N : ~Gone(i) => Shows(i)

Faithful == Ahead /\ AllRead /\ AsRead /\ DoneShown /\ Reread /\ AllShown
Inv == Sound /\ Clean /\ (Quiet => Faithful)

-----------------------------------------------------------------------------
(* OpenCode writes.                                                          *)

\* What a part, a message or a session may change.
Writes ==
    /\ dirty' = TRUE /\ UNCHANGED <<w, poll, buf, status, clearing, base, raced>>
    /\ latest' \in Sessions /\ latest <= latest'
    /\ spent' \in [writes : Nat, clears : Nat, fails : Nat, sends : Nat, answers : Nat]
    /\ missed \subseteq missed' /\ missed' \subseteq Sessions \X Messages
    /\ db' \in [Sessions -> Seq(Message)]
    /\ \A s \in Sessions :
          /\ Len(db[s]) <= Len(db'[s]) /\ Len(db'[s]) <= MaxMessages
          /\ s > latest' => db'[s] = <<>>
          /\ \A i \in 1..Len(db'[s]) : Sane(db'[s][i])
          /\ \A i \in 1..Len(db[s]) :
                Grows(db[s][i], db'[s][i]) /\ (i < Len(db[s]) /\ <<s, i>> \notin missed' => db'[s][i] = db[s][i])

(* A part makes a message grow.                                              *)
LEMMA GrownSane ==
  ASSUME NEW m, Sane(m), NEW n \in Grown(m)
  PROVE  n \in Message /\ Sane(n) /\ Grows(m, n)
<1>1. /\ m = [role |-> m.role, text |-> m.text, sub |-> m.sub, ask |-> m.ask]
      /\ m.role \in {"user", "assistant"} /\ m.text \in 0..MaxText /\ m.sub \in BOOLEAN
      /\ m.ask \in {"no", "pending", "asked"} /\ (m.role = "user" => ~m.sub /\ m.ask = "no")
  BY DEF Sane, Message
<1>2. MaxText \in Nat
  BY WatchAssumption
<1>3. CASE m.text < MaxText /\ n = [m EXCEPT !.text = @ + 1]
  <2>1. n = [role |-> m.role, text |-> m.text + 1, sub |-> m.sub, ask |-> m.ask] /\ m.text + 1 \in 0..MaxText
    BY <1>1, <1>2, <1>3
  <2> QED
    BY <1>1, <2>1 DEF Sane, Message, Grows
<1>4. CASE m.role # "user" /\ n = [m EXCEPT !.sub = TRUE]
  <2>1. n = [role |-> m.role, text |-> m.text, sub |-> TRUE, ask |-> m.ask]
    BY <1>1, <1>4
  <2> QED
    BY <1>1, <1>4, <2>1 DEF Sane, Message, Grows
<1>5. CASE m.role # "user" /\ n = [m EXCEPT !.ask = IF @ = "no" THEN "pending" ELSE "asked"]
  <2> DEFINE a == IF m.ask = "no" THEN "pending" ELSE "asked"
  <2>1. a \in {"pending", "asked"} /\ (m.ask = "asked" => a = "asked")
    OBVIOUS
  <2>2. n = [role |-> m.role, text |-> m.text, sub |-> m.sub, ask |-> a]
    BY <1>1, <1>5
  <2> HIDE DEF a
  <2> QED
    BY <1>1, <1>5, <2>1, <2>2 DEF Sane, Message, Grows
<1> QED
  BY <1>3, <1>4, <1>5 DEF Grown

(* Every step of OpenCode is such a change.                                  *)
LEMMA OpenCodeWrites ==
  ASSUME Sound, OpenCode
  PROVE  Writes
<1>1. /\ db \in [Sessions -> Seq(Message)] /\ latest \in Sessions /\ missed \subseteq Sessions \X Messages
      /\ spent \in [writes : Nat, clears : Nat, fails : Nat, sends : Nat, answers : Nat] /\ \A s \in Sessions : Len(db[s]) <= MaxMessages
  BY DEF Sound, TypeOK, Count
<1>2. /\ \A s \in Sessions : \A i \in 1..Len(db[s]) : Sane(db[s][i])
      /\ \A s \in Sessions : s > latest => db[s] = <<>>
  BY <1>1 DEF Sound, DbSane
<1>3. /\ MaxMessages \in Nat /\ MaxSessions \in Nat /\ Sessions = 1..MaxSessions /\ Messages = 1..MaxMessages
      /\ MaxText \in Nat
  BY WatchAssumption DEF Sessions, Messages
<1>4. ASSUME Wrote PROVE spent' \in [writes : Nat, clears : Nat, fails : Nat, sends : Nat, answers : Nat]
  <2>1. spent' = [spent EXCEPT !["writes"] = @ + 1]
    BY <1>4 DEF Wrote, Spend
  <2>2. spent \in [writes : Nat, clears : Nat, fails : Nat, sends : Nat, answers : Nat]
    BY <1>1
  <2> QED
    BY <2>1, <2>2
<1>5. ASSUME NEW role \in {"user", "assistant"}, NewMessage(role) PROVE Writes
  <2>1. New(role) \in Message /\ Sane(New(role))
    BY <1>3 DEF New, Message, Sane
  <2>2. /\ db' = [db EXCEPT ![latest] = Append(db[latest], New(role))] /\ latest' = latest /\ missed' = missed
        /\ Wrote /\ Len(db[latest]) < MaxMessages
    BY <1>5 DEF NewMessage, Count
  <2> DEFINE nm == New(role)
             q == Append(db[latest], nm)
  <2> HIDE DEF nm
  <2>3. /\ q \in Seq(Message) /\ Len(q) = Len(db[latest]) + 1 /\ q[Len(q)] = nm
        /\ \A i \in 1..Len(db[latest]) : q[i] = db[latest][i]
    BY <1>1, <2>1 DEF nm
  <2>4. Sane(nm)
    BY <2>1 DEF nm
  <2>5. db' = [db EXCEPT ![latest] = q]
    BY <2>2 DEF nm
  <2> HIDE DEF q
  <2>6. db' \in [Sessions -> Seq(Message)] /\ db'[latest] = q /\ \A s \in Sessions : s # latest => db'[s] = db[s]
    BY <1>1, <2>3, <2>5
  <2>7. ASSUME NEW s \in Sessions
        PROVE  /\ Len(db[s]) <= Len(db'[s]) /\ Len(db'[s]) <= MaxMessages
               /\ s > latest' => db'[s] = <<>>
               /\ \A i \in 1..Len(db'[s]) : Sane(db'[s][i])
               /\ \A i \in 1..Len(db[s]) : Grows(db[s][i], db'[s][i]) /\ db'[s][i] = db[s][i]
    <3>1. CASE s = latest
      <4>1. Len(db[s]) \in Nat /\ Len(q) = Len(db[s]) + 1
        BY <1>1, <2>3, <3>1
      <4>2. \A i \in 1..Len(q) : i \in 1..Len(db[s]) \/ i = Len(q)
        BY <4>1
      <4>3. \A i \in 1..Len(q) : Sane(q[i])
        BY <1>2, <2>3, <2>4, <3>1, <4>2
      <4>4. Len(db[s]) <= Len(q) /\ Len(q) <= MaxMessages
        BY <1>3, <2>2, <3>1, <4>1
      <4>5. \A i \in 1..Len(db[s]) : Grows(db[s][i], q[i]) /\ q[i] = db[s][i]
        BY <2>3, <3>1 DEF Grows
      <4>6. db'[s] = q /\ ~(s > latest')
        BY <1>1, <1>3, <2>2, <2>6, <3>1
      <4> QED
        BY <4>3, <4>4, <4>5, <4>6
    <3>2. CASE s # latest
      BY <1>1, <1>2, <2>2, <2>6, <3>2 DEF Grows
    <3> QED
      BY <3>1, <3>2
  <2>8. /\ dirty' = TRUE /\ UNCHANGED <<w, poll, buf, status, clearing, base, raced>>
        /\ spent' \in [writes : Nat, clears : Nat, fails : Nat, sends : Nat, answers : Nat]
    BY <1>4, <2>2 DEF Wrote
  <2>9. latest' \in Sessions /\ latest <= latest' /\ missed \subseteq missed' /\ missed' \subseteq Sessions \X Messages
    BY <1>1, <1>3, <2>2
  <2> QED
    BY <2>6, <2>7, <2>8, <2>9 DEF Writes
<1>6. ASSUME NEW p \in Messages, NewPart(p) PROVE Writes
  <2>1. /\ p \in DOMAIN db[latest] /\ latest' = latest /\ Wrote
        /\ missed' = IF p < Count(latest) THEN missed \cup {<<latest, p>>} ELSE missed
    BY <1>6 DEF NewPart
  <2>2. PICK m \in Grown(db[latest][p]) : db' = [db EXCEPT ![latest][p] = m]
    BY <1>6 DEF NewPart
  <2>3. db[latest] \in Seq(Message) /\ p \in 1..Len(db[latest]) /\ Sane(db[latest][p])
    BY <1>1, <1>2, <2>1
  <2>4. m \in Message /\ Sane(m) /\ Grows(db[latest][p], m)
    BY <2>3, GrownSane
  <2> DEFINE q == [db[latest] EXCEPT ![p] = m]
  <2>5. /\ q \in Seq(Message) /\ Len(q) = Len(db[latest]) /\ q[p] = m
        /\ \A i \in 1..Len(db[latest]) : i # p => q[i] = db[latest][i]
    BY <2>3, <2>4
  <2>6. db' = [db EXCEPT ![latest] = q]
    BY <2>2
  <2> HIDE DEF q
  <2>7. db' \in [Sessions -> Seq(Message)] /\ db'[latest] = q /\ \A s \in Sessions : s # latest => db'[s] = db[s]
    BY <1>1, <2>5, <2>6
  <2>8. missed \subseteq missed' /\ missed' \subseteq Sessions \X Messages
    BY <1>1, <2>1
  <2>9. ASSUME NEW s \in Sessions
        PROVE  /\ Len(db[s]) <= Len(db'[s]) /\ Len(db'[s]) <= MaxMessages
               /\ s > latest' => db'[s] = <<>>
               /\ \A i \in 1..Len(db'[s]) : Sane(db'[s][i])
               /\ \A i \in 1..Len(db[s]) :
                  Grows(db[s][i], db'[s][i]) /\ (i < Len(db[s]) /\ <<s, i>> \notin missed' => db'[s][i] = db[s][i])
    <3>1. CASE s = latest
      <4>1. Len(db[s]) \in Nat /\ Len(q) = Len(db[s]) /\ Len(db[s]) <= MaxMessages
        BY <1>1, <2>5, <3>1
      <4>2. \A i \in 1..Len(q) : Sane(q[i]) /\ Grows(db[s][i], q[i])
        <5>1. ASSUME NEW i \in 1..Len(q), i # p PROVE Sane(q[i]) /\ Grows(db[s][i], q[i])
          BY <1>2, <2>5, <3>1, <5>1 DEF Grows
        <5> QED
          BY <2>4, <2>5, <3>1, <5>1
      <4>3. \A i \in 1..Len(q) : i < Len(q) /\ <<s, i>> \notin missed' => q[i] = db[s][i]
        <5>1. p < Len(db[s]) => <<s, p>> \in missed'
          BY <2>1, <3>1 DEF Count
        <5> QED
          BY <2>5, <3>1, <4>1, <5>1
      <4> QED
        BY <1>3, <2>1, <2>7, <3>1, <4>1, <4>2, <4>3
    <3>2. CASE s # latest
      BY <1>1, <1>2, <2>1, <2>7, <3>2 DEF Grows
    <3> QED
      BY <3>1, <3>2
  <2>10. /\ dirty' = TRUE /\ UNCHANGED <<w, poll, buf, status, clearing, base, raced>>
         /\ spent' \in [writes : Nat, clears : Nat, fails : Nat, sends : Nat, answers : Nat]
    BY <1>4, <2>1 DEF Wrote
  <2>11. latest' \in Sessions /\ latest <= latest'
    BY <1>1, <1>3, <2>1
  <2> QED
    BY <2>7, <2>8, <2>9, <2>10, <2>11 DEF Writes
<1>7. ASSUME NewSession PROVE Writes
  <2>1. latest' = latest + 1 /\ latest < MaxSessions /\ Wrote /\ db' = db /\ missed' = missed
    BY <1>7 DEF NewSession
  <2>2. latest' \in Sessions /\ latest <= latest'
    BY <1>1, <1>3, <2>1
  <2>3. ASSUME NEW s \in Sessions
        PROVE  /\ Len(db[s]) <= Len(db'[s]) /\ Len(db'[s]) <= MaxMessages
               /\ s > latest' => db'[s] = <<>>
               /\ \A i \in 1..Len(db'[s]) : Sane(db'[s][i])
               /\ \A i \in 1..Len(db[s]) : Grows(db[s][i], db'[s][i]) /\ db'[s][i] = db[s][i]
    BY <1>1, <1>2, <1>3, <2>1, <2>2 DEF Grows
  <2> QED
    BY <1>1, <1>4, <2>1, <2>2, <2>3 DEF Writes, Wrote
<1> QED
  BY <1>5, <1>6, <1>7 DEF OpenCode

(* The ranges the invariant gives.                                           *)
LEMMA Ranges ==
  ASSUME Sound
  PROVE  /\ MaxMessages \in Nat /\ Messages = 1..MaxMessages /\ Sessions = 1..MaxSessions /\ MaxSessions \in Nat
         /\ latest \in Sessions /\ w.sess \in Sessions /\ w.sess <= latest
         /\ db[w.sess] \in Seq(Message) /\ N \in Nat /\ N <= MaxMessages /\ DOMAIN db[w.sess] = 1..N
         /\ \A i \in 1..N : Sane(Msg(i)) /\ i \in Messages
         /\ w.last \in 0..N /\ w.stream \in 0..N /\ base \in 0..N
         /\ buf \in Seq(Events) /\ status \in Statuses
         /\ \A e \in Range(buf) : e \in Events /\ e.id \in 0..N
         /\ poll.ids \in Seq(Messages) /\ poll.msgs \in Seq(Message)
         /\ Len(poll.ids) \in Nat /\ DOMAIN poll.ids = 1..Len(poll.ids)
         /\ Due \subseteq 1..N /\ \A k \in 1..Len(poll.ids) : poll.ids[k] \in Due
<1>1. /\ MaxMessages \in Nat /\ Messages = 1..MaxMessages /\ Sessions = 1..MaxSessions /\ MaxSessions \in Nat
  BY WatchAssumption DEF Sessions, Messages
<1>2. TypeOK
  BY DEF Sound
<1>3. latest \in Sessions /\ w.sess \in Sessions /\ w.sess <= latest
  BY <1>1, <1>2 DEF TypeOK
<1>4. db[w.sess] \in Seq(Message) /\ N \in Nat /\ N <= MaxMessages /\ DOMAIN db[w.sess] = 1..N
  BY SMTT(30), <1>1, <1>2, <1>3 DEF TypeOK, N, Count
<1>5. \A i \in 1..N : Sane(Msg(i)) /\ i \in Messages
  BY <1>1, <1>3, <1>4 DEF Sound, DbSane, Msg
<1>6. w.last \in 0..N /\ w.stream \in 0..N /\ base \in 0..N
  <2>1. w.last \in Ids /\ w.stream \in Ids /\ base \in Ids
    BY <1>2 DEF TypeOK
  <2>2. w.last \in Nat /\ w.stream \in Nat /\ base \in Nat
    BY <1>1, <2>1 DEF Ids, None
  <2> QED
    BY <1>4, <2>2 DEF Sound, Within
<1>7. buf \in Seq(Events) /\ status \in Statuses
  BY <1>2 DEF TypeOK, Events, Statuses
<1>8. \A e \in Range(buf) : e \in Events
  BY <1>7 DEF Range
<1>9. \A e \in Range(buf) : e \in Events /\ e.id \in 0..N
  BY <1>1, <1>4, <1>8 DEF Events, Ids, None, Sound, Within
<1>10. poll.ids \in Seq(Messages) /\ poll.msgs \in Seq(Message)
  BY <1>2 DEF TypeOK
<1>11. Len(poll.ids) \in Nat /\ DOMAIN poll.ids = 1..Len(poll.ids)
  BY <1>10
<1>12. \A k \in 1..Len(poll.ids) : poll.ids[k] \in Due
  BY <1>11 DEF Due, Range
<1>13. Due \subseteq 1..N
  <2>1. Due \subseteq Messages
    BY <1>10, RangeOfSeq DEF Due
  <2> QED
    BY <1>1, <1>4, <2>1 DEF Sound, Within
<1> QED
  BY <1>1, <1>3, <1>4, <1>5, <1>6, <1>7, <1>9, <1>10, <1>11, <1>12, <1>13

(* What OpenCode writes leaves what the watcher holds as it is.              *)
LEMMA WritesSound ==
  ASSUME Sound, Writes
  PROVE  Sound'
<1>1. /\ w.sess \in Sessions /\ N \in Nat /\ \A i \in 1..N : Sane(Msg(i))
      /\ w.last \in 0..N /\ w.stream \in 0..N /\ base \in 0..N
      /\ Due \subseteq 1..N /\ DOMAIN poll.ids = 1..Len(poll.ids) /\ \A k \in 1..Len(poll.ids) : poll.ids[k] \in Due
      /\ latest \in Sessions /\ Sessions = 1..MaxSessions /\ MaxSessions \in Nat
      /\ \A e \in Range(buf) : e.id \in 0..N
  BY Ranges
<1>2. w' = w /\ poll' = poll /\ buf' = buf /\ status' = status /\ clearing' = clearing /\ base' = base /\ raced' = raced
  BY DEF Writes
<1>3. N' = Len(db'[w.sess]) /\ N' \in Nat /\ N <= N'
  <2>1. db'[w.sess] \in Seq(Message)
    BY <1>1 DEF Writes
  <2>2. N' = Len(db'[w.sess]) /\ N = Len(db[w.sess])
    BY <1>2 DEF N, Count
  <2>3. Len(db[w.sess]) <= Len(db'[w.sess])
    BY <1>1 DEF Writes
  <2> QED
    BY <2>1, <2>2, <2>3
<1>4. \A i \in 1..N : Msg(i)' = db'[w.sess][i] /\ Grows(Msg(i), db'[w.sess][i])
  BY <1>1, <1>2 DEF Writes, Msg, N, Count
<1>5. TypeOK'
  <2>1. w \in [sess : 1..latest, last : Ids, stream : Ids, text : 0..MaxText, tool : BOOLEAN,
              same : 0..Patience, subs : SUBSET Messages, due : BOOLEAN]
    BY DEF Sound, TypeOK
  <2>2. 1..latest \subseteq 1..latest'
    BY <1>1 DEF Writes
  <2>3. w' \in [sess : 1..latest', last : Ids, stream : Ids, text : 0..MaxText, tool : BOOLEAN,
              same : 0..Patience, subs : SUBSET Messages, due : BOOLEAN]
    BY <1>2, <2>1, <2>2
  <2>4. \A s \in Sessions : Count(s)' <= MaxMessages
    BY DEF Writes, Count
  <2>5. /\ db' \in [Sessions -> Seq(Message)] /\ latest' \in Sessions /\ dirty' = TRUE /\ missed' \subseteq Sessions \X Messages
        /\ spent' \in [writes : Nat, clears : Nat, fails : Nat, sends : Nat, answers : Nat]
    BY DEF Writes
  <2>6. /\ poll' \in [pc : {"idle", "parts", "emit"}, ids : Seq(Messages), msgs : Seq(Message)]
        /\ buf' \in Seq([id : Ids, kind : {"sub", "text", "ask"}, role : {"user", "assistant"}, text : 0..MaxText])
        /\ status' \in {"working", "idle"} /\ {clearing', raced'} \subseteq BOOLEAN
        /\ base' \in Ids
    BY <1>2 DEF Sound, TypeOK
  <2> QED
    BY <2>3, <2>4, <2>5, <2>6 DEF TypeOK
<1>6. DbSane'
  <2>1. \A s \in Sessions : db'[s] \in Seq(Message)
    BY DEF Writes
  <2>2. \A s \in Sessions : DOMAIN db'[s] = 1..Len(db'[s])
    BY <2>1
  <2> QED
    BY <2>2 DEF DbSane, Writes
<1>7. Within'
  <2>1. Due' = Due
    BY <1>2 DEF Due
  <2>2. \A i \in 0..N : i <= N'
    BY <1>1, <1>3
  <2> QED
    BY <1>1, <1>2, <2>1, <2>2 DEF Within
<1>8. PollShape'
  <2>1. ASSUME poll.pc = "emit", NEW k \in DOMAIN poll.ids
        PROVE  Sane(poll.msgs[k]) /\ Grows(poll.msgs[k], Msg(poll.ids[k])')
    <3>1. poll.ids[k] \in 1..N
      BY <1>1
    <3>2. Sane(poll.msgs[k]) /\ Grows(poll.msgs[k], Msg(poll.ids[k]))
      BY <2>1 DEF Sound, PollShape
    <3> QED
      BY <1>2, <1>4, <3>1, <3>2 DEF Grows, Msg
  <2> QED
    BY <1>2, <2>1 DEF Sound, PollShape, Msg
<1>9. Keyed(buf') /\ UserText(buf')
  BY <1>2 DEF Sound
<1> QED
  BY <1>5, <1>6, <1>7, <1>8, <1>9 DEF Sound

(* A quiet watcher still shows what it has read, whatever OpenCode writes next. *)
LEMMA WritesFaithful ==
  ASSUME Inv, Writes, Quiet
  PROVE  Faithful'
<1>0. Sound /\ Faithful
  BY DEF Inv
<1>1. /\ w.sess \in Sessions /\ N \in Nat /\ \A i \in 1..N : Sane(Msg(i))
      /\ w.last \in 0..N /\ w.stream \in 0..N /\ base \in 0..N
      /\ Due \subseteq 1..N /\ DOMAIN poll.ids = 1..Len(poll.ids) /\ \A k \in 1..Len(poll.ids) : poll.ids[k] \in Due
      /\ Len(poll.ids) \in Nat
      /\ \A e \in Range(buf) : e.id \in 0..N
  BY <1>0, Ranges
<1>2. w' = w /\ poll' = poll /\ buf' = buf /\ status' = status /\ clearing' = clearing /\ base' = base /\ raced' = raced
      /\ dirty' = TRUE
  BY DEF Writes
<1>3. N' = Len(db'[w.sess]) /\ N' \in Nat /\ N <= N'
  <2>1. db'[w.sess] \in Seq(Message)
    BY <1>1 DEF Writes
  <2>2. N' = Len(db'[w.sess]) /\ N = Len(db[w.sess])
    BY <1>2 DEF N, Count
  <2>3. Len(db[w.sess]) <= Len(db'[w.sess])
    BY <1>1 DEF Writes
  <2> QED
    BY <2>1, <2>2, <2>3
<1>4. \A i \in 1..N : Msg(i)' = db'[w.sess][i] /\ Grows(Msg(i), Msg(i)')
  BY <1>1, <1>2 DEF Writes, Msg, N, Count
<1>5. \A i : Gone(i) => Gone(i)'
  BY <1>2 DEF Gone, Writes
<1>6. \A i \in 1..N : i < N /\ ~Gone(i)' => Msg(i)' = Msg(i)
  BY SMTT(30), <1>1, <1>2 DEF Writes, Msg, N, Count, Gone
<1>7. ASSUME NEW i \in 1..N, NEW t PROVE (OwnText(i, t) => OwnText(i, t)') /\ (Told(i, t) => Told(i, t)')
  <2>1. Msg(i)'.role = Msg(i).role
    BY <1>4 DEF Grows
  <2> QED
    BY <1>2, <2>1 DEF OwnText, Told
<1>8. Ahead'
  <2>1. Due' = Due
    BY <1>2 DEF Due
  <2> QED
    BY <1>0, <1>1, <1>2, <1>3, <1>5, <2>1 DEF Faithful, Ahead
<1>9. AllRead'
  <2>1. Due' = Due /\ Final' = Final
    BY <1>2 DEF Due, Final
  <2>2. ASSUME poll.pc = "parts", NEW i \in w.last + 1 .. N' PROVE i \in Due \/ Gone(i)' \/ \A j \in Due : j < i
    <3>1. CASE i <= N
      <4>1. i \in w.last + 1 .. N
        BY <1>1, <2>2, <3>1
      <4>2. i \in Due \/ Gone(i) \/ \A j \in Due : j < i
        BY <1>0, <2>2, <4>1 DEF Faithful, AllRead
      <4> QED
        BY <1>5, <4>2
    <3>2. CASE i > N
      <4>1. i \in Int
        BY <1>1, <1>3, <2>2
      <4>2. ASSUME NEW j \in Due PROVE j < i
        <5>1. j \in 1..N
          BY <1>1
        <5> QED
          BY <1>1, <3>2, <4>1, <5>1
      <4> QED
        BY <4>2
    <3>3. i <= N \/ i > N
      BY <1>1, <1>3
    <3> QED
      BY <3>1, <3>2, <3>3
  <2> QED
    BY <1>0, <1>2, <1>5, <2>1, <2>2 DEF Faithful, AllRead
<1>10. AsRead'
  <2>1. ASSUME poll.pc = "emit", NEW k \in 1..Len(poll.ids), NEW i \in 1..N', i = poll.ids[k], ~Gone(i)',
               k < Len(poll.ids) \/ \E e \in Range(buf) : e.id > i
        PROVE  poll.msgs[k] = Msg(i)'
    <3>1. i \in 1..N /\ ~Gone(i)
      BY <1>1, <1>5, <2>1
    <3>2. poll.msgs[k] = Msg(i)
      BY <1>0, <1>1, <2>1, <3>1 DEF Faithful, AsRead
    <3>3. CASE k < Len(poll.ids)
      <4>0. Len(poll.ids) \in 1..Len(poll.ids)
        BY <1>1, <2>1
      <4>1. poll.ids[Len(poll.ids)] \in 1..N
        BY <1>1, <4>0
      <4>2. i < poll.ids[Len(poll.ids)]
        <5>1. Rising(poll.ids)
          BY <1>0 DEF Sound, PollShape
        <5>2. k \in DOMAIN poll.ids /\ Len(poll.ids) \in DOMAIN poll.ids
          BY <1>1, <4>0
        <5> QED
          BY <2>1, <3>3, <5>1, <5>2 DEF Rising
      <4>3. i < N
        BY <1>1, <3>1, <4>1, <4>2
      <4> QED
        BY <1>6, <2>1, <3>1, <3>2, <4>3
    <3>4. CASE \E e \in Range(buf) : e.id > i
      <4>1. i < N
        BY <1>1, <3>1, <3>4
      <4> QED
        BY <1>6, <2>1, <3>1, <3>2, <4>1
    <3> QED
      BY <2>1, <3>3, <3>4
  <2> QED
    BY <1>1, <1>2, <2>1 DEF AsRead
<1>11. DoneShown'
  <2>1. \A i \in w'.subs : HasSub(buf, i)'
    BY <1>0, <1>2 DEF Faithful, DoneShown, HasSub
  <2>2. ASSUME NEW i \in 1..w.last, ~Gone(i)' PROVE Shows(i)'
    <3>1. ~Gone(i) /\ i \in 1..N /\ i > base
      BY <1>1, <1>5, <2>2 DEF Gone
    <3>2. i < N
      BY <1>0, <1>1, <3>1 DEF Faithful, Ahead
    <3>3. Msg(i)' = Msg(i) /\ Shows(i)
      BY <1>0, <1>1, <1>6, <2>2, <3>1, <3>2 DEF Faithful, DoneShown
    <3> QED
      BY <1>2, <1>7, <3>1, <3>3 DEF Shows, HasSub
  <2>3. ASSUME NEW i \in 1..N', i = w.stream, w.text > 0, ~Gone(i)', Msg(i)'.ask # "asked"
        PROVE  Told(i, w.text)'
    <3>1. i \in 1..N /\ ~Gone(i)
      BY <1>1, <1>5, <2>3
    <3>2. Msg(i).ask # "asked"
      BY <1>4, <2>3, <3>1 DEF Grows
    <3>3. Told(i, w.text)
      BY <1>0, <2>3, <3>1, <3>2 DEF Faithful, DoneShown
    <3> QED
      BY <1>2, <1>7, <3>1, <3>3
  <2> QED
    BY <1>2, <2>1, <2>2, <2>3 DEF DoneShown
<1>12. Reread'
  <2> SUFFICES ASSUME NEW e \in Range(buf), NEW i \in w.last + 1 .. e.id - 1, ~Gone(i)', Msg(i)'.role = "user",
                      Msg(i)'.text > 0
               PROVE  OwnText(i, Msg(i).text)'
    BY <1>2 DEF Reread
  <2>1. i \in 1..N /\ i < N /\ ~Gone(i)
    BY <1>1, <1>5
  <2>2. Msg(i)' = Msg(i)
    BY <1>6, <2>1
  <2>3. OwnText(i, Msg(i).text)
    BY <1>0, <2>1, <2>2 DEF Faithful, Reread
  <2> QED
    BY <1>7, <2>1, <2>2, <2>3
<1>13. AllShown'
  BY <1>2 DEF AllShown
<1> QED
  BY <1>8, <1>9, <1>10, <1>11, <1>12, <1>13 DEF Faithful

(* So what OpenCode writes keeps the invariant.                              *)
LEMMA WritesInv ==
  ASSUME Inv, Writes
  PROVE  Inv'
<1>1. Sound'
  BY WritesSound DEF Inv
<1>2. Clean'
  BY DEF Inv, Clean, Writes, Due
<1>3. Quiet' => Faithful'
  BY WritesFaithful DEF Quiet, Writes
<1> QED
  BY <1>1, <1>2, <1>3 DEF Inv

-----------------------------------------------------------------------------
(* conversation.clear.                                                       *)

(* The buffer is emptied; a poll under way is noted.                         *)
LEMMA ClearBufferInv ==
  ASSUME Inv, ClearBuffer
  PROVE  Inv'
<1>0. Sound
  BY DEF Inv
<1>1. /\ clearing' = TRUE /\ buf' = <<>> /\ status' = "idle" /\ raced' = (raced \/ poll.pc # "idle")
      /\ db' = db /\ latest' = latest /\ w' = w /\ poll' = poll /\ base' = base /\ missed' = missed /\ dirty' = dirty
  BY DEF ClearBuffer
<1>2. spent' \in [writes : Nat, clears : Nat, fails : Nat, sends : Nat, answers : Nat]
  <2>1. spent \in [writes : Nat, clears : Nat, fails : Nat, sends : Nat, answers : Nat]
    BY <1>0 DEF Sound, TypeOK
  <2> QED
    BY <2>1 DEF ClearBuffer, Spend
<1>3. raced' \in BOOLEAN
  BY <1>1
<1>4. TypeOK'
  <2>1. buf' \in Seq([id : Ids, kind : {"sub", "text", "ask"}, role : {"user", "assistant"}, text : 0..MaxText])
    BY <1>1
  <2> QED
    BY <1>0, <1>1, <1>2, <1>3, <2>1 DEF Sound, TypeOK, Count
<1>5. Within'
  BY <1>0, <1>1 DEF Sound, Within, N, Count, Due, Range
<1>6. PollShape'
  BY <1>0, <1>1 DEF Sound, PollShape, Msg
<1>7. Keyed(buf)' /\ UserText(buf)'
  BY <1>1 DEF Keyed, UserText, Range
<1>8. DbSane'
  BY <1>0, <1>1 DEF Sound, DbSane
<1>9. Clean'
  <2>1. Range(<<>>) = {}
    BY DEF Range
  <2>2. \A e \in Range(buf') : e.id = None
    BY <1>1, <2>1
  <2> QED
    BY <1>1, <2>2 DEF Clean
<1>10. ~Quiet'
  BY <1>1 DEF Quiet
<1> QED
  BY <1>4, <1>5, <1>6, <1>7, <1>8, <1>9, <1>10 DEF Inv, Sound

(* The watcher starts over after the last message.                           *)
LEMMA ResetOffsetInv ==
  ASSUME Inv, ResetOffset
  PROVE  Inv'
<1>0. Sound
  BY DEF Inv
<1>1. /\ clearing /\ clearing' = FALSE /\ base' = N /\ raced' = (raced \/ poll.pc # "idle")
      /\ db' = db /\ latest' = latest /\ poll' = poll /\ buf' = buf /\ status' = status /\ missed' = missed
      /\ dirty' = dirty /\ spent' = spent
  BY DEF ResetOffset, N
<1>2. /\ w.sess \in Sessions /\ N \in Nat /\ N <= MaxMessages /\ Messages = 1..MaxMessages
      /\ w.last \in 0..N /\ Due \subseteq 1..N
  BY <1>0, Ranges
<1>3. w \in [sess : 1..latest, last : Ids, stream : Ids, text : 0..MaxText, tool : BOOLEAN,
              same : 0..Patience, subs : SUBSET Messages, due : BOOLEAN]
  BY <1>0 DEF Sound, TypeOK
<1>4. w' = [w EXCEPT !.stream = None, !.text = 0, !.tool = FALSE, !.subs = {}, !.last = N]
  <2> DEFINE u == [w EXCEPT !.stream = None, !.text = 0, !.tool = FALSE]
  <2>1. w' = [u EXCEPT !.subs = {}, !.last = IF N = 0 THEN w.last ELSE N]
    BY DEF ResetOffset, Unstreamed, N
  <2>2. (IF N = 0 THEN w.last ELSE N) = N
    BY <1>2
  <2> QED
    BY <2>1, <2>2
<1>5. /\ w'.sess = w.sess /\ w'.stream = None /\ w'.last = N /\ w'.subs = {} /\ w'.text = 0
  BY <1>3, <1>4
<1>6. N \in Ids /\ None \in Ids /\ 0 \in 0..MaxText
  BY <1>2, WatchAssumption DEF Ids, None
<1>7. w' \in [sess : 1..latest, last : Ids, stream : Ids, text : 0..MaxText, tool : BOOLEAN,
              same : 0..Patience, subs : SUBSET Messages, due : BOOLEAN]
  BY <1>3, <1>4, <1>6
<1>8. TypeOK'
  <2>1. raced' \in BOOLEAN /\ base' \in Ids /\ clearing' \in BOOLEAN
    BY <1>1, <1>6
  <2> QED
    BY <1>0, <1>1, <1>7, <2>1 DEF Sound, TypeOK, Count
<1>9. N' = N /\ \A i : Msg(i)' = Msg(i)
  BY <1>1, <1>5 DEF N, Msg, Count
<1>10. Within'
  <2>1. Due' = Due /\ None <= N /\ N <= N
    BY <1>1, <1>2 DEF Due, None
  <2> QED
    BY <1>0, <1>1, <1>5, <1>9, <2>1 DEF Sound, Within
<1>11. PollShape'
  BY <1>0, <1>1, <1>9 DEF Sound, PollShape
<1>12. DbSane'
  BY <1>0, <1>1 DEF Sound, DbSane
<1>13. Sound'
  BY <1>0, <1>1, <1>8, <1>10, <1>11, <1>12 DEF Sound
<1>14. ASSUME ~raced' PROVE (\A e \in Range(buf') : e.id = None) /\ poll' = Idle /\ ~raced
  BY <1>0, <1>1, <1>14 DEF Inv, Clean, Sound, PollShape
<1>15. ASSUME ~raced' PROVE (\A e \in Range(buf') : e.id = None) /\ Due' = {} /\ poll'.pc = "idle"
  <2>1. poll'.ids = <<>> /\ poll'.pc = "idle"
    BY <1>14, <1>15 DEF Idle
  <2>2. Range(<<>>) = {}
    BY DEF Range
  <2> QED
    BY <1>14, <1>15, <2>1, <2>2 DEF Due
<1>16. Clean'
  BY <1>1, <1>2, <1>5, <1>15 DEF Clean
<1>17. \A i \in 1..N : Gone(i)'
  BY <1>1, <1>2 DEF Gone
<1>18. ASSUME Quiet' PROVE Faithful'
  <2>1. (\A e \in Range(buf') : e.id = None) /\ Due' = {} /\ poll'.pc = "idle"
    BY <1>15, <1>18 DEF Quiet
  <2>2. Ahead'
    BY <1>1, <1>2, <1>5, <2>1 DEF Ahead
  <2>3. AllRead' /\ AsRead'
    BY <2>1 DEF AllRead, AsRead
  <2>4. DoneShown'
    BY <1>2, <1>5, <1>9, <1>17 DEF DoneShown
  <2>5. Reread'
    <3>1. \A e \in Range(buf') : w'.last + 1 .. e.id - 1 = {}
      BY <1>2, <1>5, <2>1 DEF None
    <3> QED
      BY <3>1 DEF Reread
  <2>6. AllShown'
    BY <1>9, <1>17 DEF AllShown
  <2> QED
    BY <2>2, <2>3, <2>4, <2>5, <2>6 DEF Faithful
<1> QED
  BY <1>13, <1>16, <1>18 DEF Inv

-----------------------------------------------------------------------------
(* conversation.send, and the answer of `opencode run`.                      *)

(* What they record is of no message of OpenCode's, and hides none.          *)
LEMMA RecordInv ==
  ASSUME Inv, NEW role \in {"user", "assistant"}, NEW t \in 1..MaxText, RecordConversationEvent(role, t),
         spent' \in [writes : Nat, clears : Nat, fails : Nat, sends : Nat, answers : Nat]
  PROVE  Inv'
<1>0. Sound
  BY DEF Inv
<1> DEFINE e == [Event(None, "text", New(role)) EXCEPT !.text = t]
<1>1. /\ buf' = Append(buf, e) /\ db' = db /\ latest' = latest /\ w' = w /\ poll' = poll /\ status' = status
      /\ clearing' = clearing /\ base' = base /\ missed' = missed /\ raced' = raced /\ dirty' = dirty
  BY DEF RecordConversationEvent
<1>2. e = [id |-> None, kind |-> "text", role |-> role, text |-> t]
  BY DEF Event, New
<1> HIDE DEF e
<1>3. buf \in Seq(Events) /\ N \in Nat /\ w.last \in 0..N
  BY <1>0, Ranges
<1>4. e \in Events /\ e.id = None /\ e.kind = "text"
  BY <1>2, WatchAssumption DEF Events, Ids
<1> DEFINE m == [role |-> role, text |-> t]
<1>5. Of(e, None, m)
  BY <1>2 DEF Of
<1> HIDE DEF m
<1>6. buf' \in Seq(Events) /\ After(buf, buf', None, m)
  BY <1>1, <1>3, <1>4, <1>5, AppendAfter
<1>7. (\A f \in Range(buf') : f \in Range(buf) \/ f.id = None) /\ Range(buf) \subseteq Range(buf')
  <2>1. \A f \in Range(buf') : f \in Range(buf) \/ f.id = None
    BY <1>6 DEF After, Of
  <2>2. DOMAIN buf \subseteq DOMAIN buf' /\ \A x \in DOMAIN buf : buf'[x] = buf[x]
    BY <1>1, <1>3, <1>4
  <2> QED
    BY <2>1, <2>2 DEF Range
<1>8. N' = N /\ (\A i : Msg(i)' = Msg(i)) /\ (\A i : Gone(i)' = Gone(i)) /\ Due' = Due /\ Final' = Final
      /\ From(w)' = From(w) /\ Quiet' = Quiet
  BY <1>1 DEF N, Msg, Gone, Count, Due, Final, From, Quiet
<1>9. Sound'
  <2>1. TypeOK'
    BY <1>0, <1>1, <1>6 DEF Sound, TypeOK, Count, Events
  <2>2. Within'
    BY <1>0, <1>1, <1>3, <1>7, <1>8 DEF Sound, Within, None
  <2>3. Keyed(buf)' /\ UserText(buf)'
    BY <1>0, <1>6 DEF Sound, After, Keyed, UserText
  <2>4. DbSane' /\ PollShape'
    BY <1>0, <1>1, <1>8 DEF Sound, DbSane, PollShape
  <2> QED
    BY <2>1, <2>2, <2>3, <2>4 DEF Sound
<1>10. Clean'
  BY <1>1, <1>7, <1>8 DEF Inv, Clean
<1>11. ASSUME Quiet PROVE Faithful'
  <2>1. Faithful
    BY <1>11 DEF Inv
  <2>2. \A i, x : OwnText(i, x) => OwnText(i, x)'
    BY <1>7, <1>8 DEF OwnText
  <2>3. \A i, x : Told(i, x) => Told(i, x)'
    BY <1>7, <1>8, <2>2 DEF Told
  <2>4. \A i : HasSub(buf, i) => HasSub(buf, i)'
    BY <1>7 DEF HasSub
  <2>5. \A i : Shows(i) => Shows(i)'
    BY <1>8, <2>3, <2>4 DEF Shows
  <2>6. Ahead' /\ AllRead'
    BY <1>1, <1>8, <2>1 DEF Faithful, Ahead, AllRead
  <2>7. AsRead'
    <3>1. \A i \in 1..N : \A f \in Range(buf') : f.id > i => f \in Range(buf)
      BY <1>3, <1>7 DEF None
    <3> QED
      BY <1>1, <1>8, <2>1, <3>1 DEF Faithful, AsRead
  <2>8. DoneShown'
    BY <1>1, <1>8, <2>1, <2>3, <2>4, <2>5 DEF Faithful, DoneShown
  <2>9. Reread'
    <3> SUFFICES ASSUME NEW f \in Range(buf'), NEW i \in w.last + 1 .. f.id - 1, ~Gone(i),
                        Msg(i).role = "user", Msg(i).text > 0
                 PROVE  OwnText(i, Msg(i).text)'
      BY <1>1, <1>8 DEF Reread
    <3>1. f \in Range(buf)
      BY <1>3, <1>7 DEF None
    <3> QED
      BY <1>8, <2>1, <2>2, <3>1 DEF Faithful, Reread
  <2>10. AllShown'
    BY <1>1, <1>8, <2>1, <2>5 DEF Faithful, AllShown
  <2> QED
    BY <2>6, <2>7, <2>8, <2>9, <2>10 DEF Faithful
<1> QED
  BY <1>8, <1>9, <1>10, <1>11 DEF Inv

(* A message sent, or an answer resumed, is recorded so.                     *)
LEMMA SentInv ==
  ASSUME Inv, Sent
  PROVE  Inv'
<1>1. Answer \/ \E t \in 1..MaxText : Send(t)
  BY DEF Sent
<1>2. spent \in [writes : Nat, clears : Nat, fails : Nat, sends : Nat, answers : Nat]
  BY DEF Inv, Sound, TypeOK
<1>3. ASSUME NEW t \in 1..MaxText, Send(t) PROVE Inv'
  <2>1. spent' = [spent EXCEPT !["sends"] = @ + 1] /\ RecordConversationEvent("user", t)
    BY <1>3 DEF Send, Spend
  <2>2. spent' \in [writes : Nat, clears : Nat, fails : Nat, sends : Nat, answers : Nat]
    BY <1>2, <2>1
  <2> QED
    BY <2>1, <2>2, RecordInv
<1>4. CASE Answer
  <2>0. 1 \in 1..MaxText
    BY WatchAssumption
  <2>1. spent' = [spent EXCEPT !["answers"] = @ + 1] /\ RecordConversationEvent("assistant", 1)
    BY <1>4 DEF Answer, Spend
  <2>2. spent' \in [writes : Nat, clears : Nat, fails : Nat, sends : Nat, answers : Nat]
    BY <1>2, <2>1
  <2> QED
    BY <2>0, <2>1, <2>2, RecordInv
<1> QED
  BY <1>1, <1>3, <1>4

-----------------------------------------------------------------------------
(* The poll begins.                                                          *)

(* The ids from one message to the last.                                     *)
LEMMA BeginIds ==
  ASSUME NEW n \in Nat, n <= MaxMessages, NEW from \in 0..n, NEW ids, ids = [i \in 1..(n - from) |-> from + i]
  PROVE  ids \in Seq(Messages) /\ Rising(ids) /\ Range(ids) = from + 1 .. n
<1>1. MaxMessages \in Nat /\ Messages = 1..MaxMessages /\ n - from \in Nat
  BY WatchAssumption DEF Messages
<1>2. ids \in [1..(n - from) -> Messages]
  BY <1>1
<1>3. ids \in Seq(Messages)
  BY <1>1, <1>2, SeqDef
<1>4. DOMAIN ids = 1..(n - from) /\ \A i \in 1..(n - from) : ids[i] = from + i
  OBVIOUS
<1>5. Rising(ids)
  BY <1>1, <1>4 DEF Rising
<1>6. ASSUME NEW j \in from + 1 .. n PROVE j \in Range(ids)
  <2>1. j - from \in DOMAIN ids /\ ids[j - from] = j
    BY <1>1, <1>4
  <2> QED
    BY <2>1 DEF Range
<1>7. \A i \in 1..(n - from) : from + i \in from + 1 .. n
  BY <1>1
<1>8. Range(ids) \subseteq from + 1 .. n
  BY <1>4, <1>7 DEF Range
<1> QED
  BY <1>3, <1>5, <1>6, <1>8

(* The session has switched: everything is forgotten and its history loaded. *)
LEMMA SwitchInv ==
  ASSUME Inv, PollStart, w.due /\ latest # w.sess
  PROVE  Inv'
<1>0. Sound
  BY DEF Inv
<1> DEFINE n == Count(latest)
<1>1. /\ poll.pc = "idle" /\ dirty' = FALSE /\ raced' = (raced \/ clearing)
      /\ w' = [Seeded(latest, None) EXCEPT !.same = w.same, !.due = FALSE]
      /\ buf' = OpenCodeDBHistory(latest) /\ base' = 0 /\ Begin(latest, None)
      /\ db' = db /\ latest' = latest /\ status' = status /\ clearing' = clearing /\ missed' = missed /\ spent' = spent
  BY DEF PollStart
<1>2. /\ MaxMessages \in Nat /\ Messages = 1..MaxMessages /\ latest \in Sessions
  BY <1>0, Ranges
<1>3. db[latest] \in Seq(Message) /\ n \in Nat /\ n <= MaxMessages /\ DOMAIN db[latest] = 1..n
      /\ \A i \in 1..n : Sane(db[latest][i])
  BY <1>0, <1>2 DEF Sound, TypeOK, DbSane, Count
<1>4. w' = [sess |-> latest, last |-> None, stream |-> None, text |-> 0, tool |-> FALSE,
            same |-> w.same, subs |-> {}, due |-> FALSE]
  BY <1>1 DEF Seeded
<1>4a. w'.sess = latest /\ w'.last = 0 /\ w'.stream = 0 /\ w'.subs = {}
  BY <1>4 DEF None
<1>5. /\ OpenCodeDBHistory(latest) \in Seq(Events)
      /\ Keyed(OpenCodeDBHistory(latest)) /\ UserText(OpenCodeDBHistory(latest))
      /\ \A e \in Range(OpenCodeDBHistory(latest)) : e.id \in 1..n
      /\ \A j \in 1..n : db[latest][j].text > 0 /\ db[latest][j].ask # "asked" =>
            \E e \in Range(OpenCodeDBHistory(latest)) : Of(e, j, db[latest][j]) /\ e.kind = "text"
  BY <1>3, HistoryHolds
<1> DEFINE q == [i \in 1..(n - 0) |-> 0 + i]
<1>6. poll' = [Idle EXCEPT !.pc = "parts", !.ids = q]
  BY <1>1 DEF Begin, None
<1>7. q \in Seq(Messages) /\ Rising(q) /\ Range(q) = 0 + 1 .. n
  <2>1. 0 \in 0..n
    BY <1>3
  <2> HIDE DEF n
  <2> QED
    BY <1>3, <2>1, BeginIds
<1>8. Range(q) = 1..n
  BY <1>7
<1> HIDE DEF q, n
<1>9. poll' = [pc |-> "parts", ids |-> q, msgs |-> <<>>]
  BY <1>6 DEF Idle
<1>10. N' = n /\ \A i : Msg(i)' = db[latest][i]
  BY <1>1, <1>4a DEF N, Msg, Count, n
<1>11. TypeOK'
  <2>1. w.same \in 0..Patience /\ 0 \in 0..MaxText /\ None \in Ids /\ latest \in 1..latest
    BY <1>0, <1>2, WatchAssumption DEF Sound, TypeOK, Ids, Sessions
  <2>2. w' \in [sess : 1..latest', last : Ids, stream : Ids, text : 0..MaxText, tool : BOOLEAN,
              same : 0..Patience, subs : SUBSET Messages, due : BOOLEAN]
    <3>1. latest' = latest
      BY <1>1
    <3> QED
      BY <1>4, <2>1, <3>1
  <2>3. poll' \in [pc : {"idle", "parts", "emit"}, ids : Seq(Messages), msgs : Seq(Message)]
    BY <1>7, <1>9
  <2>4. buf' \in Seq([id : Ids, kind : {"sub", "text", "ask"}, role : {"user", "assistant"}, text : 0..MaxText])
    BY <1>1, <1>5 DEF Events
  <2>5. base' \in Ids /\ raced' \in BOOLEAN /\ dirty' \in BOOLEAN
    BY <1>1 DEF Ids, None
  <2> QED
    BY <1>0, <1>1, <2>2, <2>3, <2>4, <2>5 DEF Sound, TypeOK, Count
<1>12. DbSane'
  BY <1>0, <1>1 DEF Sound, DbSane
<1>13. Due' = 1..n
  BY <1>8, <1>9 DEF Due
<1>14. Within'
  <2>1. \A e \in Range(buf') : e.id <= n
    BY <1>1, <1>3, <1>5
  <2>2. 0 <= n /\ \A i \in Due' : i <= n
    BY <1>3, <1>13
  <2> QED
    BY <1>1, <1>4a, <1>10, <2>1, <2>2 DEF Within
<1>15. PollShape'
  BY <1>7, <1>9 DEF PollShape
<1>16. Sound'
  BY <1>1, <1>5, <1>11, <1>12, <1>14, <1>15 DEF Sound
<1>17. Clean'
  <2>1. \A e \in Range(buf') : e.id > 0
    BY <1>1, <1>3, <1>5
  <2>2. 0 >= 0 /\ \A i \in Due' : i > 0
    BY <1>3, <1>13
  <2> QED
    BY <1>1, <1>4a, <2>1, <2>2 DEF Clean, None
<1>18. Faithful'
  <2>1. Ahead'
    BY <1>1, <1>3, <1>4a, <1>9, <1>13 DEF Ahead, None
  <2>2. AllRead'
    <3>1. From(w)' = 0
      BY <1>4a DEF From, None
    <3>2. w'.last + 1 = 1 /\ From(w)' + 1 = 1
      BY <1>4, <3>1 DEF None
    <3> QED
      BY <1>9, <1>10, <1>13, <3>2 DEF AllRead
  <2>3. AsRead'
    BY <1>9 DEF AsRead
  <2>4. DoneShown'
    <3>1. 1..w'.last = {} /\ w'.subs = {} /\ \A i \in 1..n : i # w'.stream
      BY <1>3, <1>4 DEF None
    <3> QED
      BY <1>10, <3>1 DEF DoneShown
  <2>5. Reread'
    <3> SUFFICES ASSUME NEW e \in Range(buf'), NEW i \in w'.last + 1 .. e.id - 1, Msg(i)'.role = "user",
                        Msg(i)'.text > 0
                 PROVE  OwnText(i, Msg(i).text)'
      BY DEF Reread
    <3>1. e.id \in 1..n
      BY <1>1, <1>5
    <3>2. i \in 1..n
      BY <1>3, <1>4, <3>1 DEF None
    <3>3. db[latest][i].role = "user" /\ db[latest][i].text > 0 /\ db[latest][i].ask # "asked"
      BY <1>3, <1>10, <3>2 DEF Sane
    <3>4. PICK f \in Range(OpenCodeDBHistory(latest)) : Of(f, i, db[latest][i]) /\ f.kind = "text"
      BY <1>5, <3>2, <3>3
    <3> QED
      BY <1>1, <1>10, <3>4 DEF OwnText, Of
  <2>6. AllShown'
    BY <1>9 DEF AllShown
  <2> QED
    BY <2>1, <2>2, <2>3, <2>4, <2>5, <2>6 DEF Faithful
<1> QED
  BY <1>16, <1>17, <1>18 DEF Inv

(* The session is the same: what follows the last message done is queried.   *)
LEMMA LookInv ==
  ASSUME Inv, PollStart, ~(w.due /\ latest # w.sess)
  PROVE  Inv'
<1>0. Sound
  BY DEF Inv
<1>1. /\ poll.pc = "idle" /\ dirty' = FALSE /\ raced' = (raced \/ clearing)
      /\ w' = [w EXCEPT !.due = ~@] /\ Begin(w.sess, From(w)) /\ buf' = buf /\ base' = base
      /\ db' = db /\ latest' = latest /\ status' = status /\ clearing' = clearing /\ missed' = missed /\ spent' = spent
  BY DEF PollStart
<1>2. /\ N \in Nat /\ N <= MaxMessages /\ w.last \in 0..N /\ w.stream \in 0..N /\ base \in 0..N
  BY <1>0, Ranges
<1>3. w \in [sess : 1..latest, last : Ids, stream : Ids, text : 0..MaxText, tool : BOOLEAN,
              same : 0..Patience, subs : SUBSET Messages, due : BOOLEAN]
  BY <1>0 DEF Sound, TypeOK
<1>4. /\ w'.sess = w.sess /\ w'.last = w.last /\ w'.stream = w.stream /\ w'.text = w.text /\ w'.subs = w.subs
  BY <1>1, <1>3
<1> DEFINE from == From(w)
           q == [i \in 1..(N - from) |-> from + i]
<1>5. from \in 0..N /\ from = IF w.stream # None THEN w.stream - 1 ELSE w.last
  BY <1>2 DEF From, None
<1>6. poll' = [Idle EXCEPT !.pc = "parts", !.ids = q]
  BY <1>1 DEF Begin, N
<1>7. q \in Seq(Messages) /\ Rising(q) /\ Range(q) = from + 1 .. N
  <2> HIDE DEF from
  <2> QED
    BY <1>2, <1>5, BeginIds
<1> HIDE DEF q
<1>8. poll' = [pc |-> "parts", ids |-> q, msgs |-> <<>>]
  BY <1>6 DEF Idle
<1>9. N' = N /\ (\A i : Msg(i)' = Msg(i)) /\ From(w)' = from
  BY <1>1, <1>4 DEF N, Msg, Count, From
<1> HIDE DEF from
<1>10. Due' = from + 1 .. N
  BY <1>7, <1>8 DEF Due
<1>11. TypeOK'
  <2>1. w' \in [sess : 1..latest, last : Ids, stream : Ids, text : 0..MaxText, tool : BOOLEAN,
              same : 0..Patience, subs : SUBSET Messages, due : BOOLEAN]
    BY <1>1, <1>3
  <2>2. poll' \in [pc : {"idle", "parts", "emit"}, ids : Seq(Messages), msgs : Seq(Message)]
    BY <1>7, <1>8
  <2>3. raced' \in BOOLEAN /\ dirty' \in BOOLEAN
    BY <1>1
  <2> QED
    BY <1>0, <1>1, <2>1, <2>2, <2>3 DEF Sound, TypeOK, Count
<1>12. Within'
  <2>1. \A i \in Due' : i <= N
    BY <1>2, <1>5, <1>10
  <2> QED
    BY <1>0, <1>1, <1>4, <1>9, <2>1 DEF Sound, Within
<1>13. PollShape'
  BY <1>7, <1>8 DEF PollShape
<1>14. Sound'
  BY <1>0, <1>1, <1>11, <1>12, <1>13 DEF Sound, DbSane
<1>15. Clean'
  <2> SUFFICES ASSUME ~raced' PROVE Clean'
    BY DEF Clean
  <2>1. ~raced /\ ~clearing
    BY <1>1
  <2>2. /\ \A e \in Range(buf) : e.id = None \/ e.id > base
        /\ w.last >= base /\ (w.stream # None => w.stream > base)
    BY <2>1 DEF Inv, Clean
  <2>3. \A i \in Due' : i > base
    BY <1>2, <1>5, <1>10, <2>2
  <2> QED
    BY <1>1, <1>4, <2>1, <2>2, <2>3 DEF Clean
<1>16. ASSUME Quiet' PROVE Faithful'
  <2>1. Faithful
    BY <1>1, <1>16 DEF Quiet, Inv
  <2>2. \A i : Gone(i)' = Gone(i)
    BY <1>1, <1>4 DEF Gone
  <2>3. w.stream # None => w.stream > w.last
    BY <1>1, <2>1 DEF Faithful, Ahead
  <2>4. \A i \in Due' : i > w.last /\ (w.stream # None => i >= w.stream)
    BY <1>2, <1>5, <1>10, <2>3
  <2>5. w.stream # None => \A i \in w.last + 1 .. w.stream - 1 : Gone(i)
    BY <2>1 DEF Faithful, Ahead
  <2>6. Ahead'
    BY <1>1, <1>4, <1>9, <2>1, <2>2, <2>3, <2>4, <2>5 DEF Ahead, Faithful
  <2>7. AllRead'
    <3>1. ASSUME NEW i \in w.last + 1 .. N PROVE i \in Due' \/ Gone(i)
      <4>1. CASE i \in from + 1 .. N
        BY <1>10, <4>1
      <4>2. CASE i \notin from + 1 .. N
        <5>1. w.stream # None /\ i \in w.last + 1 .. w.stream - 1
          BY <1>2, <1>5, <4>2
        <5> QED
          BY <2>5, <5>1
      <4> QED
        BY <4>1, <4>2
    <3> QED
      BY <1>4, <1>8, <1>9, <1>10, <2>2, <3>1 DEF AllRead
  <2>8. AsRead'
    BY <1>8 DEF AsRead
  <2>9. \A i, t : (OwnText(i, t)' <=> OwnText(i, t)) /\ (Told(i, t)' <=> Told(i, t))
    BY <1>1, <1>9 DEF OwnText, Told
  <2>10. \A i : HasSub(buf, i)' <=> HasSub(buf, i)
    BY <1>1 DEF HasSub
  <2>11. \A i : Shows(i) => Shows(i)'
    BY <1>9, <2>9, <2>10 DEF Shows
  <2>12. DoneShown'
    BY <1>4, <1>9, <2>1, <2>2, <2>9, <2>10, <2>11 DEF Faithful, DoneShown
  <2>13. Reread'
    <3> SUFFICES ASSUME NEW e \in Range(buf), NEW i \in w.last + 1 .. e.id - 1, ~Gone(i),
                        Msg(i).role = "user", Msg(i).text > 0
                 PROVE  OwnText(i, Msg(i).text)'
      BY <1>1, <1>4, <1>9, <2>2 DEF Reread
    <3>1. OwnText(i, Msg(i).text)
      BY <2>1 DEF Faithful, Reread
    <3> QED
      BY <1>9, <2>9, <3>1
  <2>14. AllShown'
    BY <1>8 DEF AllShown
  <2> QED
    BY <2>6, <2>7, <2>8, <2>12, <2>13, <2>14 DEF Faithful
<1> QED
  BY <1>14, <1>15, <1>16 DEF Inv

-----------------------------------------------------------------------------
(* The parts are read, but for those that fail.                              *)
LEMMA PartsInv ==
  ASSUME Inv, PollParts
  PROVE  Inv'
<1>0. Sound
  BY DEF Inv
<1>1. PICK bad \in SUBSET Range(poll.ids) :
          LET read == Readable(poll.ids, bad)
          IN /\ spent' = [spent EXCEPT !.fails = @ + Cardinality(bad)]
             /\ dirty' = (dirty \/ bad # {})
             /\ missed' = missed \cup {<<w.sess, i>> : i \in {j \in bad : \E k \in Range(read) : j < k}}
             /\ poll' = IF read = <<>> THEN Idle
                        ELSE [pc |-> "emit", ids |-> read, msgs |-> [i \in DOMAIN read |-> db[w.sess][read[i]]]]
  BY DEF PollParts
<1> DEFINE read == Readable(poll.ids, bad)
<1>2. /\ spent' = [spent EXCEPT !.fails = @ + Cardinality(bad)]
      /\ dirty' = (dirty \/ bad # {})
      /\ missed' = missed \cup {<<w.sess, i>> : i \in {j \in bad : \E k \in Range(read) : j < k}}
      /\ read = <<>> => poll' = Idle
      /\ read # <<>> => poll' = [pc |-> "emit", ids |-> read, msgs |-> [i \in DOMAIN read |-> Msg(read[i])]]
  BY <1>1 DEF Msg
<1>3. /\ poll.pc = "parts" /\ db' = db /\ latest' = latest /\ w' = w /\ buf' = buf /\ status' = status
      /\ clearing' = clearing /\ base' = base /\ raced' = raced
  BY DEF PollParts
<1>4. /\ N \in Nat /\ N <= MaxMessages /\ w.last \in 0..N /\ w.stream \in 0..N /\ base \in 0..N
      /\ w.sess \in Sessions /\ Messages = 1..MaxMessages /\ poll.ids \in Seq(Messages) /\ Due \subseteq 1..N
      /\ DOMAIN db[w.sess] = 1..N /\ db[w.sess] \in Seq(Message) /\ \A i \in 1..N : Sane(Msg(i)) /\ i \in Messages
  BY <1>0, Ranges
<1>5. read \in Seq(Messages) /\ Rising(read) /\ Range(read) = Due \ bad
  BY <1>0, <1>4, ReadableHolds DEF Sound, PollShape, Due
<1> HIDE DEF read
<1>6. Len(read) \in Nat /\ DOMAIN read = 1..Len(read) /\ (\A k \in 1..Len(read) : read[k] \in 1..N /\ read[k] \in Due)
      /\ (read # <<>> => Len(read) \in 1..Len(read))
  <2>1. Len(read) \in Nat /\ DOMAIN read = 1..Len(read) /\ (read # <<>> => Len(read) # 0)
    BY <1>5
  <2>2. \A k \in 1..Len(read) : read[k] \in Range(read)
    BY <2>1 DEF Range
  <2>3. \A k \in 1..Len(read) : read[k] \in Due
    BY <1>5, <2>2
  <2>4. \A k \in 1..Len(read) : read[k] \in 1..N
    BY <1>4, <2>3
  <2>5. read # <<>> => Len(read) \in 1..Len(read)
    BY <2>1
  <2> QED
    BY <2>1, <2>3, <2>4, <2>5
<1>7. N' = N /\ \A i : Msg(i)' = Msg(i)
  BY <1>3 DEF N, Msg, Count
<1>8. missed \subseteq missed' /\ missed' \subseteq Sessions \X Messages
  <2>1. \A j \in bad : j \in Messages
    BY <1>4 DEF Due
  <2>2. missed \subseteq Sessions \X Messages
    BY <1>0 DEF Sound, TypeOK
  <2>3. {<<w.sess, i>> : i \in {j \in bad : \E k \in Range(read) : j < k}} \subseteq Sessions \X Messages
    BY <1>4, <2>1
  <2> QED
    BY <1>2, <2>2, <2>3
<1>9. spent' \in [writes : Nat, clears : Nat, fails : Nat, sends : Nat, answers : Nat]
  <2>1. IsFiniteSet(1..N)
    <3>1. 1 \in Int /\ N \in Int
      BY <1>4
    <3> QED
      BY <3>1, FS_Interval
  <2>2. bad \subseteq 1..N
    BY <1>4 DEF Due
  <2>3. IsFiniteSet(bad) /\ Cardinality(bad) \in Nat
    BY <2>1, <2>2, FS_Subset, FS_CardinalityType
  <2>4. spent \in [writes : Nat, clears : Nat, fails : Nat, sends : Nat, answers : Nat]
    BY <1>0 DEF Sound, TypeOK
  <2> QED
    BY <1>2, <2>3, <2>4
<1> DEFINE ms == [i \in DOMAIN read |-> Msg(read[i])]
<1>10. ms \in Seq(Message) /\ Len(ms) = Len(read) /\ \A k \in 1..Len(read) : ms[k] = Msg(read[k])
  <2>1. \A k \in 1..Len(read) : Msg(read[k]) \in Message
    BY <1>4, <1>6 DEF Sane
  <2>2. ms \in [1..Len(read) -> Message]
    BY <1>6, <2>1
  <2> QED
    BY <1>6, <2>2, SeqDef
<1>11. read # <<>> => poll' = [pc |-> "emit", ids |-> read, msgs |-> ms]
  BY <1>2
<1> HIDE DEF ms
<1>12. TypeOK'
  <2>1. poll' \in [pc : {"idle", "parts", "emit"}, ids : Seq(Messages), msgs : Seq(Message)]
    BY <1>2, <1>5, <1>10, <1>11 DEF Idle
  <2>2. dirty' \in BOOLEAN
    BY <1>0, <1>2 DEF Sound, TypeOK
  <2> QED
    BY <1>0, <1>3, <1>8, <1>9, <2>1, <2>2 DEF Sound, TypeOK, Count
<1>13. Due' = (IF read = <<>> THEN {} ELSE Due \ bad) /\ (read = <<>> => Due \ bad = {})
  <2>1. Range(<<>>) = {} /\ Idle.ids = <<>>
    BY DEF Range, Idle
  <2>2. CASE read = <<>>
    BY <1>2, <1>5, <2>1, <2>2 DEF Due
  <2>3. CASE read # <<>>
    <3>1. poll'.ids = read
      BY <1>11, <2>3
    <3> QED
      BY <1>5, <2>3, <3>1 DEF Due
  <2> QED
    BY <2>2, <2>3
<1>14. Due' \subseteq Due
  BY <1>13
<1>15. Within'
  BY <1>0, <1>3, <1>7, <1>14 DEF Sound, Within
<1>16. PollShape'
  <2>1. CASE read = <<>>
    BY <1>2, <2>1 DEF PollShape, Idle, Rising
  <2>2. CASE read # <<>>
    <3>1. poll'.pc = "emit" /\ poll'.ids = read /\ poll'.msgs = ms
      BY <1>11, <2>2
    <3>2. \A k \in DOMAIN read : Sane(ms[k]) /\ Grows(ms[k], Msg(read[k]))
      BY <1>4, <1>6, <1>10 DEF Grows
    <3>3. \A k \in DOMAIN read : Sane(poll'.msgs[k]) /\ Grows(poll'.msgs[k], Msg(poll.ids[k])')
      BY <1>7, <3>1, <3>2
    <3> QED
      BY <1>5, <1>10, <2>2, <3>1, <3>3 DEF PollShape
  <2> QED
    BY <2>1, <2>2
<1>17. Sound'
  BY <1>0, <1>3, <1>12, <1>15, <1>16 DEF Sound, DbSane
<1>18. Clean'
  <2>1. ~raced => ~clearing
    BY <1>3 DEF Inv, Clean
  <2> QED
    BY <1>3, <1>14, <2>1 DEF Inv, Clean
<1>19. ASSUME Quiet' PROVE Faithful'
  <2>1. Faithful
    BY <1>3, <1>19 DEF Quiet, Inv
  <2>2. \A i : Gone(i) => Gone(i)'
    BY <1>3, <1>8 DEF Gone
  <2>3. \A i, t : (OwnText(i, t)' <=> OwnText(i, t)) /\ (Told(i, t)' <=> Told(i, t))
    BY <1>3, <1>7 DEF OwnText, Told
  <2>4. \A i : HasSub(buf, i)' <=> HasSub(buf, i)
    BY <1>3 DEF HasSub
  <2>5. \A i : Shows(i) => Shows(i)'
    BY <1>7, <2>3, <2>4 DEF Shows
  <2>6. Ahead'
    BY <1>3, <1>7, <1>14, <2>1, <2>2 DEF Faithful, Ahead
  <2>7. \A i \in w.last + 1 .. N : i \in Due \/ Gone(i) \/ \A j \in Due : j < i
    BY <1>3, <2>1 DEF Faithful, AllRead
  <2>8. ~dirty => \A i \in From(w) + 1 .. N : i \in Due
    BY <1>3, <2>1 DEF Faithful, AllRead
  <2>9. \A i \in Due : i > w.last /\ (w.stream # None => i >= w.stream)
    BY <2>1 DEF Faithful, Ahead
  <2>10. AllRead'
    <3>1. CASE read = <<>>
      BY <1>2, <3>1 DEF AllRead, Idle
    <3>2. CASE read # <<>>
      <4> DEFINE f == read[Len(read)]
      <4>1. poll'.pc = "emit" /\ poll'.ids = read /\ Final' = f
        BY <1>11, <3>2 DEF Final
      <4>2. f \in 1..N /\ f \in Due /\ f \in Range(read)
        BY <1>6, <3>2 DEF Range
      <4>3. ASSUME NEW i \in w.last + 1 .. f PROVE i \in Due' \/ Gone(i)'
        <5>1. i \in w.last + 1 .. N /\ ~(\A j \in Due : j < i)
          BY <1>4, <4>2
        <5>2. i \in Due \/ Gone(i)
          BY <2>7, <5>1
        <5>3. ASSUME i \in bad PROVE Gone(i)'
          <6>1. f \notin bad
            BY <1>5, <4>2
          <6>2. i < f
            BY <1>4, <4>2, <5>3, <6>1
          <6> QED
            BY <1>2, <1>3, <4>2, <5>3, <6>2 DEF Gone
        <5> QED
          BY <1>13, <2>2, <3>2, <5>2, <5>3
      <4>4. ASSUME ~dirty' PROVE f = N
        <5>1. ~dirty /\ bad = {}
          BY <1>2, <4>4
        <5>2. N \in From(w) + 1 .. N
          BY <1>4, <2>9, <4>2 DEF From, None
        <5>3. N \in Due
          BY <2>8, <5>1, <5>2
        <5>4. N \in Range(read)
          BY <1>5, <5>1, <5>3
        <5>5. PICK k \in 1..Len(read) : read[k] = N
          BY <1>6, <5>4 DEF Range
        <5>6. k < Len(read) => N < f
          BY <1>5, <1>6, <3>2, <5>5 DEF Rising
        <5>7. ~(N < f)
          BY <1>4, <4>2
        <5> QED
          BY <1>6, <5>5, <5>6, <5>7
      <4> HIDE DEF f
      <4> QED
        BY <1>3, <1>7, <4>1, <4>3, <4>4 DEF AllRead
    <3> QED
      BY <3>1, <3>2
  <2>11. AsRead'
    <3>1. CASE read = <<>>
      BY <1>2, <3>1 DEF AsRead, Idle
    <3>2. CASE read # <<>>
      <4>1. poll'.pc = "emit" /\ poll'.ids = read /\ poll'.msgs = ms
        BY <1>11, <3>2
      <4>2. \A k \in DOMAIN read, i \in 1..N : i = read[k] => ms[k] = Msg(i)
        BY <1>6, <1>10
      <4> QED
        BY <1>7, <4>1, <4>2 DEF AsRead
    <3> QED
      BY <3>1, <3>2
  <2>12. DoneShown'
    BY <1>3, <1>7, <2>1, <2>2, <2>3, <2>4, <2>5 DEF Faithful, DoneShown
  <2>13. Reread'
    <3> SUFFICES ASSUME NEW e \in Range(buf), NEW i \in w.last + 1 .. e.id - 1, ~Gone(i),
                        Msg(i).role = "user", Msg(i).text > 0
                 PROVE  OwnText(i, Msg(i).text)'
      BY <1>3, <1>7, <2>2 DEF Reread
    <3>1. OwnText(i, Msg(i).text)
      BY <2>1 DEF Faithful, Reread
    <3> QED
      BY <1>7, <2>3, <3>1
  <2>14. AllShown'
    <3> SUFFICES ASSUME poll'.pc = "idle", ~dirty', NEW i \in 1..N, ~Gone(i)'
                 PROVE  Shows(i)'
      BY <1>7 DEF AllShown
    <3>1. read = <<>>
      BY <1>11
    <3>2. ~dirty /\ bad = {} /\ ~Gone(i)
      BY <1>2, <2>2
    <3>3. Due = {}
      BY <1>13, <3>1, <3>2
    <3>4. From(w) + 1 .. N = {}
      BY <2>8, <3>2, <3>3
    <3>5. N <= w.last
      BY <1>4, <3>4 DEF From, None
    <3>6. i \in 1..w.last
      BY <1>4, <3>5
    <3> QED
      BY <2>1, <2>5, <3>2, <3>6 DEF Faithful, DoneShown
  <2> QED
    BY <2>6, <2>10, <2>11, <2>12, <2>13, <2>14 DEF Faithful
<1> QED
  BY <1>17, <1>18, <1>19 DEF Inv

-----------------------------------------------------------------------------
(* The messages are processed one by one.                                    *)

WatcherStates == [sess : 1..latest, last : Ids, stream : Ids, text : 0..MaxText, tool : BOOLEAN,
                  same : 0..Patience, subs : SUBSET Messages, due : BOOLEAN]

(* The next message is the first of those that remain.                       *)
LEMMA Heads ==
  ASSUME Sound, poll.pc = "emit"
  PROVE  /\ Id = poll.ids[1] /\ M = poll.msgs[1] /\ Len(poll.ids) \in Nat \ {0} /\ Len(poll.msgs) = Len(poll.ids)
         /\ Id \in 1..N /\ Id \in Due /\ Id \in Messages
         /\ Sane(M) /\ Grows(M, Msg(Id))
         /\ \A j \in Due : j >= Id
         /\ Final \in Due
         /\ Len(poll.ids) = 1 => Due = {Id} /\ Final = Id
<1>1. /\ poll.ids \in Seq(Messages) /\ poll.msgs \in Seq(Message) /\ Len(poll.ids) \in Nat
      /\ DOMAIN poll.ids = 1..Len(poll.ids) /\ Due \subseteq 1..N /\ (\A i \in 1..N : i \in Messages) /\ N \in Nat
      /\ \A k \in 1..Len(poll.ids) : poll.ids[k] \in Due
  BY Ranges
<1>2. /\ poll.ids # <<>> /\ Len(poll.msgs) = Len(poll.ids) /\ Rising(poll.ids)
      /\ \A k \in DOMAIN poll.ids : Sane(poll.msgs[k]) /\ Grows(poll.msgs[k], Msg(poll.ids[k]))
  BY DEF Sound, PollShape
<1>3. Len(poll.ids) \in Nat \ {0}
  BY <1>1, <1>2
<1>4. 1 \in DOMAIN poll.ids /\ 1 \in 1..Len(poll.ids) /\ Len(poll.ids) \in 1..Len(poll.ids)
  BY <1>1, <1>3
<1>5. Id = poll.ids[1] /\ M = poll.msgs[1]
  BY <1>1, <1>2 DEF Id, M
<1>6. Id \in Due /\ Final \in Due
  BY <1>1, <1>4, <1>5 DEF Final
<1>7. Id \in 1..N /\ Id \in Messages
  BY <1>1, <1>6
<1>8. ASSUME NEW j \in Due PROVE j >= Id
  <2>1. PICK k \in 1..Len(poll.ids) : j = poll.ids[k]
    BY <1>1 DEF Due, Range
  <2>2. CASE k = 1
    BY <1>5, <1>7, <2>1, <2>2
  <2>3. CASE k # 1
    <3>1. 1 < k
      BY <2>3
    <3>2. Id < j
      BY <1>1, <1>2, <1>4, <1>5, <2>1, <3>1 DEF Rising
    <3> QED
      BY <1>1, <1>7, <3>2
  <2> QED
    BY <2>2, <2>3
<1>9. ASSUME Len(poll.ids) = 1 PROVE Due = {Id} /\ Final = Id
  BY <1>1, <1>5, <1>9 DEF Due, Range, Final
<1> QED
  BY <1>2, <1>3, <1>4, <1>5, <1>6, <1>7, <1>8, <1>9

(* Between what is done and the next message nothing is still looked at.     *)
LEMMA HeadsQuiet ==
  ASSUME Inv, Quiet, poll.pc = "emit"
  PROVE  /\ Id > w.last /\ (w.stream # None => Id >= w.stream) /\ Id > base
         /\ \A j \in w.last + 1 .. Id - 1 : Gone(j)
         /\ ~Gone(Id) /\ (Len(poll.ids) > 1 \/ ~dirty \/ \E e \in Range(buf) : e.id > Id) => M = Msg(Id)
<1>0. Sound /\ Clean /\ Faithful
  BY DEF Inv
<1>1. /\ Id = poll.ids[1] /\ M = poll.msgs[1] /\ Len(poll.ids) \in Nat \ {0}
      /\ Id \in 1..N /\ Id \in Due /\ (\A j \in Due : j >= Id) /\ Final \in Due
  BY <1>0, Heads
<1>2. Due \subseteq 1..N /\ N \in Nat /\ w.last \in 0..N /\ DOMAIN poll.ids = 1..Len(poll.ids)
  BY <1>0, Ranges
<1>3. Id > w.last /\ (w.stream # None => Id >= w.stream)
  BY <1>0, <1>1 DEF Faithful, Ahead
<1>4. Id > base
  BY <1>0, <1>1 DEF Clean, Quiet
<1>5. ASSUME NEW j \in w.last + 1 .. Id - 1 PROVE Gone(j)
  <2>1. j \in w.last + 1 .. Final
    BY <1>1, <1>2
  <2>2. j \in Due \/ Gone(j)
    BY <1>0, <2>1 DEF Faithful, AllRead
  <2> QED
    BY <1>1, <1>2, <2>2
<1>6. ASSUME ~Gone(Id), Len(poll.ids) > 1 \/ ~dirty \/ \E e \in Range(buf) : e.id > Id PROVE M = Msg(Id)
  <2>1. 1 \in DOMAIN poll.ids
    BY <1>1, <1>2
  <2> QED
    BY <1>0, <1>1, <1>6, <2>1 DEF Faithful, AsRead
<1> QED
  BY <1>3, <1>4, <1>5, <1>6

\* What events of message i as m leave as it was.
Keeps(i, m) ==
    /\ \A j \in 1..w.last : ~Gone(j) => Shows(j)'
    /\ \A t : \A j \in 1..N : j < i /\ Told(j, t) => Told(j, t)'
    /\ \A j : HasSub(buf, j) => HasSub(buf, j)'
    /\ Told(i, m.text) => \A t : t = m.text => Told(i, t)'
    /\ Said(buf', i, m) /\ ~Gone(i) /\ m.text > 0 => \A t : t = m.text => Told(i, t)'
    /\ \A e \in Range(buf') : \A j \in w.last + 1 .. e.id - 1 :
          ~Gone(j) /\ Msg(j).role = "user" /\ Msg(j).text > 0 => \A t : t = Msg(j).text => OwnText(j, t)'

(* The callback changes nothing the invariant says of other messages.        *)
LEMMA AfterKeeps ==
  ASSUME Inv, Quiet, poll.pc = "emit", NEW i, i = Id, NEW m, m = M, After(buf, buf', i, m),
         db' = db, w'.sess = w.sess
  PROVE  Keeps(i, m)
<1>0. Sound /\ Faithful
  BY DEF Inv
<1>1. i \in 1..N /\ Sane(m) /\ Grows(m, Msg(i))
  BY <1>0, Heads
<1>2. /\ i > w.last /\ (\A j \in w.last + 1 .. i - 1 : Gone(j))
      /\ ~Gone(i) /\ (\E e \in Range(buf) : e.id > i) => m = Msg(i)
  BY HeadsQuiet
<1>3. N \in Nat /\ w.last \in 0..N /\ \A e \in Range(buf) : e.id \in 0..N
  BY <1>0, Ranges
<1>4. \A j : Msg(j)' = Msg(j)
  BY DEF Msg
<1>5. m.role = Msg(i).role
  BY <1>1 DEF Grows
<1>6. \A e \in Range(buf') : e \in Range(buf) \/ Of(e, i, m)
  BY DEF After
<1>7. \A e \in Range(buf) : e \in Range(buf') \/ (e.id = i /\ \E f \in Range(buf') : Of(f, i, m) /\ f.kind = e.kind)
  BY DEF After
<1>8. ASSUME NEW j, NEW t, OwnText(j, t), j # i PROVE OwnText(j, t)'
  BY <1>4, <1>7, <1>8 DEF OwnText
<1>9. ASSUME NEW t, t = m.text, OwnText(i, t) PROVE OwnText(i, t)'
  BY <1>4, <1>5, <1>7, <1>9 DEF OwnText, Of
<1>10. ASSUME NEW j \in 1..N, NEW t, j < i \/ (j = i /\ t = m.text), Told(j, t) PROVE Told(j, t)'
  <2>1. CASE OwnText(j, t)
    <3>1. OwnText(j, t)'
      BY <1>3, <1>8, <1>9, <1>10, <2>1
    <3> QED
      BY <3>1 DEF Told
  <2>2. CASE ~OwnText(j, t)
    <3>1. PICK e \in Range(buf) : Msg(j).role = "user" /\ e.id < j /\ e.role = "user" /\ e.text = t
      BY <1>10, <2>2 DEF Told
    <3>2. e.id # i
      BY <1>1, <1>3, <1>10, <3>1
    <3>3. e \in Range(buf')
      BY <1>7, <3>2
    <3> QED
      BY <1>4, <3>1, <3>3 DEF Told
  <2> QED
    BY <2>1, <2>2
<1>11. ASSUME NEW j, HasSub(buf, j) PROVE HasSub(buf, j)'
  <2>1. HasSub(buf', j)
    BY <1>11, SubStays
  <2> QED
    BY <2>1 DEF HasSub
<1>12. ASSUME NEW j \in 1..w.last, ~Gone(j) PROVE Shows(j)'
  <2>1. Shows(j)
    BY <1>0, <1>12 DEF Faithful, DoneShown
  <2>2. j \in 1..N /\ j < i
    BY <1>1, <1>2, <1>3
  <2>3. \A t : Told(j, t) => Told(j, t)'
    BY <1>10, <2>2
  <2> QED
    BY <1>4, <1>11, <2>1, <2>3 DEF Shows
<1>13. ASSUME Said(buf', i, m), ~Gone(i), m.text > 0, NEW t, t = m.text PROVE Told(i, t)'
  <2>1. CASE \E e \in Range(buf') : Of(e, i, m) /\ e.kind = "text"
    BY <1>4, <1>5, <1>13, <2>1 DEF Told, OwnText, Of
  <2>2. CASE m.role = "user" /\ \E e \in Range(buf') : e.id # i /\ e.role = "user" /\ e.text = m.text
    <3>1. PICK e \in Range(buf') : e.id # i /\ e.role = "user" /\ e.text = m.text
      BY <2>2
    <3>2. e \in Range(buf)
      BY <1>6, <3>1 DEF Of
    <3>3. CASE e.id < i
      BY <1>4, <1>5, <1>13, <2>2, <3>1, <3>3 DEF Told
    <3>4. CASE e.id > i
      <4>1. m = Msg(i)
        BY <1>2, <1>13, <3>2, <3>4
      <4>2. i \in w.last + 1 .. e.id - 1
        BY <1>1, <1>2, <1>3, <3>2, <3>4
      <4>3. OwnText(i, Msg(i).text)
        BY <1>0, <1>13, <2>2, <3>2, <4>1, <4>2 DEF Faithful, Reread
      <4>4. OwnText(i, t)'
        BY <1>9, <1>13, <4>1, <4>3
      <4> QED
        BY <4>4 DEF Told
    <3> QED
      BY <1>1, <1>3, <3>1, <3>2, <3>3, <3>4
  <2> QED
    BY <1>13, <2>1, <2>2 DEF Said
<1>14. ASSUME NEW e \in Range(buf'), NEW j \in w.last + 1 .. e.id - 1, ~Gone(j), Msg(j).role = "user", Msg(j).text > 0,
              NEW t, t = Msg(j).text
       PROVE  OwnText(j, t)'
  <2>1. CASE e \in Range(buf)
    <3>1. OwnText(j, t)
      BY <1>0, <1>14, <2>1 DEF Faithful, Reread
    <3>2. CASE j # i
      BY <1>8, <3>1, <3>2
    <3>3. CASE j = i
      <4>1. e.id > i
        BY <1>1, <1>3, <2>1, <3>3
      <4>2. m = Msg(i)
        BY <1>2, <1>14, <2>1, <3>3, <4>1
      <4> QED
        BY <1>9, <1>14, <3>1, <3>3, <4>2
    <3> QED
      BY <3>2, <3>3
  <2>2. CASE e \notin Range(buf)
    <3>1. e.id = i
      BY <1>6, <2>2 DEF Of
    <3> QED
      BY <1>2, <1>14, <3>1
  <2> QED
    BY <2>1, <2>2
<1>15. \A t : \A j \in 1..N : j < i /\ Told(j, t) => Told(j, t)'
  BY <1>10
<1>16. Told(i, m.text) => \A t : t = m.text => Told(i, t)'
  BY <1>1, <1>10
<1> QED
  BY <1>11, <1>12, <1>13, <1>14, <1>15, <1>16 DEF Keeps

-----------------------------------------------------------------------------
(* The last message, after which the poll is over.                           *)

(* Whatever its events are, they are of a message of the session.            *)
LEMMA OverSound ==
  ASSUME Sound, Clean, poll.pc = "emit", PollOver,
         w' \in WatcherStates, w'.sess = w.sess, w'.last = w.last, w'.stream \in {None, Id},
         NEW i, i = Id, NEW m, m = M,
         buf' \in Seq(Events), status' \in Statuses, After(buf, buf', i, m)
  PROVE  Sound' /\ Clean'
<1>1. /\ poll' = Idle /\ db' = db /\ latest' = latest /\ clearing' = clearing /\ base' = base /\ missed' = missed
      /\ raced' = raced /\ dirty' = dirty /\ spent' = spent
  BY DEF PollOver
<1>2. i \in 1..N /\ i \in Due
  BY Heads
<1>3. N \in Nat /\ \A e \in Range(buf) : e.id \in 0..N
  BY Ranges
<1>4. \A e \in Range(buf') : e \in Range(buf) \/ e.id = i
  BY DEF After, Of
<1>5. TypeOK'
  <2>1. w' \in [sess : 1..latest', last : Ids, stream : Ids, text : 0..MaxText, tool : BOOLEAN,
                same : 0..Patience, subs : SUBSET Messages, due : BOOLEAN]
    BY <1>1 DEF WatcherStates
  <2>2. poll' \in [pc : {"idle", "parts", "emit"}, ids : Seq(Messages), msgs : Seq(Message)]
    BY <1>1 DEF Idle
  <2>3. buf' \in Seq([id : Ids, kind : {"sub", "text", "ask"}, role : {"user", "assistant"}, text : 0..MaxText])
    BY DEF Events
  <2> QED
    BY <1>1, <2>1, <2>2, <2>3 DEF Sound, TypeOK, Count, Statuses
<1>6. DbSane' /\ N' = N
  BY <1>1 DEF Sound, DbSane, N, Count
<1>7. Due' = {} /\ PollShape'
  <2>1. poll'.ids = <<>> /\ poll'.pc = "idle" /\ poll' = Idle
    BY <1>1 DEF Idle
  <2>2. Range(<<>>) = {} /\ Rising(<<>>)
    BY DEF Range, Rising
  <2> QED
    BY <2>1, <2>2 DEF Due, PollShape
<1>8. Within'
  <2>1. \A e \in Range(buf') : e.id <= N
    BY <1>2, <1>3, <1>4
  <2>2. w'.stream <= N
    BY <1>2, <1>3 DEF None
  <2> QED
    BY <1>1, <1>6, <1>7, <2>1, <2>2 DEF Sound, Within
<1>9. Keyed(buf)' /\ UserText(buf)'
  <2>1. Keyed(buf') /\ UserText(buf')
    BY DEF Sound, After
  <2> QED
    BY <2>1 DEF Keyed, UserText
<1>10. Clean'
  <2> SUFFICES ASSUME ~raced PROVE Clean'
    BY <1>1 DEF Clean
  <2>1. /\ ~clearing /\ \A e \in Range(buf) : e.id = None \/ e.id > base
        /\ w.last >= base /\ i > base
    BY <1>2 DEF Clean
  <2>2. \A e \in Range(buf') : e.id = None \/ e.id > base
    BY <1>4, <2>1
  <2> QED
    BY <1>1, <1>7, <2>1, <2>2 DEF Clean
<1> QED
  BY <1>5, <1>6, <1>7, <1>8, <1>9, <1>10 DEF Sound

(* If it shows what was read of the last message, everything is shown.       *)
LEMMA OverFaithful ==
  ASSUME Inv, Quiet, Lasting, PollOver,
         w'.sess = w.sess, w'.last = w.last, w'.stream \in {None, Id},
         NEW i, i = Id, NEW m, m = M, Keeps(i, m),
         \A j \in w'.subs : HasSub(buf, j)',
         w'.stream # None /\ w'.text > 0 /\ ~Gone(i) /\ Msg(i).ask # "asked" => Told(i, w.text)',
         ~dirty /\ ~Gone(i) => Shows(i)'
  PROVE  Faithful'
<1>0. Sound /\ Faithful /\ poll.pc = "emit" /\ Len(poll.ids) = 1
  BY DEF Inv, Lasting
<1>1. /\ poll' = Idle /\ db' = db /\ base' = base /\ missed' = missed /\ dirty' = dirty
  BY DEF PollOver
<1>2. i \in 1..N /\ Final = i
  BY <1>0, Heads
<1>3. i > w.last /\ \A j \in w.last + 1 .. i - 1 : Gone(j)
  BY <1>0, HeadsQuiet
<1>4. N \in Nat /\ w.last \in 0..N /\ base \in 0..N
  BY <1>0, Ranges
<1>5. N' = N /\ (\A j : Msg(j)' = Msg(j)) /\ (\A j : Gone(j)' = Gone(j))
  BY <1>1 DEF N, Msg, Gone, Count
<1>6. poll'.pc = "idle" /\ Due' = {}
  <2>1. poll'.ids = <<>> /\ poll'.pc = "idle"
    BY <1>1 DEF Idle
  <2>2. Range(<<>>) = {}
    BY DEF Range
  <2> QED
    BY <2>1, <2>2 DEF Due
<1>7. Ahead'
  BY <1>0, <1>1, <1>2, <1>3, <1>5, <1>6 DEF Faithful, Ahead, None
<1>8. AllRead' /\ AsRead'
  BY <1>6 DEF AllRead, AsRead
<1>9. \A j \in 1..w.last : ~Gone(j) => Shows(j)'
  BY DEF Keeps
<1>10. DoneShown'
  <2>1. \A j \in 1..N : j = w'.stream /\ w'.text > 0 /\ ~Gone(j) /\ Msg(j).ask # "asked" => Told(j, w.text)'
    <3>1. \A j \in 1..N : j = w'.stream => j = i /\ w'.stream # None
      BY <1>4 DEF None
    <3> QED
      BY <3>1
  <2> QED
    BY <1>5, <1>9, <2>1 DEF DoneShown
<1>11. Reread'
  <2> SUFFICES ASSUME NEW e \in Range(buf'), NEW j \in w.last + 1 .. e.id - 1, ~Gone(j),
                      Msg(j).role = "user", Msg(j).text > 0
               PROVE  OwnText(j, Msg(j).text)'
    BY <1>5 DEF Reread
  <2>1. \A t : t = Msg(j).text => OwnText(j, t)'
    BY DEF Keeps
  <2> QED
    BY <1>5, <2>1
<1>12. AllShown'
  <2> SUFFICES ASSUME ~dirty, NEW j \in 1..N, ~Gone(j) PROVE Shows(j)'
    BY <1>1, <1>5 DEF AllShown
  <2>1. i = N
    BY <1>0, <1>2 DEF Faithful, AllRead
  <2>2. CASE j <= w.last
    BY <1>4, <1>9, <2>2
  <2>3. CASE j = i
    BY <2>3
  <2>4. CASE j > w.last /\ j < i
    BY <1>2, <1>3, <1>4, <2>4
  <2> QED
    BY <1>4, <2>1, <2>2, <2>3, <2>4
<1> QED
  BY <1>7, <1>8, <1>10, <1>11, <1>12 DEF Faithful

(* Nothing new of the last message.                                          *)
LEMMA PollSameInv ==
  ASSUME Inv, PollSame
  PROVE  Inv'
<1>0. Sound /\ Clean
  BY DEF Inv
<1>1. Lasting /\ Id = w.stream /\ Unchanged /\ PollOver /\ poll.pc = "emit" /\ Len(poll.ids) = 1
  BY DEF PollSame, Lasting
<1>2. w \in WatcherStates
  BY <1>0 DEF Sound, TypeOK, WatcherStates
<1>3. /\ buf' = buf /\ status' \in Statuses
  <2>1. status \in Statuses
    BY <1>0, Ranges
  <2> QED
    BY <2>1 DEF PollSame, Heartbeat, Statuses
<1>4. w' \in {[w EXCEPT !.stream = None, !.text = 0, !.tool = FALSE, !.same = 0],
              [w EXCEPT !.same = IF @ < Patience THEN @ + 1 ELSE @]}
  BY DEF PollSame, Left, Unstreamed
<1>5. /\ w' \in WatcherStates /\ w'.sess = w.sess /\ w'.last = w.last /\ w'.stream \in {None, w.stream}
      /\ w'.subs = w.subs /\ (w'.stream # None => w'.text = w.text)
  <2>1. Patience \in Nat /\ None \in Ids /\ 0 \in 0..MaxText /\ 0 \in 0..Patience
    BY WatchAssumption DEF Ids
  <2>2. (IF w.same < Patience THEN w.same + 1 ELSE w.same) \in 0..Patience
    BY <1>2, <2>1 DEF WatcherStates
  <2>3. CASE w' = [w EXCEPT !.stream = None, !.text = 0, !.tool = FALSE, !.same = 0]
    BY <1>2, <2>1, <2>3 DEF WatcherStates
  <2>4. CASE w' = [w EXCEPT !.same = IF @ < Patience THEN @ + 1 ELSE @]
    BY <1>2, <2>2, <2>4 DEF WatcherStates
  <2> QED
    BY <1>4, <2>3, <2>4
<1>6. PICK i : i = Id
  OBVIOUS
<1>7. PICK m : m = M
  OBVIOUS
<1>8. After(buf, buf', i, m)
  BY <1>3, AfterNothing
<1>9. buf' \in Seq(Events)
  BY <1>0, <1>3, Ranges
<1>10. Sound' /\ Clean'
  BY <1>0, <1>1, <1>3, <1>5, <1>6, <1>7, <1>8, <1>9, OverSound
<1>11. ASSUME Quiet PROVE Faithful'
  <2>1. Faithful
    BY <1>11 DEF Inv
  <2>2. db' = db
    BY <1>1 DEF PollOver
  <2>3. Keeps(i, m)
    BY <1>1, <1>5, <1>6, <1>7, <1>8, <1>11, <2>2, AfterKeeps
  <2>4. \A j \in w'.subs : HasSub(buf, j)'
    <3>1. \A j \in w.subs : HasSub(buf, j)
      BY <2>1 DEF Faithful, DoneShown
    <3> QED
      BY <1>5, <2>3, <3>1 DEF Keeps
  <2>5. i \in 1..N /\ Sane(m) /\ Grows(m, Msg(i)) /\ Len(poll.ids) \in Nat
    BY <1>0, <1>1, <1>6, <1>7, Heads
  <2>6. m.text = w.text /\ (~m.sub \/ i \in w.subs) /\ i = w.stream
    BY <1>1, <1>6, <1>7 DEF Unchanged, Pending
  <2>7. ASSUME m.text > 0, ~Gone(i), Msg(i).ask # "asked", NEW t, t = m.text PROVE Told(i, t)'
    <3>1. Told(i, w.text)
      BY <2>1, <2>5, <2>6, <2>7 DEF Faithful, DoneShown
    <3>2. Told(i, m.text)
      BY <2>6, <3>1
    <3> QED
      BY <2>3, <2>7, <3>2 DEF Keeps
  <2>8. ASSUME w'.stream # None, w'.text > 0, ~Gone(i), Msg(i).ask # "asked" PROVE Told(i, w.text)'
    <3>1. w'.text = m.text
      BY <1>5, <2>6, <2>8
    <3>2. \A t : t = m.text => Told(i, t)'
      BY <2>7, <2>8, <3>1
    <3> QED
      BY <3>1, <3>2
  <2>9. ASSUME ~dirty, ~Gone(i) PROVE Shows(i)'
    <3>1. m = Msg(i) /\ Msg(i)' = m
      <4>1. Msg(i)' = Msg(i)
        BY <1>5, <2>2 DEF Msg
      <4> QED
        BY <1>1, <1>6, <1>7, <1>11, <2>9, <4>1, HeadsQuiet
    <3>2. m.sub => HasSub(buf, i)'
      BY <1>5, <2>4, <2>6
    <3>3. m.text > 0 /\ m.ask # "asked" => \A t : t = m.text => Told(i, t)'
      BY <2>7, <2>9, <3>1
    <3> QED
      BY <3>1, <3>2, <3>3 DEF Shows
  <2> QED
    BY <1>1, <1>5, <1>6, <1>7, <1>11, <2>3, <2>4, <2>8, <2>9, OverFaithful
<1>12. Quiet' = Quiet
  BY <1>1 DEF Quiet, PollOver
<1> QED
  BY <1>10, <1>11, <1>12 DEF Inv

(* Events of two kinds, one after the other.                                 *)
LEMMA GiftsConcat ==
  ASSUME NEW i, NEW m, NEW p \in Seq(Gifts(i, m)), NEW q \in Seq(Gifts(i, m))
  PROVE  p \o q \in Seq(Gifts(i, m)) /\ Range(p \o q) = Range(p) \cup Range(q)
<1>1. p \o q \in Seq(Gifts(i, m))
  OBVIOUS
<1>2. Range(p \o q) = Range(p) \cup Range(q)
  BY RangeConcatenation
<1> QED
  BY <1>1, <1>2

(* What the events of the next message do.                                   *)
LEMMA EmitAfter ==
  ASSUME Sound, poll.pc = "emit", NEW i, i = Id, NEW m, m = M, NEW gs \in Seq(Gifts(i, m)), Calls(gs)
  PROVE  /\ buf' \in Seq(Events) /\ status' \in Statuses /\ After(buf, buf', i, m)
         /\ \A g \in Range(gs) : Taken(g, buf', i, m)
<1>1. i \in Messages /\ Sane(m)
  BY Heads
<1>2. buf \in Seq(Events) /\ status \in Statuses /\ UserText(buf)
  BY Ranges DEF Sound
<1> QED
  BY <1>1, <1>2, CallsAfter

(* The last message is new or has grown, and what is new of it was given.    *)
LEMMA GivenInv ==
  ASSUME Inv, Lasting, PollOver,
         w' \in WatcherStates, w'.sess = w.sess, w'.last = w.last, w'.stream = Id, w'.text = M.text,
         w'.subs = IF M.sub THEN w.subs \cup {Id} ELSE w.subs,
         NEW i, i = Id, NEW m, m = M, NEW gs \in Seq(Gifts(i, m)), Calls(gs),
         Pending(i, m) => \E g \in Range(gs) : g.ev.kind = "sub",
         m.text > 0 /\ m.ask # "asked" =>
            \/ \E g \in Range(gs) : g.ev.kind = "text" /\ ~g.ask
            \/ i = w.stream /\ m.text = w.text
  PROVE  Inv'
<1>0. Sound /\ Clean /\ poll.pc = "emit" /\ Len(poll.ids) = 1
  BY DEF Inv, Lasting
<1>1. /\ buf' \in Seq(Events) /\ status' \in Statuses /\ After(buf, buf', i, m)
      /\ \A g \in Range(gs) : Taken(g, buf', i, m)
  BY <1>0, EmitAfter
<1>2. Sound' /\ Clean'
  BY <1>0, <1>1, OverSound
<1>3. ASSUME Quiet PROVE Faithful'
  <2>1. Faithful
    BY <1>3 DEF Inv
  <2>2. db' = db
    BY DEF PollOver
  <2>3. Keeps(i, m)
    BY <1>0, <1>1, <1>3, <2>2, AfterKeeps
  <2>4. i \in 1..N /\ Sane(m) /\ Grows(m, Msg(i))
    BY <1>0, Heads
  <2>5. ASSUME m.sub PROVE HasSub(buf, i)'
    <3>1. CASE Pending(i, m)
      <4>1. HasSub(buf', i)
        BY <1>1, <3>1 DEF Taken
      <4> QED
        BY <4>1 DEF HasSub
    <3>2. CASE ~Pending(i, m)
      <4>1. HasSub(buf, i)
        BY <2>1, <2>5, <3>2 DEF Pending, Faithful, DoneShown
      <4> QED
        BY <2>3, <4>1 DEF Keeps
    <3> QED
      BY <3>1, <3>2
  <2>6. \A j \in w'.subs : HasSub(buf, j)'
    <3>1. \A j \in w.subs : HasSub(buf, j)'
      BY <2>1, <2>3 DEF Faithful, DoneShown, Keeps
    <3> QED
      BY <2>5, <3>1
  <2>7. ASSUME m.text > 0, ~Gone(i), m.ask # "asked", Msg(i).ask # "asked", NEW t, t = m.text PROVE Told(i, t)'
    <3>1. CASE \E g \in Range(gs) : g.ev.kind = "text" /\ ~g.ask
      <4>1. Said(buf', i, m)
        BY <1>1, <3>1 DEF Taken
      <4> QED
        BY <2>3, <2>7, <4>1 DEF Keeps
    <3>2. CASE i = w.stream /\ m.text = w.text
      <4>1. Told(i, w.text)
        BY <2>1, <2>4, <2>7, <3>2 DEF Faithful, DoneShown
      <4>2. Told(i, m.text)
        BY <3>2, <4>1
      <4> QED
        BY <2>3, <2>7, <4>2 DEF Keeps
    <3> QED
      BY <2>7, <3>1, <3>2
  <2>8. ASSUME w'.stream # None, w'.text > 0, ~Gone(i), Msg(i).ask # "asked" PROVE Told(i, w.text)'
    <3>1. m.ask # "asked"
      BY <2>4, <2>8 DEF Grows
    <3>2. \A t : t = m.text => Told(i, t)'
      BY <2>7, <2>8, <3>1
    <3> QED
      BY <3>2
  <2>9. ASSUME ~dirty, ~Gone(i) PROVE Shows(i)'
    <3>1. m = Msg(i) /\ Msg(i)' = m
      <4>1. Msg(i)' = Msg(i)
        BY <2>2 DEF Msg
      <4> QED
        BY <1>0, <1>3, <2>9, <4>1, HeadsQuiet
    <3>2. m.text > 0 /\ m.ask # "asked" => \A t : t = m.text => Told(i, t)'
      BY <2>7, <2>9, <3>1
    <3> QED
      BY <2>5, <3>1, <3>2 DEF Shows
  <2> QED
    BY <1>3, <2>3, <2>6, <2>8, <2>9, OverFaithful
<1>4. Quiet' = Quiet
  BY DEF Quiet, PollOver
<1> QED
  BY <1>2, <1>3, <1>4 DEF Inv

(* What the watcher notes of the message.                                    *)
LEMMA NotedStates ==
  ASSUME Sound, poll.pc = "emit"
  PROVE  /\ w \in WatcherStates /\ M.text \in 0..MaxText /\ HasTool(M) \in BOOLEAN /\ Id \in Ids /\ None \in Ids
         /\ (IF M.sub THEN w.subs \cup {Id} ELSE w.subs) \in SUBSET Messages
         /\ 0 \in 0..Patience /\ 0 \in 0..MaxText
<1>1. w \in WatcherStates
  BY DEF Sound, TypeOK, WatcherStates
<1>2. Id \in Messages /\ Sane(M)
  BY Heads
<1>3. M.text \in 0..MaxText /\ HasTool(M) \in BOOLEAN
  BY <1>2 DEF Sane, Message, HasTool
<1> QED
  BY <1>1, <1>2, <1>3, WatchAssumption DEF WatcherStates, Ids

(* The last message has grown.                                               *)
LEMMA PollGrownInv ==
  ASSUME Inv, PollGrown
  PROVE  Inv'
<1>0. Sound /\ Lasting /\ Id = w.stream /\ ~Unchanged /\ PollOver /\ poll.pc = "emit"
  BY DEF Inv, PollGrown, Lasting
<1> DEFINE sb == IF M.sub THEN w.subs \cup {Id} ELSE w.subs
           tl == HasTool(M)
<1>1. w \in WatcherStates /\ M.text \in 0..MaxText /\ tl \in BOOLEAN /\ sb \in SUBSET Messages /\ 0 \in 0..Patience
  BY <1>0, NotedStates
<1>2. w' = [w EXCEPT !.same = 0, !.tool = tl, !.text = M.text, !.subs = sb]
  BY DEF PollGrown
<1> HIDE DEF sb, tl
<1>3. w' \in WatcherStates /\ w'.sess = w.sess /\ w'.last = w.last /\ w'.stream = Id /\ w'.text = M.text /\ w'.subs = sb
  BY <1>0, <1>1, <1>2 DEF WatcherStates
<1>4. PICK i : i = Id
  OBVIOUS
<1>5. PICK m : m = M
  OBVIOUS
<1>6. i \in Messages /\ Sane(m) /\ "working" \in Statuses
  BY <1>0, <1>4, <1>5, Heads DEF Statuses
<1> DEFINE a == Subs(i, m, "working")
           b == IF HasTool(m) /\ ~w.tool /\ m.role = "assistant"
                THEN <<[Given(i, "text", m, "working") EXCEPT !.ask = FALSE]>> ELSE <<>>
           asks == m.text # w.text \/ m.ask # "no"
           c == IF asks THEN Text(i, m, "working") ELSE <<>>
           gs == a \o b \o c
<1>7. Calls(gs)
  BY <1>4, <1>5 DEF PollGrown
<1>8. a \in Seq(Gifts(i, m)) /\ (Pending(i, m) => \E g \in Range(a) : g.ev.kind = "sub")
  BY <1>6, SubsGifts
<1>9. b \in Seq(Gifts(i, m))
  <2> DEFINE nt == <<[Given(i, "text", m, "working") EXCEPT !.ask = FALSE]>>
  <2>1. nt \in Seq(Gifts(i, m))
    BY <1>6, NoticeGifts
  <2>2. b \in {nt, <<>>}
    OBVIOUS
  <2>3. <<>> \in Seq(Gifts(i, m))
    OBVIOUS
  <2> HIDE DEF nt, b
  <2> QED
    BY <2>1, <2>2, <2>3
<1>10. c \in Seq(Gifts(i, m)) /\ (asks /\ Shown(m) /\ m.ask # "asked" => \E g \in Range(c) : g.ev.kind = "text" /\ ~g.ask)
  <2> DEFINE tx == Text(i, m, "working")
  <2>1. /\ tx \in Seq(Gifts(i, m))
        /\ Shown(m) /\ m.ask # "asked" => \E g \in Range(tx) : g.ev.kind = "text" /\ ~g.ask
    BY <1>6, TextGifts
  <2>2. (asks => c = tx) /\ (~asks => c = <<>>)
    OBVIOUS
  <2>3. <<>> \in Seq(Gifts(i, m))
    OBVIOUS
  <2> HIDE DEF tx, c, asks
  <2>4. CASE asks
    BY <2>1, <2>2, <2>4
  <2>5. CASE ~asks
    BY <2>2, <2>3, <2>5
  <2> QED
    BY <2>4, <2>5
<1>11. asks \/ m.text = w.text
  OBVIOUS
<1>12. Id = w.stream
  BY <1>0
<1> HIDE DEF a, b, c, asks
<1>13. gs \in Seq(Gifts(i, m)) /\ Range(gs) = (Range(a) \cup Range(b)) \cup Range(c)
  <2>1. a \o b \in Seq(Gifts(i, m)) /\ Range(a \o b) = Range(a) \cup Range(b)
    BY <1>8, <1>9, GiftsConcat
  <2> DEFINE ab == a \o b
  <2> HIDE DEF ab
  <2>2. ab \in Seq(Gifts(i, m)) /\ Range(ab) = Range(a) \cup Range(b)
    BY <2>1 DEF ab
  <2>3. ab \o c \in Seq(Gifts(i, m)) /\ Range(ab \o c) = Range(ab) \cup Range(c)
    BY <1>10, <2>2, GiftsConcat
  <2>4. gs = ab \o c
    BY DEF ab
  <2> HIDE DEF gs
  <2> QED
    BY <2>2, <2>3, <2>4
<1> HIDE DEF gs
<1>14. m.text > 0 => Shown(m)
  BY DEF Shown
<1> QED
  BY <1>0, <1>3, <1>4, <1>5, <1>7, <1>8, <1>10, <1>11, <1>13, <1>14, GivenInv DEF Inv, sb

(* Another message is the last.                                              *)
LEMMA PollNewInv ==
  ASSUME Inv, PollNew
  PROVE  Inv'
<1>0. Sound /\ Lasting /\ PollOver /\ poll.pc = "emit"
  BY DEF Inv, PollNew, Lasting
<1> DEFINE sb == IF M.sub THEN w.subs \cup {Id} ELSE w.subs
           tl == HasTool(M)
<1>1. /\ w \in WatcherStates /\ M.text \in 0..MaxText /\ tl \in BOOLEAN /\ sb \in SUBSET Messages /\ Id \in Ids
  BY <1>0, NotedStates
<1>2. w' = [w EXCEPT !.stream = Id, !.text = M.text, !.tool = tl, !.subs = sb]
  BY DEF PollNew
<1> HIDE DEF sb, tl
<1>3. w' \in WatcherStates /\ w'.sess = w.sess /\ w'.last = w.last /\ w'.stream = Id /\ w'.text = M.text /\ w'.subs = sb
  BY <1>1, <1>2 DEF WatcherStates
<1>4. PICK i : i = Id
  OBVIOUS
<1>5. PICK m : m = M
  OBVIOUS
<1>6. i \in Messages /\ Sane(m) /\ "working" \in Statuses
  BY <1>0, <1>4, <1>5, Heads DEF Statuses
<1> DEFINE a == Subs(i, m, "working")
           tx == Text(i, m, "working")
           nt == <<Given(i, "text", m, "working")>>
           c == IF Shown(m) THEN tx ELSE IF m.role = "assistant" THEN nt ELSE <<>>
           gs == a \o c
<1>7. Calls(gs)
  BY <1>4, <1>5 DEF PollNew
<1>8. a \in Seq(Gifts(i, m)) /\ (Pending(i, m) => \E g \in Range(a) : g.ev.kind = "sub")
  BY <1>6, SubsGifts
<1>9. /\ tx \in Seq(Gifts(i, m)) /\ nt \in Seq(Gifts(i, m))
      /\ Shown(m) /\ m.ask # "asked" => \E g \in Range(tx) : g.ev.kind = "text" /\ ~g.ask
  BY <1>6, TextGifts, NoticeGifts
<1> HIDE DEF a, tx, nt
<1>10. c \in {tx, nt, <<>>} /\ (Shown(m) => c = tx)
  OBVIOUS
<1> HIDE DEF c
<1>11. c \in Seq(Gifts(i, m)) /\ (Shown(m) /\ m.ask # "asked" => \E g \in Range(c) : g.ev.kind = "text" /\ ~g.ask)
  <2>1. <<>> \in Seq(Gifts(i, m))
    OBVIOUS
  <2>2. c \in Seq(Gifts(i, m))
    BY <1>9, <1>10, <2>1
  <2> QED
    BY <1>9, <1>10, <2>2
<1>12. gs \in Seq(Gifts(i, m)) /\ Range(gs) = Range(a) \cup Range(c)
  BY <1>8, <1>11, GiftsConcat
<1> HIDE DEF gs
<1>13. m.text > 0 => Shown(m)
  BY DEF Shown
<1> QED
  BY <1>0, <1>3, <1>4, <1>5, <1>7, <1>8, <1>11, <1>12, <1>13, GivenInv DEF Inv, sb

(* What remains after the first message.                                     *)
LEMMA Tails ==
  ASSUME Sound, poll.pc = "emit", Len(poll.ids) > 1, poll' = [poll EXCEPT !.ids = Tail(@), !.msgs = Tail(@)]
  PROVE  /\ poll' \in [pc : {"idle", "parts", "emit"}, ids : Seq(Messages), msgs : Seq(Message)]
         /\ poll'.pc = "emit" /\ Len(poll'.ids) = Len(poll.ids) - 1 /\ Len(poll'.msgs) = Len(poll.ids) - 1
         /\ DOMAIN poll'.ids = 1..Len(poll.ids) - 1
         /\ \A k \in 1..Len(poll.ids) - 1 : poll'.ids[k] = poll.ids[k + 1] /\ poll'.msgs[k] = poll.msgs[k + 1]
         /\ Rising(poll'.ids) /\ Due' = {j \in Due : j > Id} /\ Final' = Final /\ Final > Id
<1>1. /\ poll.ids \in Seq(Messages) /\ poll.msgs \in Seq(Message) /\ Len(poll.ids) \in Nat
      /\ DOMAIN poll.ids = 1..Len(poll.ids) /\ Due \subseteq 1..N /\ N \in Nat
      /\ \A k \in 1..Len(poll.ids) : poll.ids[k] \in Due
  BY Ranges
<1>2. /\ Len(poll.msgs) = Len(poll.ids) /\ Rising(poll.ids) /\ Id = poll.ids[1] /\ \A j \in Due : j >= Id
  BY Heads DEF Sound, PollShape
<1>3. poll \in [pc : {"idle", "parts", "emit"}, ids : Seq(Messages), msgs : Seq(Message)]
  BY DEF Sound, TypeOK
<1> DEFINE n == Len(poll.ids)
           p == poll.ids
           q == poll.msgs
<1>4. poll' = [pc |-> "emit", ids |-> Tail(p), msgs |-> Tail(q)]
  BY <1>3
<1>5. poll'.pc = "emit" /\ poll'.ids = Tail(p) /\ poll'.msgs = Tail(q)
  BY <1>4
<1>6. /\ n \in Nat /\ n > 1 /\ p # <<>> /\ q # <<>> /\ Len(q) = n
      /\ p \in Seq(Messages) /\ q \in Seq(Message) /\ DOMAIN p = 1..n
      /\ \A k \in 1..n : p[k] \in 1..N
  BY <1>1, <1>2
<1>7. /\ \A j \in Due : \E k \in 1..n : j = p[k]
      /\ \A x, y \in 1..n : x < y => p[x] < p[y]
      /\ Id = p[1] /\ \A k \in 1..n : p[k] \in Due
  BY <1>1, <1>2 DEF Due, Range, Rising
<1>8. Due' = Range(Tail(p)) /\ Final' = Tail(p)[Len(Tail(p))] /\ Final = p[n]
  BY <1>5 DEF Due, Final
<1> HIDE DEF n, p, q
<1>9. /\ Tail(p) \in Seq(Messages) /\ Len(Tail(p)) = n - 1 /\ \A k \in 1..n - 1 : Tail(p)[k] = p[k + 1]
  BY <1>6, HeadTailProperties
<1>10. /\ Tail(q) \in Seq(Message) /\ Len(Tail(q)) = n - 1 /\ \A k \in 1..n - 1 : Tail(q)[k] = q[k + 1]
  BY <1>6, HeadTailProperties
<1>11. DOMAIN Tail(p) = 1..n - 1
  BY <1>9
<1>12. Rising(Tail(p))
  <2> SUFFICES ASSUME NEW x \in 1..n - 1, NEW y \in 1..n - 1, x < y PROVE Tail(p)[x] < Tail(p)[y]
    BY <1>11 DEF Rising
  <2>1. x + 1 \in 1..n /\ y + 1 \in 1..n /\ x + 1 < y + 1
    BY <1>6
  <2> QED
    BY <1>7, <1>9, <2>1
<1>13. ASSUME NEW k \in 1..n - 1 PROVE Tail(p)[k] \in Due /\ Tail(p)[k] > Id
  <2>1. k + 1 \in 1..n /\ 1 \in 1..n /\ 1 < k + 1
    BY <1>6
  <2>2. p[1] < p[k + 1] /\ p[1] \in 1..N /\ p[k + 1] \in 1..N
    BY <1>6, <1>7, <2>1
  <2> QED
    BY <1>7, <1>9, <2>1, <2>2
<1>14. ASSUME NEW j \in Due, j > Id PROVE \E k \in 1..n - 1 : j = Tail(p)[k]
  <2>1. PICK k \in 1..n : j = p[k]
    BY <1>7
  <2>2. k # 1
    <3>1. Id \in 1..N /\ 1 \in 1..n
      BY <1>6, <1>7
    <3> QED
      BY <1>7, <1>14, <2>1, <3>1
  <2>3. k - 1 \in 1..n - 1 /\ Tail(p)[k - 1] = p[k]
    BY <1>6, <1>9, <2>2
  <2> QED
    BY <2>1, <2>3
<1>15. Range(Tail(p)) = {j \in Due : j > Id}
  <2>1. Range(Tail(p)) \subseteq {j \in Due : j > Id}
    BY <1>11, <1>13 DEF Range
  <2>2. {j \in Due : j > Id} \subseteq Range(Tail(p))
    BY <1>11, <1>14 DEF Range
  <2> QED
    BY <2>1, <2>2
<1>16. Tail(p)[n - 1] = p[n]
  <2>1. n - 1 \in 1..n - 1 /\ (n - 1) + 1 = n
    BY <1>6
  <2> QED
    BY <1>9, <2>1
<1>17. Final > Id
  <2>1. n \in 1..n /\ 1 \in 1..n /\ 1 < n
    BY <1>6
  <2>2. p[1] < p[n] /\ p[1] \in 1..N /\ p[n] \in 1..N
    BY <1>6, <1>7, <2>1
  <2> QED
    BY <1>7, <1>8, <2>2
<1> QED
  BY <1>4, <1>5, <1>8, <1>9, <1>10, <1>11, <1>12, <1>15, <1>16, <1>17 DEF n, p, q

(* A message with a later one is done.                                       *)
LEMMA PollCompleteInv ==
  ASSUME Inv, PollComplete
  PROVE  Inv'
<1>0. Sound /\ Clean /\ poll.pc = "emit" /\ Len(poll.ids) > 1
  BY DEF Inv, PollComplete
<1>1. /\ db' = db /\ latest' = latest /\ clearing' = clearing /\ base' = base /\ missed' = missed
      /\ raced' = raced /\ dirty' = dirty /\ spent' = spent
      /\ poll' = [poll EXCEPT !.ids = Tail(@), !.msgs = Tail(@)]
  BY DEF PollComplete
<1> DEFINE sb == IF M.sub THEN w.subs \cup {Id} ELSE w.subs
<1>2. w \in WatcherStates /\ sb \in SUBSET Messages /\ Id \in Ids /\ None \in Ids /\ 0 \in 0..MaxText
  BY <1>0, NotedStates
<1>3. w' \in {[[w EXCEPT !.stream = None, !.text = 0, !.tool = FALSE] EXCEPT !.last = Id, !.subs = sb],
              [w EXCEPT !.last = Id, !.subs = sb]}
      /\ (Id # w.stream => w' = [w EXCEPT !.last = Id, !.subs = sb])
      /\ (Id = w.stream => w' = [[w EXCEPT !.stream = None, !.text = 0, !.tool = FALSE] EXCEPT !.last = Id, !.subs = sb])
  BY DEF PollComplete, Unstreamed, Id, M
<1> HIDE DEF sb
<1>4. /\ w' \in WatcherStates /\ w'.sess = w.sess /\ w'.last = Id /\ w'.subs = sb
      /\ w'.stream \in {None, w.stream}
      /\ (w'.stream # None => w'.text = w.text /\ w.stream # None /\ w'.stream = w.stream /\ Id # w.stream)
  <2>1. CASE Id # w.stream
    BY <1>2, <1>3, <2>1 DEF WatcherStates
  <2>2. CASE Id = w.stream
    <3> DEFINE v == [w EXCEPT !.stream = None, !.text = 0, !.tool = FALSE]
    <3>1. v \in WatcherStates /\ v.sess = w.sess /\ v.stream = None
      BY <1>2 DEF WatcherStates
    <3>2. w' = [v EXCEPT !.last = Id, !.subs = sb]
      BY <1>3, <2>2
    <3> HIDE DEF v
    <3> QED
      BY <1>2, <3>1, <3>2 DEF WatcherStates
  <2> QED
    BY <2>1, <2>2
<1>5. PICK i : i = Id
  OBVIOUS
<1>6. PICK m : m = M
  OBVIOUS
<1>7. /\ i \in 1..N /\ i \in Messages /\ Sane(m) /\ Grows(m, Msg(i)) /\ i \in Due /\ Final \in Due
  BY <1>0, <1>5, <1>6, Heads
<1> DEFINE st == IF HasTool(m) THEN "working" ELSE "idle"
           a == Subs(i, m, "idle")
           c == Text(i, m, st)
           gs == a \o c
<1>8. Calls(gs)
  BY <1>5, <1>6 DEF PollComplete, Id, M
<1>9. "idle" \in Statuses /\ st \in Statuses
  BY DEF Statuses
<1> HIDE DEF st
<1>10. a \in Seq(Gifts(i, m)) /\ (Pending(i, m) => \E g \in Range(a) : g.ev.kind = "sub")
  BY <1>7, <1>9, SubsGifts
<1>11. c \in Seq(Gifts(i, m)) /\ (Shown(m) /\ m.ask # "asked" => \E g \in Range(c) : g.ev.kind = "text" /\ ~g.ask)
  BY <1>7, <1>9, TextGifts
<1> HIDE DEF a, c
<1>12. gs \in Seq(Gifts(i, m)) /\ Range(gs) = Range(a) \cup Range(c)
  BY <1>10, <1>11, GiftsConcat
<1> HIDE DEF gs
<1>13. /\ buf' \in Seq(Events) /\ status' \in Statuses /\ After(buf, buf', i, m)
       /\ \A g \in Range(gs) : Taken(g, buf', i, m)
  BY <1>0, <1>5, <1>6, <1>8, <1>12, EmitAfter
<1>14. /\ poll' \in [pc : {"idle", "parts", "emit"}, ids : Seq(Messages), msgs : Seq(Message)]
       /\ poll'.pc = "emit" /\ Len(poll'.ids) = Len(poll.ids) - 1 /\ Len(poll'.msgs) = Len(poll.ids) - 1
       /\ DOMAIN poll'.ids = 1..Len(poll.ids) - 1
       /\ \A k \in 1..Len(poll.ids) - 1 : poll'.ids[k] = poll.ids[k + 1] /\ poll'.msgs[k] = poll.msgs[k + 1]
       /\ Rising(poll'.ids) /\ Due' = {j \in Due : j > i} /\ Final' = Final /\ Final > i
  BY <1>0, <1>1, <1>5, Tails
<1>15. /\ N \in Nat /\ w.last \in 0..N /\ w.stream \in 0..N /\ base \in 0..N /\ Due \subseteq 1..N
       /\ Len(poll.ids) \in Nat /\ DOMAIN poll.ids = 1..Len(poll.ids) /\ \A e \in Range(buf) : e.id \in 0..N
  BY <1>0, Ranges
<1>16. N' = N /\ (\A j : Msg(j)' = Msg(j)) /\ (\A j : Gone(j)' = Gone(j))
  BY <1>1, <1>4 DEF N, Msg, Gone, Count
<1>17. \A e \in Range(buf') : e \in Range(buf) \/ e.id = i
  BY <1>13 DEF After, Of
<1>18. Sound'
  <2>1. TypeOK'
    <3>1. w' \in [sess : 1..latest', last : Ids, stream : Ids, text : 0..MaxText, tool : BOOLEAN,
                  same : 0..Patience, subs : SUBSET Messages, due : BOOLEAN]
      BY <1>1, <1>4 DEF WatcherStates
    <3>2. buf' \in Seq([id : Ids, kind : {"sub", "text", "ask"}, role : {"user", "assistant"}, text : 0..MaxText])
      BY <1>13 DEF Events
    <3> QED
      BY <1>0, <1>1, <1>13, <1>14, <3>1, <3>2 DEF Sound, TypeOK, Count, Statuses
  <2>2. DbSane'
    BY <1>0, <1>1 DEF Sound, DbSane
  <2>3. Within'
    <3>1. \A e \in Range(buf') : e.id <= N
      BY <1>7, <1>15, <1>17
    <3>2. w'.stream <= N /\ w'.last <= N
      BY <1>4, <1>5, <1>7, <1>15 DEF None
    <3>3. \A j \in Due' : j <= N
      BY <1>14, <1>15
    <3> QED
      BY <1>0, <1>1, <1>16, <3>1, <3>2, <3>3 DEF Sound, Within
  <2>4. PollShape'
    <3>1. Len(poll'.ids) > 0 /\ poll'.ids # <<>>
      BY <1>0, <1>14, <1>15
    <3>2. ASSUME NEW k \in DOMAIN poll'.ids PROVE Sane(poll'.msgs[k]) /\ Grows(poll'.msgs[k], Msg(poll.ids[k])')
      <4>1. k + 1 \in DOMAIN poll.ids /\ k \in 1..Len(poll.ids) - 1
        BY <1>14, <1>15
      <4>2. Sane(poll.msgs[k + 1]) /\ Grows(poll.msgs[k + 1], Msg(poll.ids[k + 1]))
        BY <1>0, <4>1 DEF Sound, PollShape
      <4> QED
        BY <1>14, <1>16, <4>1, <4>2
    <3> QED
      BY <1>14, <3>1, <3>2 DEF PollShape
  <2>5. Keyed(buf)' /\ UserText(buf)'
    <3>1. Keyed(buf') /\ UserText(buf')
      BY <1>0, <1>13 DEF Sound, After
    <3> QED
      BY <3>1 DEF Keyed, UserText
  <2> QED
    BY <2>1, <2>2, <2>3, <2>4, <2>5 DEF Sound
<1>19. Clean'
  <2> SUFFICES ASSUME ~raced PROVE Clean'
    BY <1>1 DEF Clean
  <2>1. /\ ~clearing /\ \A e \in Range(buf) : e.id = None \/ e.id > base
        /\ (w.stream # None => w.stream > base) /\ \A j \in Due : j > base
    BY <1>0 DEF Clean
  <2>2. i > base /\ \A e \in Range(buf') : e.id = None \/ e.id > base
    BY <1>7, <1>17, <2>1
  <2>3. i >= base
    BY <1>7, <1>15, <2>2
  <2> QED
    BY <1>1, <1>4, <1>5, <1>14, <2>1, <2>2, <2>3 DEF Clean
<1>20. ASSUME Quiet PROVE Faithful'
  <2>1. Faithful
    BY <1>20 DEF Inv
  <2>2. Keeps(i, m)
    BY <1>0, <1>1, <1>4, <1>5, <1>6, <1>13, <1>20, AfterKeeps
  <2>3. /\ i > w.last /\ (w.stream # None => i >= w.stream) /\ i > base
        /\ \A j \in w.last + 1 .. i - 1 : Gone(j)
        /\ ~Gone(i) => m = Msg(i)
    BY <1>0, <1>5, <1>6, <1>20, HeadsQuiet
  <2>4. Ahead'
    <3>1. i < N
      BY <1>7, <1>14, <1>15
    <3>2. \A j \in Due' : j > i /\ (w'.stream # None => j >= w'.stream)
      BY <1>4, <1>7, <1>14, <1>15, <2>3
    <3>3. w'.stream # None => w'.stream < i
      BY <1>4, <1>5, <1>7, <1>15, <2>3
    <3>4. w'.stream # None => \A j \in i + 1 .. w'.stream - 1 : Gone(j)
      BY <1>4, <1>7, <1>15, <3>3
    <3> QED
      BY <1>4, <1>5, <1>14, <1>16, <3>1, <3>2, <3>4 DEF Ahead
  <2>5. AllRead'
    <3>1. ASSUME NEW j \in i + 1 .. Final PROVE j \in Due' \/ Gone(j)
      <4>1. j \in w.last + 1 .. Final /\ j > i
        BY <1>7, <1>15, <2>3
      <4>2. j \in Due \/ Gone(j)
        BY <1>0, <2>1, <4>1 DEF Faithful, AllRead
      <4> QED
        BY <1>14, <4>1, <4>2
    <3>2. ~dirty => Final = N
      BY <1>0, <2>1 DEF Faithful, AllRead
    <3> QED
      BY <1>1, <1>4, <1>5, <1>14, <1>16, <3>1, <3>2 DEF AllRead
  <2>6. AsRead'
    <3>1. ASSUME NEW k \in DOMAIN poll'.ids, NEW j \in 1..N, j = poll'.ids[k], ~Gone(j),
                 k < Len(poll'.ids) \/ ~dirty \/ \E e \in Range(buf') : e.id > j
          PROVE  poll'.msgs[k] = Msg(j)
      <4>1. /\ k \in 1..Len(poll.ids) - 1 /\ k + 1 \in DOMAIN poll.ids /\ j = poll.ids[k + 1]
            /\ (k < Len(poll'.ids) => k + 1 < Len(poll.ids))
        <5>1. k \in 1..Len(poll.ids) - 1
          BY <1>14
        <5>2. k + 1 \in 1..Len(poll.ids)
          BY <1>15, <5>1
        <5>3. j = poll.ids[k + 1]
          BY <1>14, <3>1, <5>1
        <5>4. k < Len(poll'.ids) => k + 1 < Len(poll.ids)
          BY <1>14, <1>15, <5>1
        <5> QED
          BY <1>15, <5>1, <5>2, <5>3, <5>4
      <4>2. j > i
        <5>1. j \in Due'
          BY <3>1 DEF Due, Range
        <5> QED
          BY <1>14, <5>1
      <4>3. \A e \in Range(buf') : e.id > j => e \in Range(buf)
        BY <1>7, <1>17, <4>2
      <4>4. poll.msgs[k + 1] = Msg(j)
        BY <1>0, <2>1, <3>1, <4>1, <4>3 DEF Faithful, AsRead
      <4> QED
        BY <1>14, <4>1, <4>4
    <3> QED
      BY <1>1, <1>16, <3>1 DEF AsRead
  <2>7. ASSUME m.sub PROVE HasSub(buf, i)'
    <3>1. CASE Pending(i, m)
      <4>1. HasSub(buf', i)
        BY <1>10, <1>12, <1>13, <3>1 DEF Taken
      <4> QED
        BY <4>1 DEF HasSub
    <3>2. CASE ~Pending(i, m)
      <4>1. HasSub(buf, i)
        BY <2>1, <2>7, <3>2 DEF Pending, Faithful, DoneShown
      <4> QED
        BY <2>2, <4>1 DEF Keeps
    <3> QED
      BY <3>1, <3>2
  <2>8. DoneShown'
    <3>1. \A j \in w'.subs : HasSub(buf, j)'
      <4>1. \A j \in w.subs : HasSub(buf, j)'
        BY <2>1, <2>2 DEF Faithful, DoneShown, Keeps
      <4> QED
        BY <1>4, <1>5, <1>6, <2>7, <4>1 DEF sb
    <3>2. ASSUME ~Gone(i) PROVE Shows(i)'
      <4>1. m = Msg(i) /\ Msg(i)' = m
        BY <1>16, <2>3, <3>2
      <4>2. ASSUME m.text > 0, m.ask # "asked", NEW t, t = m.text PROVE Told(i, t)'
        <5>1. Shown(m)
          BY <4>2 DEF Shown
        <5>2. Said(buf', i, m)
          BY <1>11, <1>12, <1>13, <4>2, <5>1 DEF Taken
        <5> QED
          BY <2>2, <3>2, <4>2, <5>2 DEF Keeps
      <4> QED
        BY <2>7, <4>1, <4>2 DEF Shows
    <3>3. ASSUME NEW j \in 1..i, ~Gone(j) PROVE Shows(j)'
      <4>1. CASE j <= w.last
        BY <1>15, <2>2, <3>3, <4>1 DEF Keeps
      <4>2. CASE j > w.last /\ j < i
        BY <1>7, <1>15, <2>3, <3>3, <4>2
      <4>3. CASE j = i
        BY <3>2, <3>3, <4>3
      <4> QED
        BY <1>7, <1>15, <4>1, <4>2, <4>3
    <3>4. \A j \in 1..N : j = w'.stream /\ w'.text > 0 /\ ~Gone(j) /\ Msg(j).ask # "asked" => Told(j, w.text)'
      <4> SUFFICES ASSUME NEW j \in 1..N, j = w'.stream, w'.text > 0, ~Gone(j), Msg(j).ask # "asked"
                   PROVE  Told(j, w.text)'
        OBVIOUS
      <4>1. w'.stream # None
        BY <1>15 DEF None
      <4>2. j = w.stream /\ j < i /\ w'.text = w.text
        BY <1>4, <1>5, <1>7, <1>15, <2>3, <4>1
      <4>3. Told(j, w.text)
        BY <2>1, <4>2 DEF Faithful, DoneShown
      <4>4. \A t : Told(j, t) => Told(j, t)'
        BY <2>2, <4>2 DEF Keeps
      <4> QED
        BY <4>2, <4>3, <4>4
    <3> QED
      BY <1>4, <1>5, <1>16, <3>1, <3>3, <3>4 DEF DoneShown
  <2>9. Reread'
    <3> SUFFICES ASSUME NEW e \in Range(buf'), NEW j \in i + 1 .. e.id - 1, ~Gone(j),
                        Msg(j).role = "user", Msg(j).text > 0
                 PROVE  OwnText(j, Msg(j).text)'
      BY <1>4, <1>5, <1>16 DEF Reread
    <3>1. e.id \in 1..N
      BY <1>7, <1>15, <1>17
    <3>2. j \in w.last + 1 .. e.id - 1
      BY <1>7, <1>15, <2>3, <3>1
    <3>3. \A t : t = Msg(j).text => OwnText(j, t)'
      BY <2>2, <3>2 DEF Keeps
    <3> QED
      BY <1>16, <3>3
  <2>10. AllShown'
    BY <1>14 DEF AllShown
  <2> QED
    BY <2>4, <2>5, <2>6, <2>8, <2>9, <2>10 DEF Faithful
<1>21. Quiet' = Quiet
  BY <1>1 DEF Quiet
<1> QED
  BY <1>18, <1>19, <1>20, <1>21 DEF Inv

-----------------------------------------------------------------------------
(* The theorems.                                                             *)

(* At the start the watcher has read, and the buffer holds, nothing.         *)
LEMMA InitInv ==
  ASSUME Init
  PROVE  Inv
<1>1. PICK m \in {<<>>, <<New("user")>>, <<[New("assistant") EXCEPT !.text = 1]>>} :
          db = [s \in Sessions |-> IF s = 1 THEN m ELSE <<>>]
  BY DEF Init
<1>2. /\ latest = 1 /\ w = Seeded(1, Count(1)) /\ base = Count(1) /\ poll = Idle /\ buf = <<>> /\ status = "idle"
      /\ clearing = FALSE /\ missed = {} /\ raced = FALSE /\ dirty = FALSE
      /\ spent = [writes |-> 0, clears |-> 0, fails |-> 0, sends |-> 0, answers |-> 0]
  BY DEF Init
<1>3. /\ MaxMessages \in Nat \ {0} /\ Messages = 1..MaxMessages /\ Sessions = 1..MaxSessions /\ MaxSessions \in Nat \ {0}
      /\ MaxText \in Nat \ {0} /\ Patience \in Nat
  BY WatchAssumption DEF Sessions, Messages
<1>4. Sane(New("user")) /\ Sane([New("assistant") EXCEPT !.text = 1])
  <2> DEFINE x == New("user")
             y == New("assistant")
             z == [New("assistant") EXCEPT !.text = 1]
  <2>1. /\ x = [role |-> "user", text |-> 0, sub |-> FALSE, ask |-> "no"]
        /\ y = [role |-> "assistant", text |-> 0, sub |-> FALSE, ask |-> "no"]
    BY DEF New
  <2>2. z = [y EXCEPT !.text = 1]
    OBVIOUS
  <2> HIDE DEF x, y, z
  <2>3. z = [role |-> "assistant", text |-> 1, sub |-> FALSE, ask |-> "no"]
    BY <2>1, <2>2
  <2>4. 0 \in 0..MaxText /\ 1 \in 0..MaxText
    BY <1>3
  <2>5. x \in Message /\ z \in Message
    BY <2>1, <2>3, <2>4 DEF Message
  <2>6. Sane(x) /\ Sane(z)
    BY <2>1, <2>3, <2>5 DEF Sane
  <2> QED
    BY <2>6 DEF x, z
<1> DEFINE a == New("user")
           c == [New("assistant") EXCEPT !.text = 1]
<1> HIDE DEF a, c
<1>5. m \in Seq(Message) /\ Len(m) \in 0..1 /\ \A i \in DOMAIN m : Sane(m[i])
  <2>1. a \in Message /\ c \in Message /\ Sane(a) /\ Sane(c)
    BY <1>4 DEF a, c, Sane
  <2>2. m \in {<<>>, <<a>>, <<c>>}
    BY DEF a, c
  <2>3. CASE m = <<>>
    BY <2>3
  <2>4. CASE m = <<a>>
    BY <2>1, <2>4
  <2>5. CASE m = <<c>>
    BY <2>1, <2>5
  <2> QED
    BY <2>2, <2>3, <2>4, <2>5
<1>6. 1 \in Sessions /\ db[1] = m /\ \A s \in Sessions : s # 1 => db[s] = <<>>
  BY <1>1, <1>3
<1>7. db \in [Sessions -> Seq(Message)] /\ \A s \in Sessions : Count(s) <= MaxMessages
  BY <1>1, <1>3, <1>5 DEF Count
<1> DEFINE n == Count(1)
<1>8. n \in Nat /\ n <= MaxMessages /\ n = Len(m)
  BY <1>3, <1>5, <1>6 DEF Count
<1> HIDE DEF n
<1>9. w = [sess |-> 1, last |-> n, stream |-> None, text |-> 0, tool |-> FALSE, same |-> 0, subs |-> {}, due |-> TRUE]
  BY <1>2 DEF Seeded, n
<1>10. base = n /\ w.sess = 1 /\ w.last = n /\ w.stream = None /\ w.subs = {} /\ w.text = 0
  BY <1>2, <1>9 DEF n
<1>11. N = n /\ poll.ids = <<>> /\ poll.pc = "idle" /\ Range(<<>>) = {}
  BY <1>2, <1>10 DEF N, n, Idle, Range
<1>12. Due = {} /\ Range(buf) = {}
  BY <1>2, <1>11 DEF Due
<1>13. TypeOK
  <2>1. n \in Ids /\ None \in Ids
    BY <1>3, <1>8 DEF Ids, None
  <2>2. w \in [sess : 1..latest, last : Ids, stream : Ids, text : 0..MaxText, tool : BOOLEAN,
               same : 0..Patience, subs : SUBSET Messages, due : BOOLEAN]
    <3>1. 1 \in 1..latest /\ 0 \in 0..MaxText /\ 0 \in 0..Patience /\ {} \in SUBSET Messages
      BY <1>2, <1>3
    <3> QED
      BY <1>9, <2>1, <3>1
  <2>3. poll \in [pc : {"idle", "parts", "emit"}, ids : Seq(Messages), msgs : Seq(Message)]
    BY <1>2 DEF Idle
  <2>4. buf \in Seq([id : Ids, kind : {"sub", "text", "ask"}, role : {"user", "assistant"}, text : 0..MaxText])
    BY <1>2
  <2>5. latest \in Sessions /\ base \in Ids /\ {clearing, raced, dirty} \subseteq BOOLEAN
        /\ missed \subseteq Sessions \X Messages /\ spent \in [writes : Nat, clears : Nat, fails : Nat, sends : Nat, answers : Nat]
    BY <1>2, <1>6, <1>10, <2>1
  <2> QED
    BY <1>2, <1>7, <2>2, <2>3, <2>4, <2>5 DEF TypeOK
<1>14. DbSane
  <2>1. \A s \in Sessions : \A i \in DOMAIN db[s] : Sane(db[s][i])
    <3>1. \A i \in DOMAIN <<>> : Sane(<<>>[i])
      OBVIOUS
    <3> QED
      BY <1>5, <1>6, <3>1
  <2> QED
    BY <1>2, <1>3, <1>6, <2>1 DEF DbSane
<1>15. Within
  BY <1>8, <1>10, <1>11, <1>12 DEF Within, None
<1>16. PollShape
  BY <1>2, <1>11 DEF PollShape, Rising
<1>17. Keyed(buf) /\ UserText(buf)
  BY <1>2, <1>12 DEF Keyed, UserText
<1>18. Clean
  BY <1>2, <1>8, <1>10, <1>12 DEF Clean
<1>19. \A i \in 1..N : Gone(i)
  BY <1>8, <1>10, <1>11 DEF Gone
<1>20. Ahead /\ AllRead /\ AsRead /\ DoneShown /\ Reread /\ AllShown
  <2>1. Ahead
    BY <1>8, <1>10, <1>11, <1>12 DEF Ahead
  <2>2. AllRead /\ AsRead
    BY <1>11 DEF AllRead, AsRead
  <2>3. DoneShown
    BY <1>10, <1>11, <1>19 DEF DoneShown
  <2>4. Reread
    BY <1>12 DEF Reread
  <2>5. AllShown
    BY <1>19 DEF AllShown
  <2> QED
    BY <2>1, <2>2, <2>3, <2>4, <2>5
<1> QED
  BY <1>13, <1>14, <1>15, <1>16, <1>17, <1>18, <1>20 DEF Inv, Sound, Faithful

(* A step that changes nothing keeps the invariant.                          *)
LEMMA StutterInv ==
  ASSUME Inv, UNCHANGED vars
  PROVE  Inv'
<1>1. /\ db' = db /\ latest' = latest /\ w' = w /\ poll' = poll /\ buf' = buf /\ status' = status
      /\ clearing' = clearing /\ base' = base /\ missed' = missed /\ raced' = raced /\ dirty' = dirty /\ spent' = spent
  BY DEF vars
<1>2. Sound'
  BY <1>1 DEF Inv, Sound, TypeOK, Count, DbSane, Within, N, Due, PollShape, Msg, Keyed, UserText
<1>3. Clean'
  BY <1>1 DEF Inv, Clean, Due
<1>4. Quiet => Faithful
  BY DEF Inv
<1>5. N' = N /\ (\A i : Msg(i)' = Msg(i)) /\ (\A i : Gone(i)' = Gone(i)) /\ Due' = Due /\ Final' = Final /\ From(w)' = From(w)
  BY <1>1 DEF N, Msg, Gone, Count, Due, Final, From
<1>6. \A i, t : (OwnText(i, t)' <=> OwnText(i, t)) /\ (Told(i, t)' <=> Told(i, t)) /\ (HasSub(buf, i)' <=> HasSub(buf, i))
  BY <1>1, <1>5 DEF OwnText, Told, HasSub
<1>7. \A i : Shows(i)' <=> Shows(i)
  BY <1>5, <1>6 DEF Shows
<1>8. Ahead' = Ahead /\ AllRead' = AllRead /\ AsRead' = AsRead
  BY <1>1, <1>5 DEF Ahead, AllRead, AsRead
<1>9. DoneShown => DoneShown'
  BY <1>1, <1>5, <1>6, <1>7 DEF DoneShown
<1>10. Reread => Reread'
  BY <1>1, <1>5, <1>6 DEF Reread
<1>11. AllShown => AllShown'
  BY <1>1, <1>5, <1>7 DEF AllShown
<1>12. Quiet' = Quiet
  BY <1>1 DEF Quiet
<1> QED
  BY <1>2, <1>3, <1>4, <1>8, <1>9, <1>10, <1>11, <1>12 DEF Inv, Faithful

(* The invariant is inductive.                                               *)
LEMMA Inductive == Spec => []Inv
<1>1. Init => Inv
  BY InitInv
<1>2. Inv /\ [Next]_vars => Inv'
  <2> SUFFICES ASSUME Inv, [Next]_vars PROVE Inv'
    OBVIOUS
  <2>1. CASE OpenCode
    BY <2>1, OpenCodeWrites, WritesInv DEF Inv
  <2>2. CASE PollStart
    BY <2>2, SwitchInv, LookInv
  <2>3. CASE PollParts
    BY <2>3, PartsInv
  <2>4. CASE PollComplete
    BY <2>4, PollCompleteInv
  <2>5. CASE PollSame
    BY <2>5, PollSameInv
  <2>6. CASE PollGrown
    BY <2>6, PollGrownInv
  <2>7. CASE PollNew
    BY <2>7, PollNewInv
  <2>8. CASE ClearBuffer
    BY <2>8, ClearBufferInv
  <2>9. CASE ResetOffset
    BY <2>9, ResetOffsetInv
  <2>10. CASE Sent
    BY <2>10, SentInv
  <2>11. CASE UNCHANGED vars
    BY <2>11, StutterInv
  <2> QED
    BY <2>1, <2>2, <2>3, <2>4, <2>5, <2>6, <2>7, <2>8, <2>9, <2>10, <2>11 DEF Next, Poll, Clear
<1> QED
  BY <1>1, <1>2, PTL DEF Spec

(* Everything keeps its type.                                                *)
THEOREM TypeCorrect == Spec => []TypeOK
<1>1. Inv => TypeOK
  BY DEF Inv, Sound
<1> QED
  BY <1>1, Inductive, PTL

(* What was there when the user cleared does not come back, unless a poll    *)
(* was under way.                                                            *)
THEOREM ClearedStaysAway == Spec => []ClearedStaysCleared
<1>1. Inv => ClearedStaysCleared
  <2> SUFFICES ASSUME Inv, ~clearing, ~raced, NEW i \in DOMAIN buf PROVE buf[i].id = None \/ buf[i].id > base
    BY DEF ClearedStaysCleared
  <2>1. buf[i] \in Range(buf)
    BY DEF Range
  <2> QED
    BY <2>1 DEF Inv, Clean
<1> QED
  BY <1>1, Inductive, PTL

(* Between polls, if nothing was written since the last one began, the buffer *)
(* holds what the database says of every message that is looked at.           *)
THEOREM EverythingIsShown == Spec => []NothingMissed
<1>1. Inv => NothingMissed
  <2> SUFFICES ASSUME Inv PROVE NothingMissed
    OBVIOUS
  <2>1. TypeOK
    BY DEF Inv, Sound
  <2>2. ASSUME poll.pc = "idle", ~dirty, NEW i \in DOMAIN db[w.sess], Looked(i)
        PROVE  LET m == db[w.sess][i]
               IN /\ m.sub => HasEvent(i, "sub")
                  /\ m.text > 0 /\ m.ask # "asked" =>
                        \E e \in Range(buf) : /\ e.text = m.text /\ e.role = m.role
                                              /\ (e.id = i /\ e.kind = "text") \/ m.role = "user"
    <3>1. Quiet /\ ~(<<w.sess, i>> \in missed) /\ i > base
      BY <2>2 DEF Looked, Quiet
    <3>2. i \in 1..N /\ base \in 0..N /\ N \in Nat
      BY <2>2, Ranges DEF Inv
    <3>3. ~Gone(i)
      BY <3>1, <3>2 DEF Gone
    <3>4. Shows(i)
      BY <2>2, <3>1, <3>2, <3>3 DEF Inv, Faithful, AllShown
    <3>5. Msg(i).sub => HasEvent(i, "sub")
      BY <3>4 DEF Shows, HasSub, HasEvent
    <3>6. Msg(i).text > 0 /\ Msg(i).ask # "asked" =>
             \E e \in Range(buf) : /\ e.text = Msg(i).text /\ e.role = Msg(i).role
                                   /\ (e.id = i /\ e.kind = "text") \/ Msg(i).role = "user"
      BY <3>4 DEF Shows, Told, OwnText
    <3> QED
      BY <3>5, <3>6 DEF Msg
  <2> QED
    BY <2>1, <2>2 DEF NothingMissed
<1> QED
  BY <1>1, Inductive, PTL
=============================================================================

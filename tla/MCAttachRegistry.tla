------------------------- MODULE MCAttachRegistry -------------------------
(* Model-checking instances of AttachRegistry: two processes, in one session,  *)
(* or the second in none; of OpenCode's, one runs in tmux.                     *)
EXTENDS AttachRegistry

Process(s, t) == [alive |-> TRUE, session |-> s, tmux |-> t]
Pair(pr, p, q) == [provider |-> pr, os |-> <<p, q>>]

LiveWorlds == {Pair("claude", Process("s1", FALSE), Process(s, FALSE)) : s \in {"s1", None}}
AllWorlds ==
    LiveWorlds
    \cup {Pair("codex", Process("s1", FALSE), Process("s1", FALSE)),
          Pair("hermes", Process("s1", TRUE), Process(None, TRUE))}
    \cup {Pair("opencode", Process("s1", t), Process("s1", ~t)) : t \in BOOLEAN}
=============================================================================

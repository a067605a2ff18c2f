--------------------------- MODULE MCConversation ---------------------------
(* The model-checking instance of Conversation.  A CLI of either kind writes  *)
(* three lines over two sessions, with a clear and nobody sending; or two     *)
(* connections send to Hermes and the daemon crashes.                         *)
EXTENDS Conversation

MCWorlds ==
    {[provider |-> p, sends |-> 0, clears |-> 1, lines |-> 3, sessions |-> 2, crashes |-> 0] :
        p \in {"claude", "hermes"}}
    \cup {[provider |-> "hermes", sends |-> 2, clears |-> 0, lines |-> 2, sessions |-> 1, crashes |-> 1]}
=============================================================================

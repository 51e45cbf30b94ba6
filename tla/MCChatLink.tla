----------------------------- MODULE MCChatLink -----------------------------
(***************************************************************************)
(* Values of ChatLink's constants for TLC.                                 *)
(***************************************************************************)
EXTENDS ChatLink

\* A name that quotes the news of a login and one that quotes nothing, a chat to
\* oneself that quotes the news of a logout, a logout and a chat.
SomeLines ==
  [op : {"login"}, words : {"login", "nothing"}]
    \cup [op : {"chatSelf"}, words : {"logout"}]
    \cup [op : {"logout", "chat"}, words : {"nothing"}]
=============================================================================

---------------------------- MODULE ChatSession ----------------------------
(***************************************************************************)
(* The chat server as its users may see it: the refinement of Session, and *)
(* what is said of messages on their way.  The detail is in ChatServer.    *)
(*                                                                         *)
(* A client is there while activeconnections lists it; it is logged in     *)
(* when its flag is set, under the name it has then.  So a login takes     *)
(* place when the flag is set, and a logout when it is cleared: the name   *)
(* is written before the one and after the other.                          *)
(***************************************************************************)
EXTENDS ChatServer

Session == INSTANCE Session WITH
    Clients <- Conns,
    here <- Listed,
    left <- {c \in Conns : Registered(c)} \ Listed,
    user <- [c \in Conns |-> IF c \in Listed /\ loggedIn[c] THEN name[c] ELSE NoName]

(* What the mapping depends on *)
sessionState == <<nextId, vec, name, loggedIn>>

(* Every step of the server's threads is one whole step of one session or   *)
(* none, as long as no login has raced another login or an erase            *)
(* (server.cpp:260, 402) and no erase has strayed (192): the two writes of  *)
(* a login, the walk over the vector and the tear-down are never seen half  *)
(* done, nobody's session is changed by another thread, and who has left    *)
(* never comes back.                                                        *)
KeepsSessions ==
    [][~UNCHANGED sessionState /\ unsure' = {} /\ ~stray' =>
           [Session!SessionStep]_Session!sessionVars]_vars

(* The reader has closed its socket, whose number is free for others *)
Closed(c) == pc[c] \in {"find", "erase", "done"} \/ (pc[c] = "bcast" /\ cmd[c] = Gone)

(* Whom a chat goes to next: the addressee, or who is next in the vector *)
Addressee(c) ==
    IF pc[c] = "dmsend" THEN {tgt[c]}
    ELSE IF pc[c] = "bcast" /\ idx[c] <= Len(vec) THEN {vec[idx[c]]} \ {c} ELSE {}

(* A message reaches the client it is meant for, and nobody else, as long  *)
(* as that client's reader has not closed the socket.  After that the      *)
(* number (server.cpp:324, 373: nothing tells the senders) is nobody's or  *)
(* that of a client that was accepted later, who gets the message whether  *)
(* logged in or not; it is never that of a client who was there before.    *)
MessagesGoToTheirClient ==
    \A c \in Conns : \A d \in Addressee(c) :
        LET to == Reached(sock[d])
        IN  srv = "up" =>
            IF Closed(d) THEN to = NoConn \/ (to > d /\ ~Closed(to)) ELSE to = d

(* The process ends by exit_server, by an erase past the end, or by SIGPIPE *)
(* (common.cpp:27): a send to a client that has left with replies unread,   *)
(* after a send or recv has had the error.  The last can only happen until  *)
(* the client's reader has closed the socket, whoever sends, and whatever   *)
(* has become of the number since.                                          *)
FallsByLeaversOnly ==
    srv = "down" =>
        \/ mainPc = "linger" \/ stray
        \/ \E c \in Conns : peer[c] = "broken" /\ Registered(c) /\ ~Closed(c)
============================================================================

------------------------------ MODULE ChatLink ------------------------------
(***************************************************************************)
(* One chat client (Project3/client.cpp) and its connection: the client's  *)
(* main thread, which reads the console, its thread that reads from the    *)
(* server, the two directions of the TCP stream, and the server's reader   *)
(* of this connection, of which only the session is kept (ChatServer.tla   *)
(* has the rest).  Other users are the environment.                        *)
(*                                                                         *)
(* A packet is 10000 bytes with a text at the front; recv asks for 100000. *)
(* So one recv may return part of a packet or several packets, and both    *)
(* ends take what they got for one packet.  Here a packet is two chunks,   *)
(* its head with the text and a tail, and recv takes any number of chunks  *)
(* off the stream and looks at the first.                                  *)
(*                                                                         *)
(* Of a text only this is kept: what it is meant to tell the client, and   *)
(* what the client's strstr finds in it.  The two differ when a text       *)
(* quotes words that somebody has chosen: a name or a chat, of another     *)
(* user or of this client itself.                                          *)
(***************************************************************************)
EXTENDS Integers, Sequences

CONSTANTS
  MaxLines,    \* bound: lines typed at the console
  MaxPackets,  \* bound: packets that other users' threads send to this client
  Typed        \* bound: the lines that are typed

\* What check_log_status finds in a text, or in what is quoted in one: " login
\* successful.", which it looks for first, or else " logout successful.".
Words == {"login", "logout", "nothing"}

\* The lines with an effect on the server; `exit` is in Leave.  `chatSelf` is a
\* chat @who to the user's own name.  A line has the words that the server may
\* send back to this client: those of the name in a login, of the text in a
\* chat to oneself.
Lines == [op : {"login", "chatSelf"}, words : Words]
           \cup [op : {"logout", "chat"}, words : {"nothing"}]

ASSUME LinkAssumption ==
  MaxLines \in Nat /\ MaxPackets \in Nat /\ Typed \subseteq Lines

LineTail  == [op |-> "tail", words |-> "nothing"]
NoCommand == [op |-> "none", words |-> "nothing"]

\* A text that is no verdict and quotes words, a verdict, and no text at all.
Quoting(words)    == [means |-> "nothing", reads |-> words]
Verdict(v, words) == [means |-> v, reads |-> words]
NoText            == [means |-> "none", reads |-> "none"]

\* Quoting("nothing") is also any text that quotes nothing, and a tail.
Down == [means : Words, reads : Words]
Up   == Lines \cup {LineTail}

VARIABLES
  main,       \* main thread: "run", "exit" (in exit_client)
  reader,     \* client_run: "top", "recv", "exit" (in exit_client) or "gone"
  exiting,    \* the client's flag
  logged_in,  \* the client's flag
  alive,      \* the client process
  up, down,   \* the chunks on their way to the server and to the client
  server,     \* the server's reader: "recv", "decide", "reply", "gone"
  session,    \* loggged_in of the Connection
  username,   \* the words in username of the Connection
  cmd,        \* the first chunk that the server's reader got
  answer,     \* its reply
  lines, packets,    \* used up of MaxLines and MaxPackets
  lost,       \* history: a verdict for the client was dropped behind another chunk
  misread,    \* history: the client found in a text what it did not mean
  wanted,     \* history: the session that the lines sent so far ask for
  unheard     \* history: a command was dropped behind another, or its name taken

clientVars == <<main, reader, exiting, logged_in, alive, lines>>
serverVars == <<server, session, username, cmd, answer, packets>>
serverHistory == <<wanted, unheard>>
vars == <<clientVars, serverVars, up, down, lost, misread, serverHistory>>

ClientType ==
  /\ main \in {"run", "exit"} /\ reader \in {"top", "recv", "exit", "gone"}
  /\ exiting \in BOOLEAN /\ logged_in \in BOOLEAN /\ alive \in BOOLEAN
  /\ lines \in 0 .. MaxLines

StreamType == up \in Seq(Up) /\ down \in Seq(Down)

ServerType ==
  /\ server \in {"recv", "decide", "reply", "gone"} /\ session \in BOOLEAN
  /\ username \in Words
  /\ cmd \in Up \cup {NoCommand} /\ answer \in Down \cup {NoText}
  /\ packets \in 0 .. MaxPackets

HistoryType == /\ lost \in BOOLEAN /\ misread \in BOOLEAN
               /\ wanted \in BOOLEAN /\ unheard \in BOOLEAN

TypeOK == ClientType /\ StreamType /\ ServerType /\ HistoryType

Init ==
  /\ main = "run" /\ reader = "top" /\ exiting = FALSE /\ logged_in = FALSE
  /\ alive = TRUE /\ up = <<>> /\ down = <<>>
  /\ server = "recv" /\ session = FALSE /\ username = "nothing"
  /\ cmd = NoCommand /\ answer = NoText
  /\ lines = 0 /\ packets = 0 /\ lost = FALSE /\ misread = FALSE
  /\ wanted = FALSE /\ unheard = FALSE

-----------------------------------------------------------------------------
(* The client.                                                             *)

Packet(head, tail) == <<head, tail>>
LinePacket(line) == Packet(line, LineTail)
TextPacket(text) == Packet(text, Quoting("nothing"))

\* process_command sends a login always, the others only when logged in.
Sends(line) == line.op = "login" \/ logged_in

\* What a line asks for: to be logged in, to be logged out, or no change.
Asks(line, flag) == line.op = "login" \/ (line.op # "logout" /\ flag)

\* Mutant: the flag is set when the login is sent.
TypeOptimistic ==
  /\ alive /\ main = "run" /\ lines < MaxLines
  /\ \E line \in Typed :
       /\ up' = IF Sends(line) /\ server # "gone" THEN up \o LinePacket(line) ELSE up
       /\ logged_in' = (logged_in \/ line.op = "login")
  /\ lines' = lines + 1
  /\ UNCHANGED <<main, reader, exiting, alive, serverVars, down, lost, misread,
                 serverHistory>>

\* A line is typed and process_command done.  Once the server has closed the
\* connection a packet goes nowhere, and may end the client with SIGPIPE.
Type ==
  /\ alive /\ main = "run" /\ lines < MaxLines
  /\ \E line \in Typed :
       \/ /\ ~Sends(line) \/ server = "gone"
          /\ UNCHANGED <<up, alive, wanted>>
       \/ /\ Sends(line) /\ server # "gone"
          /\ up' = up \o LinePacket(line) /\ wanted' = Asks(line, wanted)
          /\ UNCHANGED alive
       \/ /\ Sends(line) /\ server = "gone"
          /\ alive' = FALSE
          /\ UNCHANGED <<up, wanted>>
  /\ lines' = lines + 1
  /\ UNCHANGED <<main, reader, exiting, logged_in, serverVars, down, lost,
                 misread, unheard>>

\* exit_client begins: a typed `exit` when not logged in, the end of the input,
\* or SIGINT, whose handler runs on the main thread.
Leave ==
  /\ alive /\ main = "run"
  /\ \/ ~logged_in /\ lines < MaxLines /\ lines' = lines + 1
     \/ UNCHANGED lines
  /\ main' = "exit" /\ exiting' = TRUE
  /\ UNCHANGED <<reader, logged_in, alive, serverVars, up, down, lost, misread,
                 serverHistory>>

\* exit_client ends, in either thread: the socket is closed and the process gone.
Die ==
  /\ alive /\ "exit" \in {main, reader}
  /\ alive' = FALSE
  /\ UNCHANGED <<main, reader, exiting, logged_in, lines, serverVars, up, down,
                 lost, misread, serverHistory>>

\* client_run at the top of its loop: end the thread, or select.
CheckExiting ==
  /\ alive /\ reader = "top"
  /\ reader' = IF exiting THEN "gone" ELSE "recv"
  /\ UNCHANGED <<main, exiting, logged_in, alive, lines, serverVars, up, down,
                 lost, misread, serverHistory>>

\* check_log_status: strstr over the whole text of the packet.
Flag(text) == text.reads = "login" \/ (text.reads # "logout" /\ logged_in)

\* recv returned n chunks: process_server_message looks at the first.
Receive(n) ==
  /\ logged_in' = Flag(down[1])
  /\ misread' = (misread \/ down[1].reads # down[1].means)
  /\ lost' = (lost \/ \E i \in 2 .. n : down[i].means # "nothing")
  /\ down' = SubSeq(down, n + 1, Len(down))

\* Mutant: recv's 0 is taken for an empty message.
ReadPastEnd ==
  /\ alive /\ reader = "recv"
  /\ \/ \E n \in 1 .. Len(down) : Receive(n)
     \/ down = <<>> /\ UNCHANGED <<logged_in, down, lost, misread>>
  /\ reader' = "top"
  /\ UNCHANGED <<main, exiting, alive, lines, serverVars, up, serverHistory>>

\* readFromServer.  select may report nothing, or exit_client in the main thread
\* may have cleared the bit meanwhile; at the end of the stream the reader calls
\* exit_client itself.
ReadFromServer ==
  /\ alive /\ reader = "recv"
  /\ \/ /\ \E n \in 1 .. Len(down) : Receive(n)
        /\ reader' = "top"
        /\ UNCHANGED exiting
     \/ /\ (down = <<>> /\ server # "gone") \/ main = "exit"
        /\ reader' = "top"
        /\ UNCHANGED <<exiting, logged_in, down, lost, misread>>
     \/ /\ down = <<>> /\ server = "gone"
        /\ reader' = "exit" /\ exiting' = TRUE
        /\ UNCHANGED <<logged_in, down, lost, misread>>
  /\ UNCHANGED <<main, alive, lines, serverVars, up, serverHistory>>

-----------------------------------------------------------------------------
(* The server.                                                             *)

\* read_from_client: recv.
ServerRecv ==
  /\ server = "recv"
  /\ \/ /\ \E n \in 1 .. Len(up) :
             /\ up' = SubSeq(up, n + 1, Len(up))
             /\ unheard' = (unheard \/ \E i \in 2 .. n : up[i].op # "tail")
        /\ cmd' = up[1] /\ server' = "decide"
     \/ /\ up = <<>> /\ ~alive
        /\ server' = "gone"
        /\ UNCHANGED <<up, cmd, unheard>>
  /\ UNCHANGED <<session, username, answer, packets, clientVars, down, lost,
                 misread, wanted>>

\* login: refused to who is logged in, whose name the answer quotes; refused
\* when the name is taken, and it is quoted; done.
Login ==
  /\ cmd.op = "login" /\ UNCHANGED down
  /\ \/ /\ session
        /\ answer' = Quoting(username)
        /\ UNCHANGED <<session, username>>
     \/ /\ ~session
        /\ answer' = Quoting(cmd.words)
        /\ UNCHANGED <<session, username>>
     \/ /\ ~session
        /\ session' = TRUE /\ username' = cmd.words
        /\ answer' = Verdict("login", "login")

\* logout: the verdict follows the name, and the words of a login in the name
\* are found first.
Logout ==
  /\ cmd.op = "logout" /\ UNCHANGED down
  /\ \/ /\ session
        /\ session' = FALSE /\ username' = "nothing"
        /\ answer' = Verdict("logout", IF username = "login" THEN "login" ELSE "logout")
     \/ /\ ~session
        /\ answer' = Quoting("nothing")
        /\ UNCHANGED <<session, username>>

\* Mutant: chat ends the session.
ChatForgets ==
  /\ cmd.op \in {"chat", "chatSelf"} /\ session' = FALSE
  /\ answer' = Quoting("nothing") /\ UNCHANGED <<username, down>>

\* chat: refused, broadcast to others, or sent to somebody, who may be the user
\* himself.  That takes a name without blanks, and so without such words.
Chat ==
  /\ cmd.op \in {"chat", "chatSelf"} /\ UNCHANGED <<session, username>>
  /\ answer' = Quoting("nothing")
  /\ down' = IF cmd.op = "chatSelf" /\ session /\ username = "nothing"
             THEN down \o TextPacket(Quoting(cmd.words)) ELSE down

\* What is not a command gets no answer.
Ignore == cmd.op = "tail" /\ UNCHANGED <<session, username, answer, down>>

\* Mutant: what is not a command is answered too.
DecideAlways ==
  /\ server = "decide" /\ server' = "reply"
  /\ Login \/ Logout \/ Chat \/ Ignore
  /\ cmd' = NoCommand
  /\ UNCHANGED <<packets, clientVars, up, lost, misread, serverHistory>>

\* process_command.
Decide ==
  /\ server = "decide"
  /\ Login \/ Logout \/ Chat \/ Ignore
  /\ server' = IF cmd.op = "tail" THEN "recv" ELSE "reply"
  /\ cmd' = NoCommand
  /\ unheard' = (unheard \/ (cmd.op = "login" /\ ~session'))
  /\ UNCHANGED <<packets, clientVars, up, lost, misread, wanted>>

\* send_token_to_client.
Reply ==
  /\ server = "reply"
  /\ down' = down \o TextPacket(answer)
  /\ answer' = NoText /\ server' = "recv"
  /\ UNCHANGED <<session, username, cmd, packets, clientVars, up, lost, misread,
                 serverHistory>>

\* Another user's thread sends a chat, or the news that a user came or left; the
\* text and the name are that user's, and may be what the client looks for.
OtherUsers ==
  /\ server # "gone" /\ packets < MaxPackets
  /\ packets' = packets + 1
  /\ \E words \in Words : down' = down \o TextPacket(Quoting(words))
  /\ UNCHANGED <<server, session, username, cmd, answer, clientVars, up, lost, misread,
                 serverHistory>>

\* The server process ends.  The kernel resets a connection with unread data,
\* and the client may lose what it has not read.
ServerStops ==
  /\ server # "gone" /\ server' = "gone"
  /\ cmd' = NoCommand /\ answer' = NoText
  /\ down' = down \/ (up # <<>> /\ down' = <<>>)
  /\ up' = <<>>
  /\ UNCHANGED <<session, username, packets, clientVars, lost, misread,
                 serverHistory>>

-----------------------------------------------------------------------------
Over == ~alive /\ server = "gone" /\ UNCHANGED vars

Next ==
  \/ Type \/ Leave \/ Die \/ CheckExiting \/ ReadFromServer
  \/ ServerRecv \/ Decide \/ Reply \/ OtherUsers \/ ServerStops
  \/ Over

Spec == Init /\ [][Next]_vars

\* The threads of both programs are scheduled.  Nobody need type, and neither
\* the other users nor the end of the server need happen.
Fairness ==
  /\ WF_vars(Die) /\ WF_vars(CheckExiting) /\ WF_vars(ReadFromServer)
  /\ WF_vars(ServerRecv) /\ WF_vars(Decide) /\ WF_vars(Reply)

FairSpec == Spec /\ Fairness

-----------------------------------------------------------------------------
(* Properties.                                                             *)

\* What a text means for the session.
Effect(text, flag) == text.means = "login" \/ (text.means # "logout" /\ flag)

\* What chunks taken one after the other make of a flag that those in On set and
\* those in Off clear: the last of them decides, if there is one.
Outcome(chunks, flag, On, Off) ==
  \/ \E i \in 1 .. Len(chunks) :
       chunks[i] \in On /\ \A j \in i + 1 .. Len(chunks) : chunks[j] \notin Off
  \/ flag /\ \A j \in 1 .. Len(chunks) : chunks[j] \notin Off

Texts(v)   == {t \in Down : t.means = v}
Asking(op) == {l \in Lines : l.op = op}

\* The flag the client should have when it has seen all that is on its way.
FlagToCome == Effect(answer, Outcome(down, logged_in, Texts("login"), Texts("logout")))

\* The client's logged_in, by which process_command decides what may be sent and
\* whether `exit` is allowed (client.cpp:120-168), is the server's loggged_in as
\* soon as the replies on their way are in: unless recv swallowed a verdict with
\* the packet before it, or strstr has found in a text what the text did not
\* mean.  The last needs words in a name or a chat, this user's own included:
\* then even a verdict can be read as its opposite.
FlagFollowsServer ==
  server # "gone" /\ ~lost /\ ~misread => FlagToCome = session

\* The session the server will have when it has taken all that is on its way.
SessionToCome == Outcome(up, Asks(cmd, session), Asking("login"), Asking("logout"))

\* The server's session is, or will be, what the lines the client has sent ask
\* for, in their order and however recv (server.cpp:156) cuts the stream: unless
\* recv dropped a command that arrived together with another, or a login's name
\* was taken.  A packet in two pieces is one command, not two.
SessionFollowsLines == server # "gone" /\ ~unheard => SessionToCome = wanted

\* A client whose server has closed the connection, or that has begun to exit
\* (client.cpp:203, 260-268), ends: neither of its threads keeps it alive.
ClientEnds == (server = "gone" \/ exiting) ~> ~alive
=============================================================================

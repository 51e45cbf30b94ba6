---------------------------- MODULE MCChatServer ----------------------------
(***************************************************************************)
(* Values of ChatServer's constants for TLC.                               *)
(***************************************************************************)
EXTENDS ChatSession

MCNoConn == -1
TwoFds   == {4, 5}
ThreeFds == {4, 5, 6}

\* Who may stop reading.
Nobody    == {}
OneClient == {0}

\* What the clients of a run send.
NoCommands    == {}
AllCommands   == Command
LogoutOnly    == {m \in Command : m.op = "logout"}
RoomCommands  == {m \in Command : \/ m.op \in {"chatAll", "logout"}
                                  \/ m.op = "chatTo" /\ m.who \in Names}

\* A run may start from a room that has filled up: all connections but perhaps
\* the last accepted and polling, logged in as far as there are names, and some
\* of those who may stop reading with their buffers full.  Connections, logins,
\* and commands that were refused, one after the other, lead from Init to it.
FdOf(c) == CHOOSE f \in Fds : Cardinality({g \in Fds : g < f}) = c
Users   == {c \in Conns : c < Cardinality(Names)}
NameOf  == CHOOSE n \in [Users -> Names] : \A c, d \in Users : c # d => n[c] # n[d]

Room(n) ==
  LET In == 0 .. n - 1 IN
  /\ srv = "up" /\ mainPc = "copy" /\ mainReg = {} /\ newFd = 0
  /\ nextId = n /\ backlog = 0
  /\ master = {FdOf(c) : c \in In} /\ readFds = {} /\ lostUpdate = FALSE
  /\ fdTable = [f \in Fds |-> IF \E c \in In : FdOf(c) = f
                              THEN CHOOSE c \in In : FdOf(c) = f ELSE NoConn]
  /\ vec = [i \in 1 .. n |-> i - 1] /\ stray = FALSE
  /\ sock = [c \in Conns |-> IF c \in In THEN FdOf(c) ELSE 0]
  /\ name = [c \in Conns |-> IF c \in Users \cap In THEN NameOf[c] ELSE NoName]
  /\ loggedIn = [c \in Conns |-> c \in Users \cap In]
  /\ exiting = [c \in Conns |-> FALSE]
  /\ pc = [c \in Conns |-> IF c \in In THEN "poll" ELSE "none"]
  /\ reg = [c \in Conns |-> {}]
  /\ cmd = [c \in Conns |-> NoCommand] /\ idx = [c \in Conns |-> 1]
  /\ tgt = [c \in Conns |-> NoConn]
  /\ inbox = [c \in Conns |-> <<>>]
  /\ peer \in [Conns -> {"open", "full"}]
  /\ \A c \in Conns : peer[c] = "full" => c \in Stallers \cap In
  /\ commands = 0 /\ hangUps = 0
  /\ shifted = {} /\ unsure = {} /\ owed = [c \in Conns |-> {}]

RoomInit == Room(MaxConns - 1) \/ Room(MaxConns)
RoomSpec == RoomInit /\ [][Next]_vars

FairRoomSpec == RoomSpec /\ Fairness
=============================================================================

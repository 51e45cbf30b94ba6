----------------------------- MODULE ChatServer -----------------------------
(***************************************************************************)
(* The threads of the chat server (Project3/server.cpp).                   *)
(*                                                                         *)
(* The main thread selects on `master` and accepts connections; every      *)
(* accepted connection gets a reader thread that polls `read_fds`,         *)
(* receives one command at a time, runs login / logout / chat, and tears   *)
(* the connection down when its client hangs up.  All of them share the    *)
(* descriptor sets, the vector `activeconnections` and the Connection      *)
(* objects, and the mutex that would protect them is commented out         *)
(* (server.cpp:147): the steps of the threads interleave freely.           *)
(*                                                                         *)
(* One action is one access to shared state that another thread can fall   *)
(* between: FD_SET and FD_CLR are a load and a store of the fd_set word,   *)
(* each loop over the vector takes one step per iteration, and a login     *)
(* writes the name and the flag in two steps.  push_back, erase and one    *)
(* indexed access are taken as single steps.                               *)
(*                                                                         *)
(* Messages carry no text: what a reply says is left out, whom it reaches  *)
(* is kept.                                                                *)
(***************************************************************************)
EXTENDS Integers, Sequences, FiniteSets

Vector == INSTANCE SequencesExt

CONSTANTS
  Names,        \* user names, all different from the empty string
  NoName,       \* the empty string: Connection.username before a login
  NoConn,       \* "no connection": a NULL Connection*, or a closed descriptor
  Fds,          \* descriptors the kernel can give to accepted sockets
  MaxConns,     \* bound: connections made in a behaviour
  MaxCommands,  \* bound: commands sent in a behaviour, by all clients
  MaxHangUps,   \* bound: clients that hang up in a behaviour
  MaxSigInts,   \* bound: 1 if the operator may interrupt the server, else 0
  Stallers,     \* bound: the clients that may stop reading
  Commands      \* bound: the commands that the clients send

Serv == 3       \* serv_sock_fd, the first descriptor after the standard three

Conns == 0 .. MaxConns - 1     \* values of server_curr_clientid

\* A command after get_tokens split it: `login who` and `chat @who text`, where
\* who may be the empty string; `chat text`, `logout`, and anything else, which
\* process_command ignores.
Command == [op : {"login", "chatTo"}, who : Names \cup {NoName}]
             \cup [op : {"logout", "chatAll", "other"}, who : {NoName}]

ASSUME ConstantAssumption ==
  /\ NoName \notin Names
  /\ MaxConns \in Nat
  /\ NoConn \notin Conns
  /\ Fds \subseteq Nat /\ Serv \notin Fds
  /\ MaxCommands \in Nat
  /\ MaxHangUps \in Nat
  /\ MaxSigInts \in 0 .. 1
  /\ Stallers \subseteq Conns
  /\ Commands \subseteq Command

NoCommand == [op |-> "none", who |-> NoName]
Gone      == [op |-> "gone", who |-> NoName]  \* the tear-down after a recv <= 0

VARIABLES
  srv,       \* "up", "exiting" (inside exit_server) or "down"
  mainPc,    \* where the main thread is
  mainReg,   \* the word of `master` FD_SET has loaded and not yet stored
  newFd,     \* newfd of accept_connections
  nextId,    \* server_curr_clientid
  master, readFds,        \* the global fd_sets, without the bit of Serv in master
  fdTable,   \* kernel: the connection whose socket each descriptor is
  backlog,   \* kernel: connections waiting in the listen queue
  vec,       \* activeconnections, as client ids
  sock, name, loggedIn, exiting,   \* fields of each Connection
  pc,        \* where each reader thread is
  reg,       \* the word of `master` a reader's FD_CLR has loaded
  cmd,       \* the command a reader is processing
  idx,       \* a reader's loop index into vec, from 1
  tgt,       \* r_conn of chat
  inbox,     \* kernel: packets received on a connection and not yet read
  peer,      \* the client's end: "open" (it reads), "deaf" (it has stopped
             \* reading), "full" (so has it, and its buffers are full),
             \* "closed" (FIN came), "reset" (RST came, its error not yet
             \* reported) or "broken" (RST came and reported)
  commands, hangUps   \* used up of MaxCommands and MaxHangUps

\* History variables: they restrict no step and only record what happened.
VARIABLES
  lostUpdate,  \* a store to master overwrote another thread's store
  stray,       \* an erase removed another thread's connection, or none at all
  shifted,     \* readers under whose loop over vec an erase moved the entries
  owed,        \* whom the chat broadcast of a reader still has to reach
  unsure       \* logins whose check of the name raced another thread

mainVars   == <<srv, mainPc, mainReg, newFd, nextId>>
fdVars     == <<master, readFds, lostUpdate>>
kernelVars == <<fdTable, backlog>>
connVars   == <<sock, name, loggedIn, exiting>>
threadVars == <<pc, reg, cmd, idx, tgt>>
peerVars   == <<inbox, peer, commands, hangUps>>
loopVars   == <<shifted, owed, unsure>>
vars == <<mainVars, fdVars, kernelVars, vec, stray, connVars, threadVars,
          peerVars, loopVars>>

MainPc == {"copy", "select", "accept", "set", "register", "exit", "linger"}

ReaderPc == {"none", "poll", "recv", "login", "scan", "name", "flag", "greet",
             "logout", "unname", "chat", "dm", "dmsend", "bcast", "reply",
             "clr", "nap", "wake", "find", "erase", "done", "quit"}

MainType ==
  /\ srv \in {"up", "exiting", "down"} /\ mainPc \in MainPc
  /\ mainReg \subseteq Fds /\ newFd \in Fds \cup {0}
  /\ nextId \in 0 .. MaxConns

FdType ==
  /\ master \subseteq Fds /\ readFds \subseteq Fds \cup {Serv}
  /\ lostUpdate \in BOOLEAN

KernelType == /\ fdTable \in [Fds -> Conns \cup {NoConn}]
              /\ backlog \in 0 .. MaxConns

RegistryType == vec \in Seq(Conns) /\ stray \in BOOLEAN

ConnType ==
  /\ sock \in [Conns -> Fds \cup {0}]
  /\ name \in [Conns -> Names \cup {NoName}]
  /\ loggedIn \in [Conns -> BOOLEAN] /\ exiting \in [Conns -> BOOLEAN]

ThreadType ==
  /\ pc \in [Conns -> ReaderPc] /\ reg \in [Conns -> SUBSET Fds]
  /\ cmd \in [Conns -> Command \cup {NoCommand, Gone}]
  /\ idx \in [Conns -> Nat \ {0}] /\ tgt \in [Conns -> Conns \cup {NoConn}]

There     == {"open", "deaf", "full"}    \* the client has not hung up
PeerState == There \cup {"closed", "reset", "broken"}

PeerType ==
  /\ inbox \in [Conns -> Seq(Command)] /\ peer \in [Conns -> PeerState]
  /\ commands \in 0 .. MaxCommands /\ hangUps \in 0 .. MaxHangUps

LoopType == /\ shifted \subseteq Conns /\ unsure \subseteq Conns
            /\ owed \in [Conns -> SUBSET Conns]

TypeOK == /\ MainType /\ FdType /\ KernelType /\ RegistryType
          /\ ConnType /\ ThreadType /\ PeerType /\ LoopType

Init ==
  /\ srv = "up" /\ mainPc = "copy" /\ mainReg = {} /\ newFd = 0 /\ nextId = 0
  /\ master = {} /\ readFds = {} /\ lostUpdate = FALSE
  /\ fdTable = [f \in Fds |-> NoConn] /\ backlog = 0
  /\ vec = <<>> /\ stray = FALSE
  /\ sock = [c \in Conns |-> 0] /\ name = [c \in Conns |-> NoName]
  /\ loggedIn = [c \in Conns |-> FALSE] /\ exiting = [c \in Conns |-> FALSE]
  /\ pc = [c \in Conns |-> "none"] /\ reg = [c \in Conns |-> {}]
  /\ cmd = [c \in Conns |-> NoCommand] /\ idx = [c \in Conns |-> 1]
  /\ tgt = [c \in Conns |-> NoConn]
  /\ inbox = [c \in Conns |-> <<>>] /\ peer = [c \in Conns |-> "open"]
  /\ commands = 0 /\ hangUps = 0
  /\ shifted = {} /\ unsure = {} /\ owed = [c \in Conns |-> {}]

Goto(c, l) == pc' = [pc EXCEPT ![c] = l]

\* The command is done: its local variables die.
EndCommand(c) == /\ cmd' = [cmd EXCEPT ![c] = NoCommand]
                 /\ idx' = [idx EXCEPT ![c] = 1]
                 /\ tgt' = [tgt EXCEPT ![c] = NoConn]
                 /\ shifted' = shifted \ {c}

Listed == {vec[i] : i \in 1 .. Len(vec)}

-----------------------------------------------------------------------------
(* Clients: the environment of the server.                                 *)

\* Connections made so far, one of them accepted and not yet registered.
Made == backlog + nextId + (IF mainPc \in {"set", "register"} THEN 1 ELSE 0)

\* A client connects; the kernel queues it until accept.
Connect ==
  /\ srv = "up" /\ Made < MaxConns
  /\ backlog' = backlog + 1
  /\ UNCHANGED <<mainVars, fdVars, fdTable, vec, stray, connVars, threadVars,
                 peerVars, loopVars>>

Ended(c) == peer[c] \notin There

\* A client sends one packet.
SendCommand(c) ==
  /\ srv # "down" /\ pc[c] # "none" /\ ~Ended(c)
  /\ commands < MaxCommands
  /\ \E m \in Commands : inbox' = [inbox EXCEPT ![c] = Append(@, m)]
  /\ commands' = commands + 1
  /\ UNCHANGED <<mainVars, fdVars, kernelVars, vec, stray, connVars,
                 threadVars, peer, hangUps, loopVars>>

\* A client stops reading, or reads again and makes room.
StopReading(c) ==
  /\ srv # "down" /\ pc[c] # "none" /\ c \in Stallers /\ peer[c] = "open"
  /\ peer' = [peer EXCEPT ![c] = "deaf"]
  /\ UNCHANGED <<mainVars, fdVars, kernelVars, vec, stray, connVars,
                 threadVars, inbox, commands, hangUps, loopVars>>

ResumeReading(c) ==
  /\ srv # "down" /\ pc[c] # "none" /\ peer[c] \in {"deaf", "full"}
  /\ peer' = [peer EXCEPT ![c] = "open"]
  /\ UNCHANGED <<mainVars, fdVars, kernelVars, vec, stray, connVars,
                 threadVars, inbox, commands, hangUps, loopVars>>

\* A client exits.  Its kernel sends FIN, or RST when replies lie unread.
HangUp(c) ==
  /\ srv # "down" /\ pc[c] # "none" /\ ~Ended(c)
  /\ hangUps < MaxHangUps
  /\ \E p \in {"closed", "reset"} :
       /\ peer[c] = "full" => p = "reset"
       /\ peer' = [peer EXCEPT ![c] = p]
  /\ hangUps' = hangUps + 1
  /\ UNCHANGED <<mainVars, fdVars, kernelVars, vec, stray, connVars,
                 threadVars, inbox, commands, loopVars>>

-----------------------------------------------------------------------------
(* Sending: send_packet_to_socket(fd).                                     *)

\* What the descriptor stands for when send is called.
Reached(fd) == IF fd \in Fds THEN fdTable[fd] ELSE NoConn

\* The sockets block: a send to a client that does not read succeeds while the
\* buffers have room, for how long is left open, and once they are full it
\* waits until the client reads again or hangs up.  send on a closed descriptor
\* fails and is logged.  A send to a client that has closed succeeds and may be
\* answered with RST.  The first call after an unexpected RST fails with
\* ECONNRESET; a send after that raises SIGPIPE, whose default action ends the
\* process.
Send(fd) ==
  LET d == Reached(fd) IN
  IF d = NoConn THEN UNCHANGED <<peer, srv>>
  ELSE \/ /\ peer[d] = "open"
          /\ UNCHANGED <<peer, srv>>
       \/ /\ peer[d] = "deaf"
          /\ \E p \in {"deaf", "full"} : peer' = [peer EXCEPT ![d] = p]
          /\ UNCHANGED srv
       \/ /\ peer[d] = "closed"
          /\ \E p \in {"closed", "broken"} : peer' = [peer EXCEPT ![d] = p]
          /\ UNCHANGED srv
       \/ /\ peer[d] = "reset"
          /\ peer' = [peer EXCEPT ![d] = "broken"]
          /\ UNCHANGED srv
       \/ /\ peer[d] = "broken"
          /\ srv' = "down"
          /\ UNCHANGED peer

-----------------------------------------------------------------------------
(* The main thread: server_run, accept_connections.                        *)

MainAt(l) == srv = "up" /\ mainPc = l

\* Mutant: read_fds is not set again before select.
CopyMasterOnce ==
  /\ MainAt("copy")
  /\ readFds' = readFds \cup {Serv}
  /\ pc' = [c \in Conns |-> IF pc[c] = "nap" THEN "wake" ELSE pc[c]]
  /\ mainPc' = "select"
  /\ UNCHANGED <<srv, mainReg, newFd, nextId, master, lostUpdate, kernelVars,
                 vec, stray, connVars, reg, cmd, idx, tgt, peerVars, loopVars>>

\* read_fds = master.  A reader in usleep(THREAD_WAIT) wakes only after this:
\* the main thread starts a round of select at least every SELECT_WAIT (1 ms)
\* and THREAD_WAIT is 100 ms.
CopyMaster ==
  /\ MainAt("copy")
  /\ readFds' = master \cup {Serv}
  /\ pc' = [c \in Conns |-> IF pc[c] = "nap" THEN "wake" ELSE pc[c]]
  /\ mainPc' = "select"
  /\ UNCHANGED <<srv, mainReg, newFd, nextId, master, lostUpdate, kernelVars,
                 vec, stray, connVars, reg, cmd, idx, tgt, peerVars, loopVars>>

Readable(f) ==
  IF f = Serv THEN backlog > 0
  ELSE inbox[fdTable[f]] # <<>> \/ Ended(fdTable[f])

\* select fails with EBADF when a descriptor of the set is closed, and the
\* server exits; otherwise it leaves the readable ones, none after a timeout.
Select ==
  /\ MainAt("select")
  /\ \/ /\ \E f \in readFds \ {Serv} : fdTable[f] = NoConn
        /\ mainPc' = "exit" /\ srv' = "exiting"
        /\ UNCHANGED readFds
     \/ /\ \A f \in readFds \ {Serv} : fdTable[f] # NoConn
        /\ readFds' = {f \in readFds : Readable(f)}
        /\ mainPc' = "accept"
        /\ UNCHANGED srv
  /\ UNCHANGED <<mainReg, newFd, nextId, master, lostUpdate, kernelVars, vec,
                 stray, connVars, threadVars, peerVars, loopVars>>

FreeFds == {f \in Fds : fdTable[f] = NoConn}

\* accept_connections: nothing to accept, no descriptor left (accept fails and
\* is logged), or the lowest free one; FD_SET(newfd) loads the word of master.
Accept ==
  /\ MainAt("accept")
  /\ \/ /\ Serv \notin readFds \/ FreeFds = {}
        /\ mainPc' = "copy"
        /\ UNCHANGED <<fdTable, backlog, newFd, mainReg>>
     \/ /\ Serv \in readFds
        /\ \E f \in FreeFds :
             /\ \A g \in FreeFds : f <= g
             /\ newFd' = f
             /\ fdTable' = [fdTable EXCEPT ![f] = nextId]
        /\ backlog' = backlog - 1
        /\ mainReg' = master
        /\ mainPc' = "set"
  /\ UNCHANGED <<srv, nextId, fdVars, vec, stray, connVars, threadVars,
                 peerVars, loopVars>>

\* Mutant: FD_SET of the wrong descriptor.
SetBitOfServer ==
  /\ MainAt("set")
  /\ master' = mainReg \cup {Serv}
  /\ lostUpdate' = (lostUpdate \/ master # mainReg)
  /\ mainPc' = "register" /\ mainReg' = {}
  /\ UNCHANGED <<srv, newFd, nextId, readFds, kernelVars, vec, stray, connVars,
                 threadVars, peerVars, loopVars>>

\* FD_SET(newfd, &master) stores the word.
SetBit ==
  /\ MainAt("set")
  /\ master' = mainReg \cup {newFd}
  /\ lostUpdate' = (lostUpdate \/ master # mainReg)
  /\ mainPc' = "register" /\ mainReg' = {}
  /\ UNCHANGED <<srv, newFd, nextId, readFds, kernelVars, vec, stray, connVars,
                 threadVars, peerVars, loopVars>>

\* Mutant: the push_back is forgotten.
RegisterUnlisted ==
  /\ MainAt("register")
  /\ sock' = [sock EXCEPT ![nextId] = newFd]
  /\ nextId' = nextId + 1
  /\ Goto(nextId, "poll")
  /\ mainPc' = "copy" /\ newFd' = 0
  /\ UNCHANGED <<srv, mainReg, fdVars, kernelVars, vec, stray, name, loggedIn,
                 exiting, reg, cmd, idx, tgt, peerVars, loopVars>>

\* new Connection, push_back, pthread_create.
Register ==
  /\ MainAt("register")
  /\ sock' = [sock EXCEPT ![nextId] = newFd]
  /\ nextId' = nextId + 1
  /\ vec' = Append(vec, nextId)
  /\ Goto(nextId, "poll")
  /\ mainPc' = "copy" /\ newFd' = 0
  /\ UNCHANGED <<srv, mainReg, fdVars, kernelVars, stray, name, loggedIn,
                 exiting, reg, cmd, idx, tgt, peerVars, loopVars>>

-----------------------------------------------------------------------------
(* Shutting down: sigint_function, exit_server.                            *)

\* SIGINT is handled by the main thread, wherever it is.
SigInt ==
  /\ srv = "up" /\ MaxSigInts = 1
  /\ srv' = "exiting" /\ mainPc' = "exit"
  /\ UNCHANGED <<mainReg, newFd, nextId, fdVars, kernelVars, vec, stray,
                 connVars, threadVars, peerVars, loopVars>>

\* The first loop of exit_server.
MarkExiting ==
  /\ srv = "exiting" /\ mainPc = "exit"
  /\ exiting' = [c \in Conns |-> exiting[c] \/ c \in Listed]
  /\ master' = master \ {sock[c] : c \in Listed}
  /\ mainPc' = "linger"
  /\ UNCHANGED <<srv, mainReg, newFd, nextId, readFds, lostUpdate, kernelVars,
                 vec, stray, sock, name, loggedIn, threadVars, peerVars,
                 loopVars>>

\* Mutant: exit_server waits, asleep in a loop, for the reader threads.
ExitAfterJoin ==
  /\ srv = "exiting" /\ mainPc = "linger"
  /\ \/ /\ \A c \in Conns : pc[c] \in {"none", "done", "quit"}
        /\ srv' = "down"
        /\ fdTable' = [f \in Fds |-> NoConn]
     \/ UNCHANGED <<srv, fdTable>>
  /\ UNCHANGED <<mainPc, mainReg, newFd, nextId, fdVars, backlog, vec, stray,
                 connVars, threadVars, peerVars, loopVars>>

\* After THREAD_WAIT the second loop closes the sockets and the process exits.
ExitProcess ==
  /\ srv = "exiting" /\ mainPc = "linger"
  /\ srv' = "down"
  /\ fdTable' = [f \in Fds |-> NoConn]
  /\ UNCHANGED <<mainPc, mainReg, newFd, nextId, fdVars, backlog, vec, stray,
                 connVars, threadVars, peerVars, loopVars>>

-----------------------------------------------------------------------------
(* A reader thread: read_from_client.                                      *)

At(c, l) == srv # "down" /\ pc[c] = l

\* FD_ISSET(client->socket, &read_fds), every THREAD_WAIT.
Poll(c) ==
  /\ At(c, "poll") /\ sock[c] \in readFds
  /\ Goto(c, "recv")
  /\ UNCHANGED <<mainVars, fdVars, kernelVars, vec, stray, connVars, reg, cmd,
                 idx, tgt, peerVars, loopVars>>

\* Where process_command goes.
First(op) == IF op \in {"login", "logout"} THEN op
             ELSE IF op \in {"chatTo", "chatAll"} THEN "chat" ELSE "poll"

\* recv takes every packet that has arrived; only the first is processed.
RecvPacket(c) ==
  /\ At(c, "recv") /\ inbox[c] # <<>>
  /\ cmd' = [cmd EXCEPT ![c] = IF Head(inbox[c]).op = "other" THEN NoCommand
                               ELSE Head(inbox[c])]
  /\ inbox' = [inbox EXCEPT ![c] = <<>>]
  /\ Goto(c, First(Head(inbox[c]).op))
  /\ UNCHANGED <<mainVars, fdVars, kernelVars, vec, stray, connVars, reg, idx,
                 tgt, peer, commands, hangUps, loopVars>>

\* Mutants: the socket is closed at once; the end of a client is an error of the
\* server; the thread leaves its loop without tearing the connection down.
RecvEndCloses(c) ==
  /\ At(c, "recv") /\ inbox[c] = <<>> /\ Ended(c)
  /\ Goto(c, "clr")
  /\ reg' = [reg EXCEPT ![c] = master] /\ cmd' = [cmd EXCEPT ![c] = Gone]
  /\ fdTable' = [fdTable EXCEPT ![sock[c]] = NoConn]
  /\ UNCHANGED <<mainVars, fdVars, backlog, vec, stray, connVars, idx, tgt,
                 peerVars, loopVars>>

RecvEndExits(c) ==
  /\ At(c, "recv") /\ inbox[c] = <<>> /\ Ended(c)
  /\ srv' = "down"
  /\ UNCHANGED <<mainPc, mainReg, newFd, nextId, fdVars, kernelVars, vec, stray,
                 connVars, threadVars, peerVars, loopVars>>

RecvEndBreaks(c) ==
  /\ At(c, "recv") /\ inbox[c] = <<>> /\ Ended(c)
  /\ Goto(c, "quit")
  /\ UNCHANGED <<mainVars, fdVars, kernelVars, vec, stray, connVars, reg, cmd,
                 idx, tgt, peerVars, loopVars>>

\* recv returned 0 or an error: leave if the server is exiting, otherwise
\* start the tear-down; FD_CLR loads the word of master.
RecvEnd(c) ==
  /\ At(c, "recv") /\ inbox[c] = <<>> /\ Ended(c)
  /\ IF exiting[c]
       THEN Goto(c, "quit") /\ UNCHANGED <<reg, cmd>>
       ELSE /\ Goto(c, "clr")
            /\ reg' = [reg EXCEPT ![c] = master]
            /\ cmd' = [cmd EXCEPT ![c] = Gone]
  /\ peer' = [peer EXCEPT ![c] = IF @ = "reset" THEN "broken" ELSE @]
  /\ UNCHANGED <<mainVars, fdVars, kernelVars, vec, stray, connVars, idx, tgt,
                 inbox, commands, hangUps, loopVars>>

\* Mutants: FD_CLR is forgotten; close follows without the sleep.
ClearNothing(c) ==
  /\ At(c, "clr")
  /\ lostUpdate' = (lostUpdate \/ master # reg[c])
  /\ reg' = [reg EXCEPT ![c] = {}]
  /\ Goto(c, "nap")
  /\ UNCHANGED <<mainVars, master, readFds, kernelVars, vec, stray, connVars,
                 cmd, idx, tgt, peerVars, loopVars>>

ClearBitNoSleep(c) ==
  /\ At(c, "clr")
  /\ master' = reg[c] \ {sock[c]}
  /\ lostUpdate' = (lostUpdate \/ master # reg[c])
  /\ reg' = [reg EXCEPT ![c] = {}]
  /\ Goto(c, "wake")
  /\ UNCHANGED <<mainVars, readFds, kernelVars, vec, stray, connVars, cmd, idx,
                 tgt, peerVars, loopVars>>

\* FD_CLR(client->socket, &master) stores the word; then usleep.
ClearBit(c) ==
  /\ At(c, "clr")
  /\ master' = reg[c] \ {sock[c]}
  /\ lostUpdate' = (lostUpdate \/ master # reg[c])
  /\ reg' = [reg EXCEPT ![c] = {}]
  /\ Goto(c, "nap")
  /\ UNCHANGED <<mainVars, readFds, kernelVars, vec, stray, connVars, cmd, idx,
                 tgt, peerVars, loopVars>>

\* Mutant: the search for the own position starts at the second entry.
CloseAndSkip(c) ==
  /\ At(c, "wake") \/ (At(c, "nap") /\ srv = "exiting")
  /\ fdTable' = [fdTable EXCEPT ![sock[c]] = NoConn]
  /\ idx' = [idx EXCEPT ![c] = 2] /\ shifted' = shifted \ {c}
  /\ Goto(c, "find")
  /\ UNCHANGED <<mainVars, fdVars, backlog, vec, stray, connVars, reg, cmd,
                 tgt, peerVars, owed, unsure>>

\* close(client->socket), after the sleep; conn_pos = 0.
CloseSocket(c) ==
  /\ At(c, "wake") \/ (At(c, "nap") /\ srv = "exiting")
  /\ fdTable' = [fdTable EXCEPT ![sock[c]] = NoConn]
  /\ idx' = [idx EXCEPT ![c] = 1] /\ shifted' = shifted \ {c}
  /\ Goto(c, "find")
  /\ UNCHANGED <<mainVars, fdVars, backlog, vec, stray, connVars, reg, cmd,
                 tgt, peerVars, owed, unsure>>

\* One iteration of the search for the connection's own position.
FindSelf(c) ==
  /\ At(c, "find")
  /\ IF idx[c] <= Len(vec) /\ vec[idx[c]] # c
       THEN idx' = [idx EXCEPT ![c] = @ + 1] /\ UNCHANGED pc
       ELSE Goto(c, "erase") /\ UNCHANGED idx
  /\ UNCHANGED <<mainVars, fdVars, kernelVars, vec, stray, connVars, reg, cmd,
                 tgt, peerVars, loopVars>>

InLoop(d) == pc[d] \in {"scan", "find", "erase", "bcast"}

\* erase(begin() + conn_pos).  Past the end it is undefined: the move of the
\* tail crashes, or only the count is decremented and the last entry is lost.
EraseSelf(c) ==
  /\ At(c, "erase")
  /\ \/ /\ idx[c] <= Len(vec)
        /\ vec' = Vector!RemoveAt(vec, idx[c])
        /\ stray' = (stray \/ vec[idx[c]] # c)
        /\ UNCHANGED srv
     \/ /\ idx[c] > Len(vec) /\ vec # <<>>
        /\ vec' = SubSeq(vec, 1, Len(vec) - 1)
        /\ stray' = TRUE
        /\ UNCHANGED srv
     \/ /\ idx[c] > Len(vec)
        /\ srv' = "down" /\ stray' = TRUE
        /\ UNCHANGED vec
  /\ shifted' = shifted \cup {d \in Conns : InLoop(d) /\ idx[d] > idx[c]}
  /\ owed' = [d \in Conns |-> owed[d] \cap {vec'[i] : i \in 1 .. Len(vec')}]
  /\ idx' = [idx EXCEPT ![c] = 1]
  /\ Goto(c, IF name[c] # NoName THEN "bcast" ELSE "done")
  /\ UNCHANGED <<mainPc, mainReg, newFd, nextId, fdVars, kernelVars, connVars,
                 reg, cmd, tgt, peerVars, unsure>>

-----------------------------------------------------------------------------
(* process_command: login, logout, chat.                                   *)

\* Threads between the start of a login's check of the name and its write.
InLogin(d) == \/ pc[d] = "scan" /\ cmd[d].op = "login"
              \/ pc[d] = "name"

\* Mutant: get_user_connection is not asked.
LoginUnchecked(c) ==
  /\ At(c, "login")
  /\ Goto(c, IF loggedIn[c] THEN "reply" ELSE "name")
  /\ unsure' = unsure \ {c}
  /\ UNCHANGED <<mainVars, fdVars, kernelVars, vec, stray, connVars, reg, cmd,
                 idx, tgt, peerVars, shifted, owed>>

\* login: refused when already logged in, else get_user_connection.
LoginCheck(c) ==
  /\ At(c, "login")
  /\ IF loggedIn[c]
       THEN Goto(c, "reply") /\ UNCHANGED <<idx, shifted, unsure>>
       ELSE /\ Goto(c, "scan")
            /\ idx' = [idx EXCEPT ![c] = 1] /\ shifted' = shifted \ {c}
            /\ unsure' = LET racing == {d \in Conns : InLogin(d)}
                         IN IF racing = {} THEN unsure \ {c}
                            ELSE unsure \cup racing \cup {c}
  /\ UNCHANGED <<mainVars, fdVars, kernelVars, vec, stray, connVars, reg, cmd,
                 tgt, peerVars, owed>>

\* One iteration of get_user_connection, for login and for chat @who.
ScanUser(c) ==
  /\ At(c, "scan")
  /\ \/ /\ idx[c] <= Len(vec) /\ name[vec[idx[c]]] # cmd[c].who
        /\ idx' = [idx EXCEPT ![c] = @ + 1]
        /\ UNCHANGED <<pc, tgt, unsure>>
     \/ /\ idx[c] <= Len(vec) /\ name[vec[idx[c]]] = cmd[c].who
        /\ IF cmd[c].op = "login"
             THEN Goto(c, "reply") /\ UNCHANGED tgt
             ELSE /\ Goto(c, "dm")
                  /\ tgt' = [tgt EXCEPT ![c] = vec[idx[c]]]
        /\ UNCHANGED <<idx, unsure>>
     \/ /\ idx[c] > Len(vec)
        /\ Goto(c, IF cmd[c].op = "login" THEN "name" ELSE "reply")
        /\ unsure' = IF c \in shifted THEN unsure \cup {c} ELSE unsure
        /\ UNCHANGED <<idx, tgt>>
  /\ UNCHANGED <<mainVars, fdVars, kernelVars, vec, stray, connVars, reg, cmd,
                 peerVars, shifted, owed>>

\* conn->username = tokens[1].
SetName(c) ==
  /\ At(c, "name")
  /\ name' = [name EXCEPT ![c] = cmd[c].who]
  /\ Goto(c, "flag")
  /\ UNCHANGED <<mainVars, fdVars, kernelVars, vec, stray, sock, loggedIn,
                 exiting, reg, cmd, idx, tgt, peerVars, loopVars>>

\* conn->loggged_in = true.
SetFlag(c) ==
  /\ At(c, "flag")
  /\ loggedIn' = [loggedIn EXCEPT ![c] = TRUE]
  /\ Goto(c, "greet")
  /\ UNCHANGED <<mainVars, fdVars, kernelVars, vec, stray, sock, name, exiting,
                 reg, cmd, idx, tgt, peerVars, loopVars>>

\* The reply after a login or a logout; the others are told next.
Greet(c) ==
  /\ At(c, "greet")
  /\ Send(sock[c])
  /\ idx' = [idx EXCEPT ![c] = 1] /\ shifted' = shifted \ {c}
  /\ Goto(c, "bcast")
  /\ UNCHANGED <<mainPc, mainReg, newFd, nextId, fdVars, kernelVars, vec,
                 stray, connVars, reg, cmd, tgt, inbox, commands, hangUps,
                 owed, unsure>>

\* Mutant: the flag stays set.
LogoutNameOnly(c) ==
  /\ At(c, "logout")
  /\ Goto(c, IF loggedIn[c] THEN "unname" ELSE "reply")
  /\ UNCHANGED <<mainVars, fdVars, kernelVars, vec, stray, connVars, reg, cmd,
                 idx, tgt, peerVars, loopVars>>

\* logout: refused when not logged in, else conn->loggged_in = false.
LogoutCheck(c) ==
  /\ At(c, "logout")
  /\ IF loggedIn[c]
       THEN /\ loggedIn' = [loggedIn EXCEPT ![c] = FALSE]
            /\ owed' = [d \in Conns |-> owed[d] \ {c}]
            /\ Goto(c, "unname")
       ELSE Goto(c, "reply") /\ UNCHANGED <<loggedIn, owed>>
  /\ UNCHANGED <<mainVars, fdVars, kernelVars, vec, stray, sock, name, exiting,
                 reg, cmd, idx, tgt, peerVars, shifted, unsure>>

\* conn->username = "".
ClearName(c) ==
  /\ At(c, "unname")
  /\ name' = [name EXCEPT ![c] = NoName]
  /\ Goto(c, "greet")
  /\ UNCHANGED <<mainVars, fdVars, kernelVars, vec, stray, sock, loggedIn,
                 exiting, reg, cmd, idx, tgt, peerVars, loopVars>>

\* chat: refused when not logged in; `@who` looks the user up, anything else
\* is broadcast.
ChatCheck(c) ==
  /\ At(c, "chat")
  /\ idx' = [idx EXCEPT ![c] = 1] /\ shifted' = shifted \ {c}
  /\ \/ /\ ~loggedIn[c]
        /\ Goto(c, "reply")
        /\ UNCHANGED owed
     \/ /\ loggedIn[c] /\ cmd[c].op = "chatTo"
        /\ Goto(c, "scan")
        /\ UNCHANGED owed
     \/ /\ loggedIn[c] /\ cmd[c].op = "chatAll"
        /\ Goto(c, "bcast")
        /\ owed' = [owed EXCEPT ![c] = {d \in Listed \ {c} : loggedIn[d]}]
  /\ UNCHANGED <<mainVars, fdVars, kernelVars, vec, stray, connVars, reg, cmd,
                 tgt, peerVars, unsure>>

\* if(r_conn->loggged_in).
DmCheck(c) ==
  /\ At(c, "dm")
  /\ Goto(c, IF loggedIn[tgt[c]] THEN "dmsend" ELSE "reply")
  /\ UNCHANGED <<mainVars, fdVars, kernelVars, vec, stray, connVars, reg, cmd,
                 idx, tgt, peerVars, loopVars>>

\* send_token_to_client(chat, r_conn, false, false) checks the flag again.
DmSend(c) ==
  /\ At(c, "dmsend")
  /\ IF loggedIn[tgt[c]] THEN Send(sock[tgt[c]]) ELSE UNCHANGED <<peer, srv>>
  /\ Goto(c, "reply")
  /\ UNCHANGED <<mainPc, mainReg, newFd, nextId, fdVars, kernelVars, vec,
                 stray, connVars, reg, cmd, idx, tgt, inbox, commands, hangUps,
                 loopVars>>

\* Mutant: the loop ends at the first connection it does not send to.
BroadcastBreaks(c) ==
  /\ At(c, "bcast") /\ idx[c] <= Len(vec)
  /\ LET d == vec[idx[c]] IN
       /\ owed' = [owed EXCEPT ![c] = @ \ {d}]
       /\ IF d # c /\ (loggedIn[d] \/ cmd[c].op # "chatAll")
            THEN Send(sock[d]) /\ idx' = [idx EXCEPT ![c] = @ + 1]
            ELSE UNCHANGED <<peer, srv>> /\ idx' = [idx EXCEPT ![c] = Len(vec) + 1]
  /\ UNCHANGED <<mainPc, mainReg, newFd, nextId, fdVars, kernelVars, vec,
                 stray, connVars, pc, reg, cmd, tgt, inbox, commands, hangUps,
                 shifted, unsure>>

\* One iteration of a broadcast: a chat goes to those logged in, a notice
\* (joined, left, disconnected) to every connection but the sender's.
BroadcastStep(c) ==
  /\ At(c, "bcast") /\ idx[c] <= Len(vec)
  /\ LET d == vec[idx[c]] IN
       /\ IF d # c /\ (loggedIn[d] \/ cmd[c].op # "chatAll")
            THEN Send(sock[d]) ELSE UNCHANGED <<peer, srv>>
       /\ owed' = [owed EXCEPT ![c] = @ \ {d}]
  /\ idx' = [idx EXCEPT ![c] = @ + 1]
  /\ UNCHANGED <<mainPc, mainReg, newFd, nextId, fdVars, kernelVars, vec,
                 stray, connVars, pc, reg, cmd, tgt, inbox, commands, hangUps,
                 shifted, unsure>>

BroadcastEnd(c) ==
  /\ At(c, "bcast") /\ idx[c] > Len(vec)
  /\ Goto(c, IF cmd[c] = Gone THEN "done"
             ELSE IF cmd[c].op = "chatAll" THEN "reply" ELSE "poll")
  /\ owed' = [owed EXCEPT ![c] = {}]
  /\ EndCommand(c)
  /\ UNCHANGED <<mainVars, fdVars, kernelVars, vec, stray, connVars, reg,
                 peerVars, unsure>>

\* The last reply to the client itself, then usleep and back to polling.
Reply(c) ==
  /\ At(c, "reply")
  /\ Send(sock[c])
  /\ Goto(c, "poll")
  /\ EndCommand(c)
  /\ UNCHANGED <<mainPc, mainReg, newFd, nextId, fdVars, kernelVars, vec,
                 stray, connVars, reg, inbox, commands, hangUps, owed, unsure>>

-----------------------------------------------------------------------------
Main == \/ CopyMaster \/ Select \/ Accept \/ SetBit \/ Register
        \/ MarkExiting \/ ExitProcess

Reader(c) ==
  \/ Poll(c) \/ RecvPacket(c) \/ RecvEnd(c) \/ ClearBit(c) \/ CloseSocket(c)
  \/ FindSelf(c) \/ EraseSelf(c)
  \/ LoginCheck(c) \/ ScanUser(c) \/ SetName(c) \/ SetFlag(c) \/ Greet(c)
  \/ LogoutCheck(c) \/ ClearName(c)
  \/ ChatCheck(c) \/ DmCheck(c) \/ DmSend(c)
  \/ BroadcastStep(c) \/ BroadcastEnd(c) \/ Reply(c)

Client(c) == \/ SendCommand(c) \/ StopReading(c) \/ ResumeReading(c)
             \/ HangUp(c)

\* The process is gone: the only way the server stops.
Stopped == srv = "down" /\ UNCHANGED vars

Next == \/ Connect \/ Main \/ SigInt \/ Stopped
        \/ \E c \in Conns : Client(c) \/ Reader(c)

Spec == Init /\ [][Next]_vars

\* The scheduler runs every thread of the process; clients and SIGINT are free:
\* a client need not hang up, and one that has stopped reading need not resume.
Fairness == WF_vars(Main) /\ \A c \in Conns : WF_vars(Reader(c))

FairSpec == Spec /\ Fairness
-----------------------------------------------------------------------------
(* Properties.                                                             *)

Registered(c) == c < nextId

\* The reader has cleared its bit of master and is tearing down.
Cleared(c) == \/ pc[c] \in {"nap", "wake", "find", "erase", "done"}
              \/ pc[c] = "bcast" /\ cmd[c] = Gone

\* The reader has removed its connection from activeconnections.
Removed(c) == pc[c] = "done" \/ (pc[c] = "bcast" /\ cmd[c] = Gone)

\* As long as no two threads overlapped inside FD_SET / FD_CLR, the main thread
\* selects on exactly the sockets whose reader still serves them, plus the one
\* just accepted: nobody is deaf, nobody is watched after his tear-down.
MasterTracksSockets ==
  srv = "up" /\ ~lostUpdate =>
    master = {sock[c] : c \in {d \in Conns : Registered(d) /\ ~Cleared(d)}}
               \cup (IF mainPc = "register" THEN {newFd} ELSE {})

\* What the comment of server.cpp:182 promises of the sleep before close: no
\* select ever runs on a closed descriptor, a reused one included.  It needs
\* that no update of master was lost.
SelectSeesOpenSockets ==
  srv = "up" /\ ~lostUpdate /\ mainPc = "select" =>
    \A f \in readFds \ {Serv} :
      \E c \in Conns : Registered(c) /\ sock[c] = f /\ fdTable[f] = c

\* The search of read_from_client finds the thread's own entry, and erase
\* removes that entry, unless another thread's erase moved the vector under it.
ErasesItself ==
  \A c \in Conns :
    pc[c] = "erase" /\ c \notin shifted /\ ~stray =>
      idx[c] <= Len(vec) /\ vec[idx[c]] = c

\* Until an erase strays, activeconnections lists every connection that has
\* not removed itself exactly once and no other: the chat reaches everybody,
\* and no name of a departed user stays taken.
RegistryIsExact ==
  ~stray =>
    /\ Listed = {c \in Conns : Registered(c) /\ ~Removed(c)}
    /\ Len(vec) = Cardinality(Listed)

\* Two listed users who are logged in under one name: one of the two logged in
\* while another login, or an erase, was under way (get_user_connection and
\* the write of the name are not one step).  Logins that overlap nothing keep
\* names unique, through logouts, renames and departures.
UniqueUnlessRaced ==
  ~stray =>
    \A c, d \in Listed :
      c # d /\ loggedIn[c] /\ loggedIn[d] /\ name[c] = name[d]
        => c \in unsure \/ d \in unsure

\* `login` with an empty name is refused: the search finds the connection of
\* the user himself, whose name is empty.  It is what makes username != ""
\* stand for "logged in" in read_from_client and process_client_message.
LoggedInIsNamed ==
  ~stray => \A c \in Conns : loggedIn[c] /\ name[c] = NoName => c \in unsure

\* A broadcast chat has reached, or has still ahead of it, everybody who was
\* logged in when it began and has stayed, unless an erase moved the vector
\* during the loop.
BroadcastReachesAll ==
  \A c \in Conns :
    pc[c] = "bcast" /\ c \notin shifted =>
      owed[c] \subseteq {vec[i] : i \in idx[c] .. Len(vec)}

\* The server stopped being a chat server for this connection.
Degraded == srv # "up" \/ lostUpdate

\* Whom a reader that has come to a send is about to send to.
Receivers(c) ==
  CASE pc[c] \in {"greet", "reply"} -> {c}
    [] pc[c] = "dmsend" -> {d \in {tgt[c]} : loggedIn[d]}
    [] pc[c] = "bcast" /\ idx[c] <= Len(vec) ->
         {d \in {vec[idx[c]]} \ {c} : loggedIn[d] \/ cmd[c].op # "chatAll"}
    [] OTHER -> {}

\* The reader waits in send() for somebody who does not read: the client whose
\* command it runs, the addressee of a chat, or anybody in the way of a
\* broadcast, the notice that its own client has left included.
Held(c) == \E d \in Receivers(c) :
             Reached(sock[d]) # NoConn /\ peer[Reached(sock[d])] = "full"

\* A client that hangs up is noticed and removed from the registry, unless its
\* reader waits for a client that does not read, be it another one; and when
\* that client reads again or hangs up, the removal is still to come.
HangUpIsCleanedUp ==
  \A c \in Conns :
    pc[c] # "none" /\ Ended(c) ~> Removed(c) \/ Degraded \/ Held(c)

\* A packet a client sends is read, with the same exception.
CommandIsTaken ==
  \A c \in Conns : inbox[c] # <<>> ~> inbox[c] = <<>> \/ Degraded \/ Held(c)

\* Once SIGINT or a select error starts exit_server, the process ends.
ExitCompletes == srv = "exiting" ~> srv = "down"

\* server.cpp:261: a name that is present is refused, so no two users share one.
UniqueNames ==
  \A c, d \in Listed :
    c # d /\ loggedIn[c] /\ loggedIn[d] => name[c] # name[d]

\* server.cpp:182: the sleep before close avoids a select error.
SelectNeverFails ==
  srv = "up" /\ mainPc = "select" =>
    \A f \in readFds \ {Serv} : fdTable[f] # NoConn
=============================================================================

-------------------------- MODULE ChatServerProofs --------------------------
(***************************************************************************)
(* The chat server for every number of connections, names and descriptors: *)
(* its types, its descriptor sets, and its vector of connections.  As long *)
(* as no update of `master` is lost, it holds exactly the sockets in       *)
(* service, and select is never given a closed one.                        *)
(***************************************************************************)
EXTENDS ChatServer, SequenceTheorems, FiniteSetTheorems, TLAPS

-----------------------------------------------------------------------------
(* Type correctness.                                                       *)

\* TypeOK is not inductive: that accept finds a queued connection with an id
\* below the bound, and stores a real descriptor, comes from these three facts.
AcceptsOnlyQueued ==
  /\ srv = "up" => Made <= MaxConns
  /\ srv = "up" /\ mainPc = "accept" /\ Serv \in readFds => backlog > 0
  /\ srv = "up" /\ mainPc \in {"set", "register"} => newFd \in Fds

TypeInv == TypeOK /\ AcceptsOnlyQueued

LEMMA InitTypeInv == Init => TypeInv
<1> SUFFICES ASSUME Init PROVE TypeInv
  OBVIOUS
<1>1. MainType /\ KernelType
  BY ConstantAssumption DEF Init, MainType, KernelType, MainPc
<1>2. FdType
  BY DEF Init, FdType
<1>3. RegistryType
  <2>1. vec \in Seq(Conns)
    BY DEF Init
  <2>2. stray \in BOOLEAN
    BY DEF Init
  <2> QED BY <2>1, <2>2 DEF RegistryType
<1>4. ConnType
  BY DEF Init, ConnType
<1>5. ThreadType
  BY DEF Init, ThreadType, ReaderPc
<1>6. PeerType
  BY ConstantAssumption, EmptySeq DEF Init, PeerType, PeerState, There
<1>7. LoopType
  BY DEF Init, LoopType
<1>8. AcceptsOnlyQueued
  BY ConstantAssumption DEF Init, AcceptsOnlyQueued, Made
<1> QED
  BY <1>1, <1>2, <1>3, <1>4, <1>5, <1>6, <1>7, <1>8 DEF TypeInv, TypeOK

\* A step that leaves a group of variables alone leaves its type alone.
LEMMA Frame ==
  ASSUME TypeInv
  PROVE  /\ UNCHANGED mainVars => MainType'
         /\ UNCHANGED fdVars => FdType'
         /\ UNCHANGED kernelVars => KernelType'
         /\ UNCHANGED <<vec, stray>> => RegistryType'
         /\ UNCHANGED connVars => ConnType'
         /\ UNCHANGED threadVars => ThreadType'
         /\ UNCHANGED peerVars => PeerType'
         /\ UNCHANGED loopVars => LoopType'
         /\ UNCHANGED <<mainVars, fdVars, kernelVars>> => AcceptsOnlyQueued'
<1> USE DEF TypeInv, TypeOK
<1>1. UNCHANGED mainVars => MainType'
  BY DEF MainType, mainVars
<1>2. UNCHANGED fdVars => FdType'
  BY DEF FdType, fdVars
<1>3. UNCHANGED kernelVars => KernelType'
  BY DEF KernelType, kernelVars
<1>4. UNCHANGED <<vec, stray>> => RegistryType'
  BY DEF RegistryType
<1>5. UNCHANGED connVars => ConnType'
  BY DEF ConnType, connVars
<1>6. UNCHANGED threadVars => ThreadType'
  BY DEF ThreadType, threadVars
<1>7. UNCHANGED peerVars => PeerType'
  BY DEF PeerType, peerVars
<1>8. UNCHANGED loopVars => LoopType'
  BY DEF LoopType, loopVars
<1>9. UNCHANGED <<mainVars, fdVars, kernelVars>> => AcceptsOnlyQueued'
  BY DEF AcceptsOnlyQueued, Made, mainVars, fdVars, kernelVars
<1> QED
  BY <1>1, <1>2, <1>3, <1>4, <1>5, <1>6, <1>7, <1>8, <1>9

\* What a send does: it may learn of a reset, or end the process.
LEMMA SendType ==
  ASSUME TypeInv, NEW fd, Send(fd), UNCHANGED <<inbox, commands, hangUps>>,
         UNCHANGED <<mainPc, mainReg, newFd, nextId, fdVars, kernelVars>>
  PROVE  PeerType' /\ MainType' /\ AcceptsOnlyQueued'
<1> USE DEF TypeInv, TypeOK
<1>1. peer' \in [Conns -> PeerState] /\ srv' \in {srv, "down"}
  BY DEF Send, PeerType, PeerState, There
<1>2. AcceptsOnlyQueued'
  BY <1>1 DEF AcceptsOnlyQueued, Made, fdVars, kernelVars, MainType
<1> QED
  BY <1>1, <1>2 DEF PeerType, MainType

\* An erase leaves a sequence of connections.
LEMMA RemoveAtType ==
  ASSUME NEW S, NEW s \in Seq(S), NEW i \in 1 .. Len(s)
  PROVE  Vector!RemoveAt(s, i) \in Seq(S)
<1>1. SubSeq(s, 1, i - 1) \in Seq(S) /\ SubSeq(s, i + 1, Len(s)) \in Seq(S)
  BY SubSeqProperties
<1> QED
  BY <1>1, ConcatProperties DEF Vector!RemoveAt

LEMMA MainTypeInv == TypeInv /\ Main => TypeInv'
<1> SUFFICES ASSUME TypeInv, Main
             PROVE  TypeInv'
  OBVIOUS
<1> USE ConstantAssumption
<1>1. CASE CopyMaster
  <2>1. MainType' /\ FdType' /\ AcceptsOnlyQueued'
    BY <1>1 DEF CopyMaster, MainAt, MainType, FdType, MainPc, TypeInv, TypeOK,
                AcceptsOnlyQueued, Made, kernelVars
  <2>2. ThreadType'
    BY <1>1 DEF CopyMaster, ThreadType, ReaderPc, TypeInv, TypeOK
  <2> QED
    BY <1>1, <2>1, <2>2, Frame DEF CopyMaster, TypeInv, TypeOK
<1>2. CASE Select
  <2>1. MainType' /\ FdType'
    BY <1>2 DEF Select, MainType, FdType, MainPc, TypeInv, TypeOK
  <2>2. AcceptsOnlyQueued'
    BY <1>2 DEF Select, MainAt, Readable, AcceptsOnlyQueued, Made, TypeInv,
                TypeOK, kernelVars
  <2> QED
    BY <1>2, <2>1, <2>2, Frame DEF Select, TypeInv, TypeOK
<1>3. CASE Accept
  <2> USE DEF TypeInv, TypeOK, MainType, FdType, KernelType, AcceptsOnlyQueued,
              Made, MainPc, MainAt, fdVars
  <2>1. CASE Serv \notin readFds \/ FreeFds = {}
    <3>1. mainPc' = "copy" /\ UNCHANGED <<srv, nextId, fdVars>>
          /\ UNCHANGED <<fdTable, backlog, newFd, mainReg>>
      BY <1>3, <2>1 DEF Accept
    <3>2. MainType' /\ KernelType' /\ AcceptsOnlyQueued'
      BY <3>1, <1>3 DEF Accept
    <3> QED
      BY <1>3, <3>2, Frame DEF Accept
  <2>2. CASE Serv \in readFds /\ FreeFds # {}
    <3>1. PICK f \in Fds : newFd' = f /\ fdTable' = [fdTable EXCEPT ![f] = nextId]
      BY <1>3, <2>2 DEF Accept, FreeFds
    <3>2. /\ srv = "up" /\ mainPc = "accept" /\ backlog' = backlog - 1
          /\ mainReg' = master /\ mainPc' = "set" /\ UNCHANGED <<srv, nextId, fdVars>>
      BY <1>3, <2>2 DEF Accept
    <3>3. backlog > 0 /\ nextId \in Conns
      BY <2>2, <3>2 DEF Conns
    <3>4. MainType' /\ KernelType' /\ AcceptsOnlyQueued'
      BY <3>1, <3>2, <3>3
    <3> QED
      BY <1>3, <3>4, Frame DEF Accept
  <2> QED BY <2>1, <2>2
<1>4. CASE SetBit
  <2>1. MainType' /\ FdType' /\ AcceptsOnlyQueued'
    BY <1>4 DEF SetBit, MainAt, MainType, MainPc, FdType, AcceptsOnlyQueued, Made,
                TypeInv, TypeOK, kernelVars
  <2> QED
    BY <1>4, <2>1, Frame DEF SetBit, TypeInv, TypeOK
<1>5. CASE Register
  <2>1. nextId \in Conns /\ newFd \in Fds
    BY <1>5 DEF Register, MainAt, Made, AcceptsOnlyQueued, TypeInv, TypeOK,
                MainType, KernelType, Conns
  <2>2. MainType' /\ AcceptsOnlyQueued'
    BY <1>5, <2>1 DEF Register, MainAt, MainType, MainPc, AcceptsOnlyQueued, Made,
                      TypeInv, TypeOK, KernelType, kernelVars, fdVars, Conns
  <2>3. RegistryType'
    BY <1>5, <2>1, AppendProperties DEF Register, RegistryType, TypeInv, TypeOK
  <2>4. ConnType' /\ ThreadType'
    BY <1>5, <2>1 DEF Register, Goto, ConnType, ThreadType, ReaderPc, TypeInv,
                      TypeOK
  <2> QED
    BY <1>5, <2>2, <2>3, <2>4, Frame DEF Register, TypeInv, TypeOK
<1>6. CASE MarkExiting
  <2>1. MainType' /\ FdType' /\ AcceptsOnlyQueued'
    BY <1>6 DEF MarkExiting, MainType, MainPc, FdType, AcceptsOnlyQueued,
                TypeInv, TypeOK
  <2>2. ConnType'
    BY <1>6 DEF MarkExiting, ConnType, TypeInv, TypeOK
  <2> QED
    BY <1>6, <2>1, <2>2, Frame DEF MarkExiting, TypeInv, TypeOK
<1>7. CASE ExitProcess
  <2>1. MainType' /\ KernelType' /\ AcceptsOnlyQueued'
    BY <1>7 DEF ExitProcess, MainType, MainPc, KernelType, AcceptsOnlyQueued,
                TypeInv, TypeOK
  <2> QED
    BY <1>7, <2>1, Frame DEF ExitProcess, TypeInv, TypeOK
<1> QED
  BY <1>1, <1>2, <1>3, <1>4, <1>5, <1>6, <1>7 DEF Main

\* The clients and the operator change only the queues.
LEMMA OutsideTypeInv ==
  ASSUME TypeInv, Connect \/ SigInt \/ Stopped \/ \E c \in Conns : Client(c)
  PROVE  TypeInv'
<1> USE ConstantAssumption
<1>1. CASE Connect
  <2>1. KernelType' /\ AcceptsOnlyQueued'
    BY <1>1 DEF Connect, KernelType, AcceptsOnlyQueued, Made, TypeInv, TypeOK,
                MainType, mainVars, fdVars
  <2> QED
    BY <1>1, <2>1, Frame DEF Connect, TypeInv, TypeOK
<1>2. CASE SigInt
  <2>1. MainType' /\ AcceptsOnlyQueued'
    BY <1>2 DEF SigInt, MainType, MainPc, AcceptsOnlyQueued, TypeInv, TypeOK
  <2> QED
    BY <1>2, <2>1, Frame DEF SigInt, TypeInv, TypeOK
<1>3. CASE Stopped
  <2>1. UNCHANGED <<mainVars, fdVars, kernelVars, vec, stray, connVars, threadVars,
                    peerVars, loopVars>>
    BY <1>3 DEF Stopped, vars
  <2> QED
    BY <2>1, Frame DEF TypeInv, TypeOK
<1>4. ASSUME NEW c \in Conns, Client(c) PROVE TypeInv'
  <2>1. CASE SendCommand(c)
    <3>1. PICK m \in Commands : inbox' = [inbox EXCEPT ![c] = Append(@, m)]
      BY <2>1 DEF SendCommand
    <3>2. Append(inbox[c], m) \in Seq(Command)
      BY <3>1, AppendProperties DEF TypeInv, TypeOK, PeerType
    <3>3. PeerType'
      BY <2>1, <3>1, <3>2 DEF SendCommand, PeerType, TypeInv, TypeOK
    <3> QED
      BY <2>1, <3>3, Frame DEF SendCommand, TypeInv, TypeOK
  <2>2. CASE HangUp(c)
    <3>1. PeerType'
      BY <2>2 DEF HangUp, PeerType, PeerState, There, TypeInv, TypeOK
    <3> QED
      BY <2>2, <3>1, Frame DEF HangUp, TypeInv, TypeOK
  <2>3. CASE StopReading(c) \/ ResumeReading(c)
    <3>1. PeerType'
      BY <2>3 DEF StopReading, ResumeReading, PeerType, PeerState, There, TypeInv, TypeOK
    <3> QED
      BY <2>3, <3>1, Frame DEF StopReading, ResumeReading, TypeInv, TypeOK
  <2> QED
    BY <1>4, <2>1, <2>2, <2>3 DEF Client
<1> QED
  BY <1>1, <1>2, <1>3, <1>4

LEMMA ReaderTypeInv ==
  ASSUME TypeInv, NEW c \in Conns, Reader(c)
  PROVE  TypeInv'
<1> USE DEF TypeInv, TypeOK, Goto
<1>1. CASE Poll(c)
  <2>1. ThreadType'
    BY <1>1 DEF Poll, ThreadType, ReaderPc
  <2> QED
    BY <1>1, <2>1, Frame DEF Poll
<1>2. CASE RecvPacket(c)
  <2>1. Head(inbox[c]) \in Command
    BY <1>2 DEF RecvPacket, PeerType
  <2>2. PeerType'
    BY <1>2, EmptySeq DEF RecvPacket, PeerType
  <2>3. ThreadType'
    BY <1>2, <2>1 DEF RecvPacket, First, ThreadType, ReaderPc
  <2> QED
    BY <1>2, <2>2, <2>3, Frame DEF RecvPacket
<1>3. CASE RecvEnd(c)
  <2>1. ThreadType'
    BY <1>3 DEF RecvEnd, ThreadType, ReaderPc, FdType
  <2>2. PeerType'
    BY <1>3 DEF RecvEnd, PeerType, PeerState
  <2> QED
    BY <1>3, <2>1, <2>2, Frame DEF RecvEnd
<1>4. CASE ClearBit(c)
  <2>1. ThreadType' /\ FdType' /\ AcceptsOnlyQueued'
    BY <1>4 DEF ClearBit, ThreadType, ReaderPc, FdType, AcceptsOnlyQueued, Made,
                mainVars, kernelVars
  <2> QED
    BY <1>4, <2>1, Frame DEF ClearBit
<1>5. CASE CloseSocket(c)
  <2>1. ThreadType' /\ LoopType'
    BY <1>5 DEF CloseSocket, ThreadType, ReaderPc, LoopType
  <2>2. KernelType' /\ AcceptsOnlyQueued'
    BY <1>5 DEF CloseSocket, KernelType, AcceptsOnlyQueued, Made, mainVars,
                fdVars
  <2> QED
    BY <1>5, <2>1, <2>2, Frame DEF CloseSocket
<1>6. CASE FindSelf(c)
  <2>1. ThreadType'
    BY <1>6 DEF FindSelf, ThreadType, ReaderPc
  <2> QED
    BY <1>6, <2>1, Frame DEF FindSelf
<1>7. CASE EraseSelf(c)
  <2>1. RegistryType'
    <3>1. vec \in Seq(Conns) /\ idx[c] \in Nat \ {0} /\ Len(vec) \in Nat
      BY DEF RegistryType, ThreadType
    <3>2. idx[c] <= Len(vec) => Vector!RemoveAt(vec, idx[c]) \in Seq(Conns)
      BY <3>1, RemoveAtType
    <3>3. vec # <<>> => SubSeq(vec, 1, Len(vec) - 1) \in Seq(Conns)
      BY <3>1, EmptySeq, SubSeqProperties
    <3>4. vec' \in Seq(Conns)
      BY <1>7, <3>1, <3>2, <3>3 DEF EraseSelf
    <3>5. stray' \in BOOLEAN
      BY <1>7 DEF EraseSelf, RegistryType
    <3> QED BY <3>4, <3>5 DEF RegistryType
  <2>2. ThreadType'
    BY <1>7 DEF EraseSelf, ThreadType, ReaderPc
  <2>3. LoopType'
    BY <1>7 DEF EraseSelf, LoopType
  <2>4. MainType' /\ AcceptsOnlyQueued'
    BY <1>7 DEF EraseSelf, MainType, AcceptsOnlyQueued, Made, fdVars, kernelVars
  <2> QED
    BY <1>7, <2>1, <2>2, <2>3, <2>4, Frame DEF EraseSelf
<1>8. CASE LoginCheck(c)
  <2>1. ThreadType' /\ LoopType'
    BY <1>8 DEF LoginCheck, ThreadType, ReaderPc, LoopType
  <2> QED
    BY <1>8, <2>1, Frame DEF LoginCheck
<1>9. CASE ScanUser(c)
  <2>1. idx[c] <= Len(vec) => vec[idx[c]] \in Conns
    BY DEF ThreadType, RegistryType
  <2>2. pc' \in [Conns -> ReaderPc] /\ UNCHANGED <<reg, cmd>>
    BY <1>9 DEF ScanUser, ThreadType, ReaderPc
  <2>3. idx' \in [Conns -> Nat \ {0}]
    BY <1>9 DEF ScanUser, ThreadType
  <2>4. tgt' \in [Conns -> Conns \cup {NoConn}]
    BY <1>9, <2>1 DEF ScanUser, ThreadType
  <2>5. LoopType'
    BY <1>9 DEF ScanUser, LoopType
  <2> QED
    BY <1>9, <2>2, <2>3, <2>4, <2>5, Frame DEF ScanUser, ThreadType
<1>10. CASE SetName(c)
  <2>1. cmd[c].who \in Names \cup {NoName}
    BY DEF ThreadType, Command, NoCommand, Gone
  <2>2. ConnType' /\ ThreadType'
    BY <1>10, <2>1 DEF SetName, ConnType, ThreadType, ReaderPc
  <2> QED
    BY <1>10, <2>2, Frame DEF SetName
<1>11. CASE SetFlag(c)
  <2>1. ConnType' /\ ThreadType'
    BY <1>11 DEF SetFlag, ConnType, ThreadType, ReaderPc
  <2> QED
    BY <1>11, <2>1, Frame DEF SetFlag
<1>12. CASE Greet(c)
  <2>1. ThreadType' /\ LoopType'
    BY <1>12 DEF Greet, ThreadType, ReaderPc, LoopType
  <2> QED
    BY <1>12, <2>1, SendType, Frame DEF Greet
<1>13. CASE LogoutCheck(c)
  <2>1. ConnType'
    BY <1>13 DEF LogoutCheck, ConnType
  <2>2. ThreadType'
    BY <1>13 DEF LogoutCheck, ThreadType, ReaderPc
  <2>3. LoopType'
    BY <1>13 DEF LogoutCheck, LoopType
  <2> QED
    BY <1>13, <2>1, <2>2, <2>3, Frame DEF LogoutCheck
<1>14. CASE ClearName(c)
  <2>1. ConnType' /\ ThreadType'
    BY <1>14 DEF ClearName, ConnType, ThreadType, ReaderPc
  <2> QED
    BY <1>14, <2>1, Frame DEF ClearName
<1>15. CASE ChatCheck(c)
  <2>1. ThreadType'
    BY <1>15 DEF ChatCheck, ThreadType, ReaderPc
  <2>2. LoopType'
    BY <1>15 DEF ChatCheck, LoopType, Listed, RegistryType
  <2> QED
    BY <1>15, <2>1, <2>2, Frame DEF ChatCheck
<1>16. CASE DmCheck(c)
  <2>1. ThreadType'
    BY <1>16 DEF DmCheck, ThreadType, ReaderPc
  <2> QED
    BY <1>16, <2>1, Frame DEF DmCheck
<1>17. CASE DmSend(c)
  <2>1. ThreadType'
    BY <1>17 DEF DmSend, ThreadType, ReaderPc
  <2>2. PeerType' /\ MainType' /\ AcceptsOnlyQueued'
    <3>1. CASE loggedIn[tgt[c]]
      BY <1>17, <3>1, SendType DEF DmSend
    <3>2. CASE ~loggedIn[tgt[c]]
      <4>1. UNCHANGED <<mainVars, peerVars, fdVars, kernelVars>>
        BY <1>17, <3>2 DEF DmSend, mainVars, peerVars
      <4> QED BY <4>1, Frame
    <3> QED BY <3>1, <3>2
  <2> QED
    BY <1>17, <2>1, <2>2, Frame DEF DmSend
<1>18. CASE BroadcastStep(c)
  <2>1. ThreadType' /\ LoopType'
    BY <1>18 DEF BroadcastStep, ThreadType, ReaderPc, LoopType
  <2>2. PeerType' /\ MainType' /\ AcceptsOnlyQueued'
    <3>1. CASE UNCHANGED <<peer, srv>>
      <4>1. UNCHANGED <<mainVars, peerVars, fdVars, kernelVars>>
        BY <1>18, <3>1 DEF BroadcastStep, mainVars, peerVars
      <4> QED BY <4>1, Frame
    <3>2. CASE Send(sock[vec[idx[c]]])
      BY <1>18, <3>2, SendType DEF BroadcastStep
    <3> QED BY <1>18, <3>1, <3>2 DEF BroadcastStep
  <2> QED
    BY <1>18, <2>1, <2>2, Frame DEF BroadcastStep
<1>19. CASE BroadcastEnd(c)
  <2>1. ThreadType' /\ LoopType'
    BY <1>19 DEF BroadcastEnd, EndCommand, ThreadType, ReaderPc, LoopType
  <2> QED
    BY <1>19, <2>1, Frame DEF BroadcastEnd
<1>20. CASE Reply(c)
  <2>1. ThreadType' /\ LoopType'
    BY <1>20 DEF Reply, EndCommand, ThreadType, ReaderPc, LoopType
  <2> QED
    BY <1>20, <2>1, SendType, Frame DEF Reply
<1> QED
  BY <1>1, <1>2, <1>3, <1>4, <1>5, <1>6, <1>7, <1>8, <1>9, <1>10, <1>11, <1>12,
     <1>13, <1>14, <1>15, <1>16, <1>17, <1>18, <1>19, <1>20 DEF Reader

LEMMA NextTypeInv == TypeInv /\ [Next]_vars => TypeInv'
<1>1. ASSUME TypeInv, UNCHANGED vars PROVE TypeInv'
  BY <1>1, Frame DEF vars, TypeInv, TypeOK
<1> QED
  BY <1>1, MainTypeInv, OutsideTypeInv, ReaderTypeInv DEF Next

\* Every variable of the server keeps its type: in particular the id and the
\* descriptor handed to a new reader thread exist, and no loop index is 0.
THEOREM TypeCorrect == Spec => []TypeOK
<1>1. TypeInv => TypeOK
  BY DEF TypeInv
<1> QED
  BY InitTypeInv, NextTypeInv, <1>1, PTL DEF Spec
-----------------------------------------------------------------------------
(* The descriptor sets.                                                    *)

Teardown == {"clr", "nap", "wake", "find", "erase"}

\* A reader exists for the registered connections only, and it is in its
\* tear-down, or telling the others of it, exactly while cmd is Gone.
ReaderPhases ==
  \A c \in Conns :
    /\ pc[c] = "none" <=> ~Registered(c)
    /\ pc[c] \in Teardown => cmd[c] = Gone
    /\ cmd[c] = Gone => pc[c] \in Teardown \cup {"bcast", "done"}

\* The reader has not closed its socket yet.
HasSocket(c) == Registered(c) /\ pc[c] \notin {"find", "erase"} /\ ~Removed(c)

\* No two threads own one descriptor: the kernel's table says who has it.
DescriptorsOwned ==
  srv = "up" =>
    /\ \A c \in Conns : HasSocket(c) => sock[c] \in Fds /\ fdTable[sock[c]] = c
    /\ mainPc \in {"set", "register"} => newFd \in Fds /\ fdTable[newFd] = nextId

\* What select watches still has its socket, and cannot lose it before the next
\* round: its reader has not passed the sleep.
WatchedHaveSockets ==
  srv = "up" /\ ~lostUpdate /\ mainPc = "select" =>
    \A f \in readFds \ {Serv} :
      \E c \in Conns : sock[c] = f /\ HasSocket(c) /\ pc[c] # "wake"

FdInv == ReaderPhases /\ DescriptorsOwned /\ MasterTracksSockets /\ WatchedHaveSockets

LEMMA InitFdInv == Init => FdInv
<1> SUFFICES ASSUME Init PROVE FdInv
  OBVIOUS
<1>1. ReaderPhases
  BY ConstantAssumption
     DEF Init, ReaderPhases, Registered, Conns, Teardown, NoCommand, Gone
<1>2. DescriptorsOwned /\ WatchedHaveSockets
  BY ConstantAssumption
     DEF Init, DescriptorsOwned, WatchedHaveSockets, HasSocket, Registered, Conns
<1>3. MasterTracksSockets
  BY ConstantAssumption DEF Init, MasterTracksSockets, Registered, Conns
<1> QED
  BY <1>1, <1>2, <1>3 DEF FdInv

\* A step that opens, closes, sets and clears nothing, and wakes no reader.
LEMMA QuietStep ==
  ASSUME TypeInv, FdInv, ReaderPhases',
         srv' = "up" => srv = "up",
         UNCHANGED <<mainPc, newFd, nextId, fdVars, fdTable, sock>>,
         \A d \in Conns : /\ Cleared(d)' <=> Cleared(d)
                          /\ HasSocket(d)' => HasSocket(d)
                          /\ HasSocket(d) => HasSocket(d)'
                          /\ pc'[d] = "wake" => pc[d] = "wake"
  PROVE  FdInv'
<1> USE DEF FdInv
<1>1. DescriptorsOwned'
  BY DEF DescriptorsOwned
<1>2. MasterTracksSockets'
  BY DEF MasterTracksSockets, fdVars, Registered
<1>3. WatchedHaveSockets'
  BY DEF WatchedHaveSockets, fdVars
<1> QED
  BY <1>1, <1>2, <1>3

\* A reader that is not tearing down does not disturb the descriptors.
LEMMA BusyStep ==
  ASSUME TypeInv, FdInv, NEW c \in Conns, 
         srv' = "up" => srv = "up",
         UNCHANGED <<mainPc, newFd, nextId, fdVars, fdTable, sock>>,
         NEW l \in ReaderPc \ (Teardown \cup {"none", "done"}),
         pc[c] \notin Teardown \cup {"none", "done"},
         pc' = [pc EXCEPT ![c] = l], 
         \A d \in Conns : d # c => cmd'[d] = cmd[d],
         cmd[c] # Gone, cmd'[c] # Gone
  PROVE  FdInv'
<1>1. \A d \in Conns : d # c => pc'[d] = pc[d]
  BY DEF TypeInv, TypeOK, ThreadType
<1>2. pc'[c] = l
  BY DEF TypeInv, TypeOK, ThreadType
<1>3. ReaderPhases'
  BY <1>1, <1>2 DEF FdInv, ReaderPhases, Registered, Teardown
<1>4. \A d \in Conns : /\ Cleared(d)' <=> Cleared(d)
                       /\ HasSocket(d)' <=> HasSocket(d)
                       /\ pc'[d] = "wake" => pc[d] = "wake"
  BY <1>1, <1>2 DEF Cleared, HasSocket, Removed, Registered, Teardown
<1> QED
  BY <1>3, <1>4, QuietStep

\* The steps of the main thread.
LEMMA MainFdInv == ASSUME TypeInv, FdInv, Main PROVE FdInv'
<1> USE ConstantAssumption DEF FdInv
<1>1. CASE CopyMaster
  <2>1. \A d \in Conns : pc'[d] = IF pc[d] = "nap" THEN "wake" ELSE pc[d]
    BY <1>1 DEF CopyMaster
  <2>2. srv = "up" /\ mainPc = "copy" /\ mainPc' = "select"
        /\ readFds' = master \cup {Serv}
        /\ UNCHANGED <<srv, newFd, nextId, master, lostUpdate, fdTable, sock, cmd>>
    BY <1>1 DEF CopyMaster, MainAt, kernelVars, connVars
  <2>3. ReaderPhases'
    BY <2>1, <2>2 DEF ReaderPhases, Registered, Teardown
  <2>4. \A d \in Conns : /\ Cleared(d)' <=> Cleared(d)
                         /\ HasSocket(d)' <=> HasSocket(d)
    BY <2>1, <2>2 DEF Cleared, HasSocket, Removed, Registered
  <2>5. DescriptorsOwned' /\ MasterTracksSockets'
    BY <2>2, <2>4 DEF DescriptorsOwned, MasterTracksSockets, Registered
  <2>6. ASSUME ~lostUpdate, NEW f \in master
        PROVE  \E c \in Conns : sock[c] = f /\ Registered(c) /\ ~Cleared(c)
    BY <2>2, <2>6 DEF MasterTracksSockets
  <2>7. \A d \in Conns : Registered(d) /\ ~Cleared(d) =>
                           HasSocket(d)' /\ pc'[d] # "wake"
    BY <2>1, <2>2 DEF Cleared, HasSocket, Removed, Registered
  <2>8. WatchedHaveSockets'
    BY <2>2, <2>6, <2>7 DEF WatchedHaveSockets
  <2> QED
    BY <2>3, <2>5, <2>8
<1>2. CASE Select
  <2>1. UNCHANGED <<newFd, nextId, master, lostUpdate, fdTable, sock, cmd, pc>>
        /\ mainPc' \in {"exit", "accept"} /\ (srv' = "up" => srv = "up")
        /\ mainPc = "select"
    BY <1>2 DEF Select, MainAt, kernelVars, connVars, threadVars
  <2>2. ReaderPhases' /\ DescriptorsOwned' /\ WatchedHaveSockets'
    BY <2>1 DEF ReaderPhases, DescriptorsOwned, WatchedHaveSockets, HasSocket,
                Removed, Registered, Teardown
  <2>3. MasterTracksSockets'
    BY <2>1 DEF MasterTracksSockets, Cleared, Registered
  <2> QED
    BY <2>2, <2>3
<1>3. CASE Accept
  <2>1. UNCHANGED <<srv, nextId, fdVars, sock, cmd, pc>>
        /\ srv = "up" /\ mainPc = "accept" /\ mainPc' \in {"copy", "set"}
    BY <1>3 DEF Accept, MainAt, connVars, threadVars
  <2>2. ReaderPhases' /\ WatchedHaveSockets'
    BY <2>1 DEF ReaderPhases, WatchedHaveSockets, Registered, Teardown
  <2>3. MasterTracksSockets'
    BY <2>1 DEF MasterTracksSockets, Cleared, Registered, fdVars
  <2>4. DescriptorsOwned'
    <3>1. CASE mainPc' = "copy"
      <4>1. UNCHANGED fdTable
        BY <1>3, <3>1 DEF Accept
      <4> QED
        BY <2>1, <3>1, <4>1 DEF DescriptorsOwned, HasSocket, Removed, Registered
    <3>2. CASE mainPc' = "set"
      <4>1. PICK f \in FreeFds :
              newFd' = f /\ fdTable' = [fdTable EXCEPT ![f] = nextId]
        BY <1>3, <3>2 DEF Accept
      <4>2. f \in Fds /\ fdTable[f] = NoConn /\ fdTable'[f] = nextId
            /\ \A g \in Fds : g # f => fdTable'[g] = fdTable[g]
        BY <4>1 DEF FreeFds, TypeInv, TypeOK, KernelType
      <4>3. \A d \in Conns : HasSocket(d)' => HasSocket(d)
        BY <2>1 DEF HasSocket, Removed, Registered
      <4> QED
        BY <2>1, <4>1, <4>2, <4>3 DEF DescriptorsOwned
    <3> QED
      BY <2>1, <3>1, <3>2
  <2> QED
    BY <2>2, <2>3, <2>4
<1>4. CASE SetBit
  <2>1. UNCHANGED <<srv, newFd, nextId, fdTable, sock, cmd, pc>>
        /\ srv = "up" /\ mainPc = "set" /\ mainPc' = "register"
        /\ master' = mainReg \cup {newFd}
        /\ lostUpdate' = (lostUpdate \/ master # mainReg)
    BY <1>4 DEF SetBit, MainAt, kernelVars, connVars, threadVars
  <2>2. ReaderPhases' /\ WatchedHaveSockets' /\ DescriptorsOwned'
    BY <2>1 DEF ReaderPhases, WatchedHaveSockets, DescriptorsOwned, HasSocket,
                Removed, Registered, Teardown
  <2>3. MasterTracksSockets'
    BY <2>1 DEF MasterTracksSockets, Cleared, Registered
  <2> QED
    BY <2>2, <2>3
<1>5. CASE Register
  <2>1. nextId \in Conns
    BY <1>5 DEF Register, MainAt, Made, AcceptsOnlyQueued, TypeInv, TypeOK,
                MainType, KernelType, Conns
  <2>2. UNCHANGED <<srv, master, lostUpdate, fdTable, cmd>>
        /\ srv = "up" /\ mainPc = "register" /\ mainPc' = "copy"
        /\ nextId' = nextId + 1
    BY <1>5 DEF Register, MainAt, kernelVars, fdVars
  <2>3. /\ sock'[nextId] = newFd /\ pc'[nextId] = "poll"
        /\ \A d \in Conns : d # nextId => sock'[d] = sock[d] /\ pc'[d] = pc[d]
    BY <1>5, <2>1 DEF Register, Goto, TypeInv, TypeOK, ConnType, ThreadType
  <2>4. \A d \in Conns : Registered(d)' <=> Registered(d) \/ d = nextId
    BY <2>2 DEF Registered, Conns, TypeInv, TypeOK, MainType
  <2>5. ~Registered(nextId) /\ cmd[nextId] # Gone
    BY <2>1 DEF Registered, ReaderPhases, Teardown, Conns
  <2>6. ReaderPhases'
    BY <2>2, <2>3, <2>4, <2>5 DEF ReaderPhases, Teardown
  <2>7. \A d \in Conns : HasSocket(d)' => HasSocket(d) \/ d = nextId
    BY <2>2, <2>3, <2>4 DEF HasSocket, Removed
  <2>8. DescriptorsOwned'
    BY <2>2, <2>3, <2>7 DEF DescriptorsOwned, HasSocket
  <2>9. \A d \in Conns : Registered(d)' /\ ~Cleared(d)' <=>
                           (Registered(d) /\ ~Cleared(d)) \/ d = nextId
    BY <2>2, <2>3, <2>4, <2>5 DEF Cleared
  <2>10. ASSUME ~lostUpdate
         PROVE  master' = {sock'[d] : d \in {e \in Conns : Registered(e)' /\ ~Cleared(e)'}}
    BY <2>1, <2>2, <2>3, <2>5, <2>9, <2>10 DEF MasterTracksSockets
  <2>11. MasterTracksSockets' /\ WatchedHaveSockets'
    BY <2>2, <2>10 DEF MasterTracksSockets, WatchedHaveSockets
  <2> QED
    BY <2>6, <2>8, <2>11
<1>6. CASE MarkExiting \/ ExitProcess
  <2>1. srv' # "up" /\ UNCHANGED <<nextId, cmd, pc>>
    BY <1>6 DEF MarkExiting, ExitProcess, threadVars
  <2> QED
    BY <2>1 DEF ReaderPhases, DescriptorsOwned, MasterTracksSockets,
                WatchedHaveSockets, Registered, Teardown
<1> QED
  BY <1>1, <1>2, <1>3, <1>4, <1>5, <1>6 DEF Main

\* The clients and the operator.
LEMMA OutsideFdInv ==
  ASSUME TypeInv, FdInv,
         Connect \/ SigInt \/ Stopped \/ \E c \in Conns : Client(c)
  PROVE  FdInv'
<1>1. CASE SigInt
  <2>1. srv' # "up" /\ UNCHANGED <<nextId, cmd, pc>>
    BY <1>1 DEF SigInt, threadVars
  <2> QED
    BY <2>1 DEF FdInv, ReaderPhases, DescriptorsOwned, MasterTracksSockets,
                WatchedHaveSockets, Registered, Teardown
<1>2. CASE Connect \/ Stopped \/ \E c \in Conns : Client(c)
  <2>1. UNCHANGED <<srv, mainPc, newFd, nextId, fdVars, fdTable, sock, pc, cmd>>
    BY <1>2 DEF Connect, Stopped, Client, SendCommand, StopReading, ResumeReading,
                HangUp, vars, mainVars, kernelVars, connVars, threadVars
  <2>2. ReaderPhases'
    BY <2>1 DEF FdInv, ReaderPhases, Registered, Teardown
  <2>3. \A d \in Conns : /\ Cleared(d)' <=> Cleared(d)
                         /\ HasSocket(d)' <=> HasSocket(d)
                         /\ pc'[d] = "wake" => pc[d] = "wake"
    BY <2>1 DEF Cleared, HasSocket, Removed, Registered
  <2> QED
    BY <2>1, <2>2, <2>3, QuietStep
<1> QED
  BY <1>1, <1>2

\* What the actions of a reader that is not tearing down have in common: they
\* fulfil the assumptions of BusyStep.
LEMMA ReaderBusyFdInv ==
  ASSUME TypeInv, FdInv, NEW c \in Conns, cmd[c] # Gone,
         \/ Poll(c) \/ RecvPacket(c) \/ LoginCheck(c) \/ ScanUser(c) \/ SetName(c)
         \/ SetFlag(c) \/ Greet(c) \/ LogoutCheck(c) \/ ClearName(c)
         \/ ChatCheck(c) \/ DmCheck(c) \/ DmSend(c) \/ BroadcastStep(c)
         \/ BroadcastEnd(c) \/ Reply(c)
  PROVE  FdInv'
<1> DEFINE Quiet == /\ srv' = "up" => srv = "up"
                    /\ UNCHANGED <<mainPc, newFd, nextId, fdVars, fdTable, sock>>
           Moves == \E l \in ReaderPc \ (Teardown \cup {"none", "done"}) :
                      pc' = [pc EXCEPT ![c] = l]
           Keeps == /\ \A d \in Conns : d # c => cmd'[d] = cmd[d]
                    /\ cmd'[c] # Gone
<1> USE DEF mainVars, kernelVars, connVars
<1>1. pc[c] \notin Teardown \cup {"none", "done"}
  BY DEF Poll, RecvPacket, LoginCheck, ScanUser, SetName, SetFlag, Greet,
         LogoutCheck, ClearName, ChatCheck, DmCheck, DmSend, BroadcastStep,
         BroadcastEnd, Reply, At, Teardown
<1>2. Quiet
  <2>1. CASE Poll(c) \/ RecvPacket(c) \/ LoginCheck(c) \/ ScanUser(c)
    BY <2>1 DEF Poll, RecvPacket, LoginCheck, ScanUser
  <2>2. CASE SetName(c) \/ SetFlag(c) \/ LogoutCheck(c) \/ ClearName(c)
    BY <2>2 DEF SetName, SetFlag, LogoutCheck, ClearName
  <2>3. CASE ChatCheck(c) \/ DmCheck(c) \/ BroadcastEnd(c)
    BY <2>3 DEF ChatCheck, DmCheck, BroadcastEnd
  <2>4. CASE Greet(c) \/ DmSend(c) \/ BroadcastStep(c) \/ Reply(c)
    BY <2>4 DEF Greet, DmSend, BroadcastStep, Reply, Send
  <2> QED BY <2>1, <2>2, <2>3, <2>4
<1>3. Moves
  <2> USE DEF ReaderPc, Teardown, Goto
  <2>1. CASE Poll(c) \/ RecvPacket(c) \/ LoginCheck(c)
    BY <2>1 DEF Poll, RecvPacket, LoginCheck, First
  <2>2. CASE ScanUser(c)
    <3>1. CASE UNCHANGED pc
      BY <1>1, <3>1 DEF TypeInv, TypeOK, ThreadType
    <3>2. CASE pc' # pc
      BY <2>2, <3>2 DEF ScanUser
    <3> QED BY <3>1, <3>2
  <2>3. CASE SetName(c) \/ SetFlag(c) \/ LogoutCheck(c) \/ ClearName(c)
    BY <2>3 DEF SetName, SetFlag, LogoutCheck, ClearName
  <2>4. CASE ChatCheck(c) \/ DmCheck(c) \/ BroadcastEnd(c)
    BY <2>4 DEF ChatCheck, DmCheck, BroadcastEnd
  <2>5. CASE Greet(c) \/ DmSend(c) \/ Reply(c)
    BY <2>5 DEF Greet, DmSend, Reply
  <2>6. CASE BroadcastStep(c)
    <3>1. UNCHANGED pc
      BY <2>6 DEF BroadcastStep
    <3> QED
      BY <1>1, <3>1 DEF TypeInv, TypeOK, ThreadType
  <2> QED BY <2>1, <2>2, <2>3, <2>4, <2>5, <2>6
<1>4. Keeps
  <2>1. CASE RecvPacket(c)
    <3>1. Head(inbox[c]) \in Command
      BY <2>1 DEF RecvPacket, TypeInv, TypeOK, PeerType
    <3>2. cmd'[c] \in Command \cup {NoCommand}
      BY <2>1, <3>1 DEF RecvPacket, TypeInv, TypeOK, ThreadType
    <3> QED
      BY <2>1, <3>2 DEF RecvPacket, Command, NoCommand, Gone, TypeInv, TypeOK,
                        ThreadType
  <2>2. CASE BroadcastEnd(c) \/ Reply(c)
    BY <2>2 DEF BroadcastEnd, Reply, EndCommand, NoCommand, Gone, TypeInv, TypeOK,
                ThreadType
  <2>3. CASE cmd' = cmd
    BY <2>3
  <2>4. CASE Poll(c) \/ LoginCheck(c) \/ ScanUser(c) \/ SetName(c) \/ SetFlag(c)
             \/ Greet(c) \/ LogoutCheck(c) \/ ClearName(c) \/ ChatCheck(c)
             \/ DmCheck(c) \/ DmSend(c) \/ BroadcastStep(c)
    BY <2>3, <2>4 DEF Poll, LoginCheck, ScanUser, SetName, SetFlag, Greet,
                      LogoutCheck, ClearName, ChatCheck, DmCheck, DmSend,
                      BroadcastStep, threadVars
  <2> QED BY <2>1, <2>2, <2>4
<1> QED
  BY <1>1, <1>2, <1>3, <1>4, BusyStep

\* The tear-down: FD_CLR, the sleep, close, the erase, the last broadcast.
LEMMA TeardownFdInv ==
  ASSUME TypeInv, FdInv, NEW c \in Conns,
         \/ RecvEnd(c) \/ ClearBit(c) \/ CloseSocket(c) \/ FindSelf(c)
         \/ EraseSelf(c)
         \/ cmd[c] = Gone /\ (BroadcastStep(c) \/ BroadcastEnd(c))
  PROVE  FdInv'
<1>0. \/ RecvEnd(c) \/ ClearBit(c) \/ CloseSocket(c)
      \/ FindSelf(c) \/ EraseSelf(c)
         \/ (cmd[c] = Gone /\ (BroadcastStep(c) \/ BroadcastEnd(c)))
  OBVIOUS
<1> USE DEF TypeInv, TypeOK, ThreadType, mainVars, kernelVars, connVars
<1>1. CASE RecvEnd(c)
  <2>1. UNCHANGED <<srv, mainPc, newFd, nextId, fdVars, fdTable, sock>>
    BY <1>1 DEF RecvEnd
  <2>2. /\ pc[c] = "recv"
        /\ \/ pc'[c] = "quit" /\ cmd'[c] = cmd[c]
           \/ pc'[c] = "clr" /\ cmd'[c] = Gone
        /\ \A d \in Conns : d # c => pc'[d] = pc[d] /\ cmd'[d] = cmd[d]
    BY <1>1 DEF RecvEnd, Goto, At
  <2>3. ReaderPhases'
    BY <2>1, <2>2 DEF FdInv, ReaderPhases, Registered, Teardown
  <2>4. \A d \in Conns : /\ Cleared(d)' <=> Cleared(d)
                         /\ HasSocket(d)' <=> HasSocket(d)
                         /\ pc'[d] = "wake" => pc[d] = "wake"
    BY <2>1, <2>2 DEF Cleared, HasSocket, Removed, Registered
  <2> QED
    BY <2>1, <2>3, <2>4, QuietStep
<1>2. CASE ClearBit(c)
  <2>1. UNCHANGED <<srv, mainPc, newFd, nextId, readFds, fdTable, sock, cmd>>
        /\ master' = reg[c] \ {sock[c]}
        /\ lostUpdate' = (lostUpdate \/ master # reg[c])
    BY <1>2 DEF ClearBit
  <2>2. /\ pc[c] = "clr" /\ pc'[c] = "nap"
        /\ \A d \in Conns : d # c => pc'[d] = pc[d]
    BY <1>2 DEF ClearBit, Goto, At
  <2>3. ReaderPhases'
    BY <2>1, <2>2 DEF FdInv, ReaderPhases, Registered, Teardown
  <2>4. \A d \in Conns : HasSocket(d)' <=> HasSocket(d)
    BY <2>1, <2>2 DEF HasSocket, Removed, Registered
  <2>5. DescriptorsOwned'
    BY <2>1, <2>4 DEF FdInv, DescriptorsOwned
  <2>7. \A d \in Conns : pc[d] # "wake" => pc'[d] # "wake"
    BY <2>2
  <2>8. WatchedHaveSockets'
    BY <2>1, <2>4, <2>7 DEF FdInv, WatchedHaveSockets
  <2>6. MasterTracksSockets'
    <3> SUFFICES ASSUME srv = "up", ~lostUpdate, master = reg[c]
                 PROVE  MasterTracksSockets'
      BY <2>1 DEF MasterTracksSockets
    <3>1. Registered(c) /\ HasSocket(c)
      BY <2>2 DEF FdInv, ReaderPhases, HasSocket, Removed
    <3>2. \A d \in Conns : Registered(d) /\ ~Cleared(d) /\ d # c => sock[d] # sock[c]
      BY <3>1 DEF FdInv, DescriptorsOwned, HasSocket, Cleared, Removed
    <3>3. mainPc = "register" => newFd # sock[c]
      BY <3>1 DEF FdInv, DescriptorsOwned, Registered, MainType
    <3>4. \A d \in Conns : Registered(d)' /\ ~Cleared(d)' <=>
                             Registered(d) /\ ~Cleared(d) /\ d # c
      BY <2>1, <2>2 DEF Registered, Cleared
    <3>5. master = {sock[d] : d \in {e \in Conns : Registered(e) /\ ~Cleared(e)}}
                     \cup (IF mainPc = "register" THEN {newFd} ELSE {})
      BY DEF FdInv, MasterTracksSockets
    <3>6. master' = {sock[d] : d \in {e \in Conns : Registered(e)' /\ ~Cleared(e)'}}
                     \cup (IF mainPc = "register" THEN {newFd} ELSE {})
      BY <2>1, <3>2, <3>3, <3>4, <3>5
    <3> QED
      BY <2>1, <3>6 DEF MasterTracksSockets
  <2> QED
    BY <2>3, <2>5, <2>6, <2>8 DEF FdInv
<1>3. CASE CloseSocket(c)
  <2>1. UNCHANGED <<srv, mainPc, newFd, nextId, fdVars, sock, cmd>>
        /\ fdTable' = [fdTable EXCEPT ![sock[c]] = NoConn]
    BY <1>3 DEF CloseSocket
  <2>2. /\ pc[c] = "wake" \/ (pc[c] = "nap" /\ srv # "up")
        /\ pc'[c] = "find"
        /\ \A d \in Conns : d # c => pc'[d] = pc[d]
    BY <1>3 DEF CloseSocket, Goto, At
  <2>3. ReaderPhases'
    BY <2>1, <2>2 DEF FdInv, ReaderPhases, Registered, Teardown
  <2>4. \A d \in Conns : /\ Cleared(d)' <=> Cleared(d)
                         /\ HasSocket(d)' <=> HasSocket(d) /\ d # c
    BY <2>1, <2>2 DEF Cleared, HasSocket, Removed, Registered
  <2>5. HasSocket(c)
    BY <2>2 DEF FdInv, ReaderPhases, HasSocket, Removed
  <2>6. DescriptorsOwned'
    BY <2>1, <2>4, <2>5 DEF FdInv, DescriptorsOwned, KernelType, HasSocket,
                            Registered, MainType
  <2>7. MasterTracksSockets'
    BY <2>1, <2>4 DEF FdInv, MasterTracksSockets, Registered, fdVars
  <2>8. WatchedHaveSockets'
    BY <2>1, <2>2, <2>4 DEF FdInv, WatchedHaveSockets, fdVars
  <2> QED
    BY <2>3, <2>6, <2>7, <2>8 DEF FdInv
<1>4. CASE FindSelf(c) \/ EraseSelf(c)
           \/ (cmd[c] = Gone /\ (BroadcastStep(c) \/ BroadcastEnd(c)))
  <2>1. UNCHANGED <<mainPc, newFd, nextId, fdVars, fdTable, sock>>
        /\ (srv' = "up" => srv = "up")
    BY <1>4 DEF FindSelf, EraseSelf, BroadcastStep, BroadcastEnd, Send
  <2>2. \A d \in Conns : d # c => pc'[d] = pc[d] /\ cmd'[d] = cmd[d]
    BY <1>4 DEF FindSelf, EraseSelf, BroadcastStep, BroadcastEnd, Goto, EndCommand
  <2>3. \/ pc[c] = "find" /\ pc'[c] \in {"find", "erase"} /\ cmd'[c] = cmd[c]
        \/ pc[c] = "erase" /\ pc'[c] \in {"bcast", "done"} /\ cmd'[c] = cmd[c]
        \/ pc[c] = "bcast" /\ pc'[c] = "bcast" /\ cmd'[c] = cmd[c]
        \/ pc[c] = "bcast" /\ pc'[c] = "done" /\ cmd[c] = Gone /\ cmd'[c] = NoCommand
    BY <1>4 DEF FindSelf, EraseSelf, BroadcastStep, BroadcastEnd, Goto, EndCommand,
                At
  <2>4. NoCommand # Gone
    BY DEF NoCommand, Gone
  <2>5. ReaderPhases'
    BY <2>1, <2>2, <2>3, <2>4 DEF FdInv, ReaderPhases, Registered, Teardown
  <2>6. \A d \in Conns : /\ Cleared(d)' <=> Cleared(d)
                         /\ HasSocket(d)' <=> HasSocket(d)
                         /\ pc'[d] = "wake" => pc[d] = "wake"
    BY <2>1, <2>2, <2>3, <2>4
       DEF Cleared, HasSocket, Removed, Registered, FdInv, ReaderPhases, Teardown
  <2> QED
    BY <2>1, <2>5, <2>6, QuietStep
<1> QED
  BY ONLY <1>0, <1>1, <1>2, <1>3, <1>4

LEMMA NextFdInv == TypeInv /\ FdInv /\ [Next]_vars => FdInv'
<1> SUFFICES ASSUME TypeInv, FdInv, [Next]_vars
             PROVE  FdInv'
  OBVIOUS
<1>1. ASSUME NEW c \in Conns, Reader(c) PROVE FdInv'
  <2>1. CASE cmd[c] = Gone
    <3>1. pc[c] \in Teardown \cup {"bcast", "done"}
      BY <2>1 DEF FdInv, ReaderPhases
    <3>2. \/ RecvEnd(c) \/ ClearBit(c) \/ CloseSocket(c) \/ FindSelf(c)
          \/ EraseSelf(c) \/ BroadcastStep(c) \/ BroadcastEnd(c)
      BY <1>1, <3>1 DEF Reader, Poll, RecvPacket, LoginCheck, ScanUser, SetName,
        SetFlag, Greet, LogoutCheck, ClearName, ChatCheck, DmCheck, DmSend,
        Reply, At, Teardown
    <3> QED
      BY <2>1, <3>2, TeardownFdInv
  <2>2. CASE cmd[c] # Gone
    BY <1>1, <2>2, TeardownFdInv, ReaderBusyFdInv DEF Reader
  <2> QED
    BY <2>1, <2>2
<1>2. CASE UNCHANGED vars
  BY <1>2, OutsideFdInv DEF vars, Stopped, FdInv, ReaderPhases, DescriptorsOwned,
        MasterTracksSockets, WatchedHaveSockets, HasSocket, Cleared, Removed,
        Registered, mainVars, fdVars, kernelVars, connVars, threadVars
<1> QED
  BY <1>1, <1>2, MainFdInv, OutsideFdInv DEF Next

\* FD_SET and FD_CLR being a load and a store each, one may overwrite another;
\* while that has not happened, master is exactly the sockets in service.
THEOREM MasterIsExact == Spec => []MasterTracksSockets
<1>1. FdInv => MasterTracksSockets
  BY DEF FdInv
<1> QED
  BY <1>1, InitTypeInv, NextTypeInv, InitFdInv, NextFdInv, PTL DEF Spec

\* The sleep between FD_CLR and close does what server.cpp:182 wants of it,
\* for every number of connections and through reuse of descriptors: select
\* sees open sockets only, while no update of master is lost.
THEOREM SelectIsSafe == Spec => []SelectSeesOpenSockets
<1>1. FdInv => SelectSeesOpenSockets
  BY DEF FdInv, WatchedHaveSockets, DescriptorsOwned, SelectSeesOpenSockets,
         HasSocket
<1> QED
  BY <1>1, InitTypeInv, NextTypeInv, InitFdInv, NextFdInv, PTL DEF Spec

-----------------------------------------------------------------------------
(***************************************************************************)
(* The vector of connections and the loops over it: whom the vector lists, *)
(* which entry an erase removes, and whom a broadcast reaches.  An erase   *)
(* moves the entries behind it, and nothing tells the threads that are     *)
(* inside a loop.                                                          *)
(***************************************************************************)

\* What the loop of a reader has still before it.
Ahead(c) == {vec[i] : i \in idx[c] .. Len(vec)}

\* No connection is listed twice, and none that is not registered; and none is
\* missing until an erase has strayed.
RegistryInv ==
  /\ \A i, j \in 1 .. Len(vec) : vec[i] = vec[j] => i = j
  /\ \A d \in Listed : Registered(d)
  /\ ~stray => \A d \in Conns : d \in Listed <=> Registered(d) /\ ~Removed(d)

\* What a reader knows inside its loops, as long as no erase has moved the
\* entries under it: its own entry is still before it while it searches, and is
\* the one that it has found; whom it owes a chat is before it.
LoopKnows(c) ==
  /\ pc[c] = "find" /\ c \notin shifted /\ ~stray => c \in Ahead(c)
  /\ pc[c] = "erase" /\ c \notin shifted /\ ~stray =>
       idx[c] <= Len(vec) /\ vec[idx[c]] = c
  /\ pc[c] = "bcast" /\ c \notin shifted => owed[c] \subseteq Ahead(c)
  /\ owed[c] # {} => pc[c] = "bcast"

LoopInv == \A c \in Conns : LoopKnows(c)

-----------------------------------------------------------------------------
(* Sequences.                                                              *)

\* w is s without its entry at p.
IsWithout(w, s, p) ==
  /\ Len(w) = Len(s) - 1
  /\ \A j \in 1 .. Len(s) - 1 : w[j] = IF j < p THEN s[j] ELSE s[j + 1]

LEMMA RemoveAtEntries ==
  ASSUME NEW S, NEW s \in Seq(S), NEW p \in 1 .. Len(s)
  PROVE  IsWithout(Vector!RemoveAt(s, p), s, p)
<1> DEFINE a == SubSeq(s, 1, p - 1)
           b == SubSeq(s, p + 1, Len(s))
<1>1. Len(s) \in Nat /\ p \in Nat /\ p >= 1 /\ p <= Len(s)
  BY LenProperties
<1>2. \A i \in 1 .. Len(s) : s[i] \in S
  BY ElementOfSeq
<1>3. a \in Seq(S) /\ Len(a) = p - 1 /\ \A i \in 1 .. p - 1 : a[i] = s[i]
  BY <1>1, <1>2, SubSeqProperties
<1>4. /\ b \in Seq(S) /\ Len(b) = Len(s) - p
      /\ \A i \in 1 .. Len(s) - p : b[i] = s[p + i]
  BY <1>1, <1>2, SubSeqProperties
<1> HIDE DEF a, b
<1>5. /\ Len(a \o b) = Len(s) - 1
      /\ \A i \in 1 .. Len(s) - 1 : (a \o b)[i] = IF i < p THEN a[i] ELSE b[i - p + 1]
  <2>1. Len(a) + Len(b) = Len(s) - 1
    BY <1>1, <1>3, <1>4
  <2>2. /\ Len(a \o b) = Len(a) + Len(b)
        /\ \A i \in 1 .. Len(a) + Len(b) :
              (a \o b)[i] = IF i <= Len(a) THEN a[i] ELSE b[i - Len(a)]
    BY <1>3, <1>4, ConcatProperties
  <2> QED
    BY <1>1, <1>3, <2>1, <2>2
<1>6. Vector!RemoveAt(s, p) = a \o b
  BY DEF Vector!RemoveAt, a, b
<1>7. \A i \in 1 .. Len(s) - 1 : (a \o b)[i] = IF i < p THEN s[i] ELSE s[i + 1]
  <2> TAKE i \in 1 .. Len(s) - 1
  <2>1. CASE i < p
    BY <1>1, <1>3, <1>5, <2>1
  <2>2. CASE ~(i < p)
    <3>1. i - p + 1 \in 1 .. Len(s) - p /\ p + (i - p + 1) = i + 1
      BY <1>1, <2>2
    <3> QED
      BY <1>4, <1>5, <2>2, <3>1
  <2> QED
    BY <2>1, <2>2
<1> QED
  BY <1>5, <1>6, <1>7 DEF IsWithout

\* What is left of a sequence without repetitions when one entry goes.
LEMMA WithoutEntries ==
  ASSUME NEW s \in Seq(Conns), NEW w \in Seq(Conns), NEW p \in 1 .. Len(s),
         IsWithout(w, s, p),
         \A i, j \in 1 .. Len(s) : s[i] = s[j] => i = j
  PROVE  /\ \A i, j \in 1 .. Len(w) : w[i] = w[j] => i = j
         /\ {w[i] : i \in 1 .. Len(w)} = {s[i] : i \in 1 .. Len(s)} \ {s[p]}
<1>1. Len(s) \in Nat /\ Len(w) = Len(s) - 1 /\ p \in Nat /\ p >= 1 /\ p <= Len(s)
  BY LenProperties DEF IsWithout
<1>2. \A j \in 1 .. Len(w) : \E k \in 1 .. Len(s) :
        k # p /\ w[j] = s[k] /\ k = IF j < p THEN j ELSE j + 1
  <2> TAKE j \in 1 .. Len(w)
  <2>1. CASE j < p
    BY <1>1, <2>1 DEF IsWithout
  <2>2. CASE ~(j < p)
    <3>1. j + 1 \in 1 .. Len(s) /\ j + 1 # p
      BY <1>1, <2>2
    <3> QED
      BY <1>1, <2>2, <3>1 DEF IsWithout
  <2> QED BY <2>1, <2>2
<1>3. ASSUME NEW i \in 1 .. Len(w), NEW j \in 1 .. Len(w), w[i] = w[j]
      PROVE  i = j
  <2>1. PICK k \in 1 .. Len(s) : w[i] = s[k] /\ k = IF i < p THEN i ELSE i + 1
    BY <1>2
  <2>2. PICK l \in 1 .. Len(s) : w[j] = s[l] /\ l = IF j < p THEN j ELSE j + 1
    BY <1>2
  <2>3. k = l
    BY <1>3, <2>1, <2>2
  <2> QED
    BY <1>1, <2>1, <2>2, <2>3
<1>4. \A k \in 1 .. Len(s) : k # p => \E j \in 1 .. Len(w) : w[j] = s[k]
  <2> SUFFICES ASSUME NEW k \in 1 .. Len(s), k # p
               PROVE  \E j \in 1 .. Len(w) : w[j] = s[k]
    OBVIOUS
  <2>1. CASE k < p
    BY <1>1, <2>1 DEF IsWithout
  <2>2. CASE k > p
    <3>1. k - 1 \in 1 .. Len(w) /\ ~(k - 1 < p) /\ (k - 1) + 1 = k
      BY <1>1, <2>2
    <3> QED
      BY <1>1, <3>1 DEF IsWithout
  <2> QED BY <1>1, <2>1, <2>2
<1>5. \A x \in {w[i] : i \in 1 .. Len(w)} : x \in {s[i] : i \in 1 .. Len(s)} /\ x # s[p]
  BY <1>2
<1>6. \A x \in {s[i] : i \in 1 .. Len(s)} : x # s[p] => x \in {w[i] : i \in 1 .. Len(w)}
  BY <1>4
<1> QED
  BY <1>3, <1>5, <1>6

\* A loop that has not passed the entry that goes, or whose vector loses the
\* last one, keeps before it what it had before it and is still listed.
LEMMA WithoutAhead ==
  ASSUME NEW s \in Seq(Conns), NEW w \in Seq(Conns), NEW p \in 1 .. Len(s),
         IsWithout(w, s, p),
         \A i, j \in 1 .. Len(s) : s[i] = s[j] => i = j,
         NEW k \in Nat \ {0}, k <= p \/ p = Len(s),
         NEW i \in k .. Len(s), NEW j \in 1 .. Len(w), s[i] = w[j]
  PROVE  j \in k .. Len(w)
<1>1. Len(s) \in Nat /\ Len(w) = Len(s) - 1 /\ p \in Nat /\ p >= 1 /\ p <= Len(s)
  BY LenProperties DEF IsWithout
<1>2. i \in 1 .. Len(s)
  BY <1>1
<1>3. CASE j < p
  <2>1. j \in 1 .. Len(s) /\ w[j] = s[j]
    BY <1>1, <1>3 DEF IsWithout
  <2>2. i = j
    BY <1>2, <2>1
  <2> QED
    BY <1>1, <2>2
<1>4. CASE ~(j < p)
  <2>1. j + 1 \in 1 .. Len(s) /\ w[j] = s[j + 1]
    BY <1>1, <1>4 DEF IsWithout
  <2>2. i = j + 1
    BY <1>2, <2>1
  <2> QED
    BY <1>1, <1>4, <2>2
<1> QED
  BY <1>3, <1>4

-----------------------------------------------------------------------------
(* What the steps of a reader leave alone.                                 *)

\* No reader touches the objects of another, or its loop, but for the entries
\* that an erase moves.
KeepsOthers(c) ==
  /\ UNCHANGED <<nextId, sock>>
  /\ \A d \in Conns \ {c} :
       /\ pc'[d] = pc[d] /\ cmd'[d] = cmd[d] /\ idx'[d] = idx[d] /\ tgt'[d] = tgt[d]
       /\ name'[d] = name[d] /\ loggedIn'[d] = loggedIn[d]
       /\ owed'[d] \subseteq owed[d]
       /\ d \in shifted => d \in shifted'
       /\ d \in unsure => d \in unsure'

LEMMA ReaderKeepsOthers ==
  ASSUME TypeInv, NEW c \in Conns, Reader(c)
  PROVE  /\ KeepsOthers(c)
         /\ ~EraseSelf(c) => UNCHANGED <<vec, stray>>
<1> USE DEF KeepsOthers, Goto, EndCommand, mainVars, connVars, threadVars,
            loopVars, TypeInv, TypeOK, ConnType, ThreadType, LoopType
<1>1. CASE Poll(c) \/ RecvPacket(c) \/ RecvEnd(c)
  BY <1>1 DEF Poll, RecvPacket, RecvEnd
<1>2. CASE ClearBit(c) \/ CloseSocket(c) \/ FindSelf(c)
  BY <1>2 DEF ClearBit, CloseSocket, FindSelf
<1>3. CASE EraseSelf(c)
  BY <1>3 DEF EraseSelf
<1>4. CASE LoginCheck(c) \/ ScanUser(c)
  BY <1>4 DEF LoginCheck, ScanUser
<1>5. CASE SetName(c) \/ SetFlag(c) \/ Greet(c)
  BY <1>5 DEF SetName, SetFlag, Greet
<1>6. CASE LogoutCheck(c) \/ ClearName(c)
  BY <1>6 DEF LogoutCheck, ClearName
<1>7. CASE ChatCheck(c) \/ DmCheck(c) \/ DmSend(c)
  BY <1>7 DEF ChatCheck, DmCheck, DmSend
<1>8. CASE BroadcastStep(c) \/ BroadcastEnd(c) \/ Reply(c)
  BY <1>8 DEF BroadcastStep, BroadcastEnd, Reply
<1> QED
  BY <1>1, <1>2, <1>3, <1>4, <1>5, <1>6, <1>7, <1>8 DEF Reader

LEMMA InitRegistryInv == Init => RegistryInv /\ LoopInv
<1> SUFFICES ASSUME Init PROVE RegistryInv /\ LoopInv
  OBVIOUS
<1>1. vec = <<>> /\ Len(vec) = 0 /\ nextId = 0
  BY DEF Init
<1>2. Listed = {} /\ \A d \in Conns : ~Registered(d)
  BY <1>1, ConstantAssumption DEF Listed, Registered, Conns
<1>3. RegistryInv
  BY <1>1, <1>2 DEF RegistryInv
<1>4. LoopInv
  BY DEF Init, LoopInv, LoopKnows
<1> QED
  BY <1>3, <1>4

\* A step of one reader that does not change the vector: what the others know
\* stays true.
LEMMA OwnStep ==
  ASSUME RegistryInv, LoopInv, NEW c \in Conns, KeepsOthers(c), UNCHANGED <<vec, stray>>,
         Removed(c)' <=> Removed(c), LoopKnows(c)'
  PROVE  RegistryInv' /\ LoopInv'
<1>1. \A d \in Conns : Removed(d)' <=> Removed(d)
  BY DEF KeepsOthers, Removed
<1>2. RegistryInv'
  BY <1>1 DEF RegistryInv, KeepsOthers, Listed, Registered
<1>3. \A d \in Conns \ {c} : LoopKnows(d)'
  BY DEF LoopInv, LoopKnows, KeepsOthers, Ahead
<1> QED
  BY <1>2, <1>3 DEF LoopInv

\* A reader outside its loops knows nothing of the vector.
LEMMA AwayStep ==
  ASSUME RegistryInv, LoopInv, NEW c \in Conns, KeepsOthers(c), UNCHANGED <<vec, stray>>,
         pc[c] \notin {"bcast", "done"},
         pc'[c] \notin {"find", "erase", "bcast", "done"},
         owed'[c] \subseteq owed[c]
  PROVE  RegistryInv' /\ LoopInv'
<1>1. owed'[c] = {}
  BY DEF LoopInv, LoopKnows
<1>2. LoopKnows(c)'
  BY <1>1 DEF LoopKnows
<1>3. Removed(c)' <=> Removed(c)
  BY DEF Removed
<1> QED
  BY <1>2, <1>3, OwnStep

LEMMA ReaderRegistryInv ==
  ASSUME TypeInv, ReaderPhases, RegistryInv, LoopInv, NEW c \in Conns, Reader(c),
         ~EraseSelf(c)
  PROVE  RegistryInv' /\ LoopInv'
<1> USE DEF TypeInv, TypeOK, ThreadType, LoopType
<1>1. KeepsOthers(c) /\ UNCHANGED <<vec, stray>>
  BY ReaderKeepsOthers
<1>2. CASE Poll(c) \/ RecvPacket(c) \/ RecvEnd(c) \/ ClearBit(c)
  <2>1. /\ pc[c] \in {"poll", "recv", "clr"}
        /\ pc'[c] \in {"recv", "login", "logout", "chat", "poll", "quit", "clr", "nap"}
        /\ UNCHANGED owed
    BY <1>2 DEF Poll, RecvPacket, RecvEnd, ClearBit, At, Goto, First, loopVars
  <2> QED
    BY <1>1, <2>1, AwayStep
<1>3. CASE LoginCheck(c) \/ ScanUser(c) \/ SetName(c) \/ SetFlag(c)
  <2>1. /\ pc[c] \in {"login", "scan", "name", "flag"}
        /\ pc'[c] \in {"reply", "scan", "name", "dm", "flag", "greet"}
        /\ UNCHANGED owed
    BY <1>3 DEF LoginCheck, ScanUser, SetName, SetFlag, At, Goto, loopVars
  <2> QED
    BY <1>1, <2>1, AwayStep
<1>4. CASE LogoutCheck(c) \/ ClearName(c) \/ DmCheck(c) \/ DmSend(c) \/ Reply(c)
  <2>1. /\ pc[c] \in {"logout", "unname", "dm", "dmsend", "reply"}
        /\ pc'[c] \in {"unname", "reply", "greet", "dmsend", "poll"}
        /\ owed'[c] \subseteq owed[c]
    BY <1>4 DEF LogoutCheck, ClearName, DmCheck, DmSend, Reply, At, Goto, loopVars
  <2> QED
    BY <1>1, <2>1, AwayStep
<1>5. CASE ChatCheck(c)
  <2>1. CASE pc'[c] # "bcast"
    <3>1. pc[c] = "chat" /\ pc'[c] \in {"reply", "scan"} /\ UNCHANGED owed
      BY <1>5, <2>1 DEF ChatCheck, At, Goto
    <3> QED
      BY <1>1, <3>1, AwayStep
  <2>2. CASE pc'[c] = "bcast"
    <3>1. /\ pc[c] = "chat" /\ idx'[c] = 1 /\ cmd'[c] # Gone
          /\ owed'[c] = {d \in Listed \ {c} : loggedIn[d]}
      BY <1>5, <2>2 DEF ChatCheck, At, Goto, ReaderPhases, Teardown
    <3>2. owed'[c] \subseteq {vec[i] : i \in 1 .. Len(vec)}
      BY <3>1 DEF Listed
    <3>3. LoopKnows(c)'
      BY <1>1, <2>2, <3>1, <3>2 DEF LoopKnows, Ahead
    <3>4. Removed(c)' <=> Removed(c)
      BY <2>2, <3>1 DEF Removed
    <3> QED
      BY <1>1, <3>3, <3>4, OwnStep
  <2> QED
    BY <2>1, <2>2
<1>6. CASE Greet(c)
  <2>1. pc[c] = "greet" /\ pc'[c] = "bcast" /\ UNCHANGED <<owed, cmd>>
    BY <1>6 DEF Greet, At, Goto
  <2>2. owed'[c] = {} /\ cmd[c] # Gone
    BY <2>1 DEF LoopInv, LoopKnows, ReaderPhases, Teardown
  <2>3. LoopKnows(c)' /\ (Removed(c)' <=> Removed(c))
    BY <2>1, <2>2 DEF LoopKnows, Removed
  <2> QED
    BY <1>1, <2>3, OwnStep
<1>7. CASE CloseSocket(c)
  <2>1. /\ pc[c] \in {"wake", "nap"} /\ pc'[c] = "find" /\ idx'[c] = 1
        /\ UNCHANGED <<owed, cmd>>
    BY <1>7 DEF CloseSocket, At, Goto
  <2>2. owed'[c] = {} /\ Registered(c) /\ ~Removed(c)
    BY <2>1 DEF LoopInv, LoopKnows, ReaderPhases, Removed
  <2>3. ~stray => c \in {vec[i] : i \in 1 .. Len(vec)}
    BY <2>2 DEF RegistryInv, Listed
  <2>4. LoopKnows(c)' /\ (Removed(c)' <=> Removed(c))
    BY <1>1, <2>1, <2>2, <2>3 DEF LoopKnows, Removed, Ahead
  <2> QED
    BY <1>1, <2>4, OwnStep
<1>8. CASE FindSelf(c)
  <2>1. pc[c] = "find" /\ UNCHANGED <<owed, cmd, shifted>>
    BY <1>8 DEF FindSelf, At, loopVars
  <2>2. owed'[c] = {}
    BY <2>1 DEF LoopInv, LoopKnows
  <2>3. c \notin shifted /\ ~stray => c \in Ahead(c)
    BY <2>1 DEF LoopInv, LoopKnows
  <2>4. CASE idx[c] <= Len(vec) /\ vec[idx[c]] # c
    <3>1. pc'[c] = "find" /\ idx'[c] = idx[c] + 1
      BY <1>8, <2>1, <2>4 DEF FindSelf
    <3>2. c \in Ahead(c) => c \in {vec[i] : i \in idx[c] + 1 .. Len(vec)}
      BY <2>4 DEF Ahead
    <3>3. LoopKnows(c)' /\ (Removed(c)' <=> Removed(c))
      BY <1>1, <2>1, <2>2, <2>3, <3>1, <3>2 DEF LoopKnows, Removed, Ahead
    <3> QED
      BY <1>1, <3>3, OwnStep
  <2>5. CASE ~(idx[c] <= Len(vec) /\ vec[idx[c]] # c)
    <3>1. pc'[c] = "erase" /\ idx'[c] = idx[c]
      BY <1>8, <2>5 DEF FindSelf, Goto
    <3>2. c \in Ahead(c) => idx[c] <= Len(vec) /\ vec[idx[c]] = c
      BY <2>5, LenProperties DEF Ahead, RegistryType
    <3>3. LoopKnows(c)' /\ (Removed(c)' <=> Removed(c))
      BY <1>1, <2>1, <2>2, <2>3, <3>1, <3>2 DEF LoopKnows, Removed
    <3> QED
      BY <1>1, <3>3, OwnStep
  <2> QED
    BY <2>4, <2>5
<1>9. CASE BroadcastStep(c)
  <2>1. /\ pc[c] = "bcast" /\ idx[c] <= Len(vec) /\ UNCHANGED <<pc, cmd, shifted>>
        /\ owed'[c] = owed[c] \ {vec[idx[c]]} /\ idx'[c] = idx[c] + 1
    BY <1>9 DEF BroadcastStep, At
  <2>2. owed[c] \subseteq Ahead(c) => owed'[c] \subseteq {vec[i] : i \in idx[c] + 1 .. Len(vec)}
    BY <2>1 DEF Ahead
  <2>3. LoopKnows(c)' /\ (Removed(c)' <=> Removed(c))
    BY <1>1, <2>1, <2>2 DEF LoopInv, LoopKnows, Removed, Ahead
  <2> QED
    BY <1>1, <2>3, OwnStep
<1>10. CASE BroadcastEnd(c)
  <2>1. /\ pc[c] = "bcast" /\ owed'[c] = {} /\ cmd'[c] = NoCommand
        /\ pc'[c] = IF cmd[c] = Gone THEN "done"
                    ELSE IF cmd[c].op = "chatAll" THEN "reply" ELSE "poll"
    BY <1>10 DEF BroadcastEnd, At, Goto, EndCommand
  <2>2. LoopKnows(c)' /\ (Removed(c)' <=> Removed(c))
    BY <2>1 DEF LoopKnows, Removed
  <2> QED
    BY <1>1, <2>2, OwnStep
<1> QED
  BY <1>2, <1>3, <1>4, <1>5, <1>6, <1>7, <1>8, <1>9, <1>10 DEF Reader

-----------------------------------------------------------------------------
(* The erase.                                                              *)

LEMMA VecTypes ==
  ASSUME TypeInv
  PROVE  /\ vec \in Seq(Conns) /\ Len(vec) \in Nat
         /\ \A i \in 1 .. Len(vec) : vec[i] \in Conns
         /\ idx \in [Conns -> Nat \ {0}] /\ \A d \in Conns : idx[d] \in Nat \ {0}
<1>1. vec \in Seq(Conns) /\ idx \in [Conns -> Nat \ {0}]
  BY DEF TypeInv, TypeOK, RegistryType, ThreadType
<1> QED
  BY <1>1, LenProperties, ElementOfSeq

\* One entry goes, the one at the index or the last, or the process ends.
LEMMA EraseEntries ==
  ASSUME TypeInv, NEW c \in Conns, EraseSelf(c)
  PROVE  \/ UNCHANGED vec /\ stray'
         \/ \E p \in 1 .. Len(vec) :
              /\ IsWithout(vec', vec, p)
              /\ p = idx[c] \/ (p = Len(vec) /\ p < idx[c])
              /\ ~stray' => vec[p] = c
<1>1. vec \in Seq(Conns) /\ Len(vec) \in Nat /\ idx[c] \in Nat \ {0}
  BY VecTypes
<1>2. CASE idx[c] <= Len(vec)
  <2>1. vec' = Vector!RemoveAt(vec, idx[c]) /\ stray' = (stray \/ vec[idx[c]] # c)
    BY <1>1, <1>2 DEF EraseSelf
  <2>2. IsWithout(vec', vec, idx[c])
    BY <1>1, <1>2, <2>1, RemoveAtEntries
  <2>3. ~stray' => vec[idx[c]] = c
    BY <2>1
  <2>4. idx[c] \in 1 .. Len(vec)
    BY <1>1, <1>2
  <2> QED
    BY <2>2, <2>3, <2>4
<1>3. CASE idx[c] > Len(vec) /\ vec # <<>> /\ vec' = SubSeq(vec, 1, Len(vec) - 1)
  <2>1. Len(vec) \in Nat \ {0}
    BY <1>1, <1>3, EmptySeq
  <2>2. \A i \in 1 .. Len(vec) - 1 : vec[i] \in Conns
    BY VecTypes
  <2> DEFINE n == Len(vec) - 1
  <2>3. n \in Nat
    BY <2>1
  <2> HIDE DEF n
  <2>4. /\ Len(SubSeq(vec, 1, n)) = n
        /\ \A i \in 1 .. n : SubSeq(vec, 1, n)[i] = vec[i]
    <3>1. \A i \in 1 .. n : vec[i] \in Conns
      BY <2>2 DEF n
    <3>2. /\ Len(SubSeq(vec, 1, n)) = IF 1 <= n THEN n - 1 + 1 ELSE 0
          /\ \A i \in 1 .. n - 1 + 1 : SubSeq(vec, 1, n)[i] = vec[1 + i - 1]
      BY <2>3, <3>1, SubSeqProperties
    <3> QED
      BY <2>3, <3>2
  <2>5. IsWithout(vec', vec, Len(vec))
    BY <1>3, <2>1, <2>4 DEF IsWithout, n
  <2>6. stray'
    BY <1>1, <1>3 DEF EraseSelf
  <2> QED
    BY <1>3, <2>1, <2>5, <2>6
<1> QED
  BY <1>1, <1>2, <1>3 DEF EraseSelf

\* Whom an erase takes from the vector.
LEMMA EraseListed ==
  ASSUME TypeInv, TypeInv', RegistryInv, NEW c \in Conns, EraseSelf(c)
  PROVE  /\ \A x \in Listed' : x \in Listed
         /\ ~stray' => c \in Listed /\ Listed' = Listed \ {c}
<1>1. CASE UNCHANGED vec /\ stray'
  BY <1>1 DEF Listed
<1>2. ASSUME NEW p \in 1 .. Len(vec), IsWithout(vec', vec, p), ~stray' => vec[p] = c
      PROVE  /\ \A x \in Listed' : x \in Listed
             /\ ~stray' => c \in Listed /\ Listed' = Listed \ {c}
  <2>1. vec \in Seq(Conns) /\ vec' \in Seq(Conns)
    BY VecTypes DEF TypeInv, TypeOK, RegistryType
  <2>2. Listed' = Listed \ {vec[p]}
    BY <1>2, <2>1, WithoutEntries DEF RegistryInv, Listed
  <2>3. vec[p] \in Listed
    BY DEF Listed
  <2> QED
    BY <1>2, <2>2, <2>3
<1> QED
  BY <1>1, <1>2, EraseEntries

\* A loop that is not marked as shifted keeps the entries that it has passed,
\* and before it those that are still listed.
LEMMA EraseLoop ==
  ASSUME TypeInv, TypeInv', RegistryInv, NEW c \in Conns, EraseSelf(c),
         NEW d \in Conns \ {c}, InLoop(d), d \notin shifted'
  PROVE  /\ \A x \in Ahead(d) : x \in Listed' => x \in Ahead(d)'
         /\ \A i \in 1 .. Len(vec') : i < idx[d] => i \in 1 .. Len(vec) /\ vec'[i] = vec[i]
<1>1. /\ vec \in Seq(Conns) /\ Len(vec) \in Nat /\ vec' \in Seq(Conns)
      /\ \A e \in Conns : idx[e] \in Nat \ {0}
  BY VecTypes DEF TypeInv, TypeOK, RegistryType
<1>2. idx'[d] = idx[d]
  BY ReaderKeepsOthers DEF Reader, KeepsOthers
<1>3. ~(idx[d] > idx[c])
  BY DEF EraseSelf
<1>4. CASE UNCHANGED vec
  BY <1>2, <1>4 DEF Ahead
<1>5. ASSUME NEW p \in 1 .. Len(vec), IsWithout(vec', vec, p),
             p = idx[c] \/ (p = Len(vec) /\ p < idx[c])
      PROVE  /\ \A x \in Ahead(d) : x \in Listed' => x \in Ahead(d)'
             /\ \A i \in 1 .. Len(vec') : i < idx[d] => i \in 1 .. Len(vec) /\ vec'[i] = vec[i]
  <2>1. /\ p \in Nat /\ p >= 1 /\ p <= Len(vec) /\ Len(vec') = Len(vec) - 1
        /\ idx[d] <= p \/ p = Len(vec)
        /\ idx[d] \in Nat \ {0}
    BY <1>1, <1>3, <1>5 DEF IsWithout
  <2>2. ASSUME NEW x \in Ahead(d), x \in Listed'
        PROVE  x \in Ahead(d)'
    <3>1. PICK i \in idx[d] .. Len(vec) : x = vec[i]
      BY <2>2 DEF Ahead
    <3>2. PICK j \in 1 .. Len(vec') : x = vec'[j]
      BY <2>2 DEF Listed
    <3>3. \A k, l \in 1 .. Len(vec) : vec[k] = vec[l] => k = l
      BY DEF RegistryInv
    <3>4. j \in idx[d] .. Len(vec')
      BY <1>1, <1>5, <2>1, <3>1, <3>2, <3>3, WithoutAhead
    <3> QED
      BY <1>2, <3>2, <3>4 DEF Ahead
  <2>3. ASSUME NEW i \in 1 .. Len(vec'), i < idx[d]
        PROVE  i \in 1 .. Len(vec) /\ vec'[i] = vec[i]
    <3>1. i \in 1 .. Len(vec) - 1 /\ i < p
      BY <1>1, <2>1, <2>3
    <3>2. vec'[i] = IF i < p THEN vec[i] ELSE vec[i + 1]
      BY <1>5, <3>1 DEF IsWithout
    <3> QED
      BY <1>1, <3>1, <3>2
  <2> QED
    BY <2>2, <2>3
<1> QED
  BY <1>4, <1>5, EraseEntries

LEMMA EraseRegistryInv ==
  ASSUME TypeInv, TypeInv', ReaderPhases, RegistryInv, LoopInv, NEW c \in Conns, EraseSelf(c)
  PROVE  RegistryInv' /\ LoopInv'
<1>1. KeepsOthers(c)
  BY ReaderKeepsOthers DEF Reader
<1>0. /\ vec \in Seq(Conns) /\ Len(vec) \in Nat /\ vec' \in Seq(Conns)
      /\ \A d \in Conns : idx[d] \in Nat \ {0}
  BY VecTypes DEF TypeInv, TypeOK, RegistryType
<1>2. /\ pc[c] = "erase" /\ cmd[c] = Gone /\ Registered(c)
      /\ pc'[c] \in {"bcast", "done"} /\ cmd'[c] = Gone /\ idx'[c] = 1
  BY DEF EraseSelf, At, Goto, ReaderPhases, Teardown, TypeInv, TypeOK, ThreadType
<1>3. /\ stray => stray'
      /\ shifted' = shifted \cup {d \in Conns : InLoop(d) /\ idx[d] > idx[c]}
      /\ \A d \in Conns : owed'[d] = owed[d] \cap {vec'[i] : i \in 1 .. Len(vec')}
  BY DEF EraseSelf
<1>4. \A d \in Conns : Removed(d)' <=> Removed(d) \/ d = c
  BY <1>1, <1>2 DEF Removed, KeepsOthers
<1>5. ~Removed(c) /\ owed[c] = {}
  BY <1>2 DEF Removed, LoopInv, LoopKnows
<1>6. LoopKnows(c)'
  BY <1>2, <1>3, <1>5 DEF LoopKnows
<1>7. CASE UNCHANGED vec /\ stray'
  <2>1. RegistryInv'
    BY <1>1, <1>7 DEF RegistryInv, Listed, Registered, KeepsOthers
  <2>2. \A d \in Conns \ {c} : LoopKnows(d)'
    BY <1>1, <1>7 DEF LoopInv, LoopKnows, KeepsOthers, Ahead
  <2> QED
    BY <1>6, <2>1, <2>2 DEF LoopInv
<1>8. ASSUME NEW p \in 1 .. Len(vec), IsWithout(vec', vec, p),
             p = idx[c] \/ (p = Len(vec) /\ p < idx[c]),
             ~stray' => vec[p] = c
      PROVE  RegistryInv' /\ LoopInv'
  <2>1. /\ \A i, j \in 1 .. Len(vec') : vec'[i] = vec'[j] => i = j
        /\ Listed' = Listed \ {vec[p]}
    BY <1>0, <1>8, WithoutEntries DEF RegistryInv, Listed
  <2>2. RegistryInv'
    BY <1>1, <1>2, <1>3, <1>4, <1>8, <2>1 DEF RegistryInv, Registered, KeepsOthers
  <2>3. ASSUME NEW d \in Conns \ {c}, pc[d] \in {"find", "erase", "bcast"}, d \notin shifted',
               NEW x \in Ahead(d), x \in Listed'
        PROVE  x \in Ahead(d)'
    BY <2>3, EraseLoop DEF InLoop
  <2>4. ASSUME NEW d \in Conns \ {c} PROVE LoopKnows(d)'
    <3>1. /\ pc'[d] = pc[d] /\ idx'[d] = idx[d] /\ (d \in shifted => d \in shifted')
          /\ owed'[d] \subseteq owed[d] /\ owed'[d] \subseteq Listed'
      BY <1>1, <1>3 DEF KeepsOthers, Listed
    <3>2. pc[d] \in {"find", "erase"} /\ ~stray' => d \in Listed'
      <4> SUFFICES ASSUME pc[d] \in {"find", "erase"}, ~stray' PROVE d \in Listed'
        OBVIOUS
      <4>1. Registered(d) /\ ~Removed(d)
        BY DEF ReaderPhases, Removed
      <4> QED
        BY <1>3, <1>8, <2>1, <4>1 DEF RegistryInv
    <3>3. pc'[d] = "find" /\ d \notin shifted' /\ ~stray' => d \in Ahead(d)'
      BY <1>3, <2>3, <3>1, <3>2 DEF LoopInv, LoopKnows
    <3>4. pc'[d] = "bcast" /\ d \notin shifted' => owed'[d] \subseteq Ahead(d)'
      BY <2>3, <3>1 DEF LoopInv, LoopKnows
    <3>5. ASSUME pc'[d] = "erase", d \notin shifted', ~stray'
          PROVE  idx'[d] <= Len(vec') /\ vec'[idx'[d]] = d
      <4>1. idx[d] <= Len(vec) /\ vec[idx[d]] = d
        BY <1>3, <3>1, <3>5 DEF LoopInv, LoopKnows
      <4>2. idx[d] # p /\ ~(idx[d] > idx[c])
        BY <1>3, <1>8, <3>1, <3>5, <4>1 DEF InLoop
      <4>3. /\ idx[d] \in Nat \ {0} /\ idx[c] \in Nat \ {0} /\ p \in Nat /\ Len(vec) \in Nat
            /\ p <= Len(vec) /\ Len(vec') = Len(vec) - 1
        BY <1>0, <1>8 DEF IsWithout
      <4>4. idx[d] < p
        BY <1>8, <4>1, <4>2, <4>3
      <4>5. idx[d] \in 1 .. Len(vec) - 1
        BY <4>3, <4>4
      <4>6. vec'[idx[d]] = vec[idx[d]]
        BY <1>8, <4>4, <4>5 DEF IsWithout
      <4> QED
        BY <3>1, <4>1, <4>3, <4>5, <4>6
    <3>6. owed'[d] # {} => pc'[d] = "bcast"
      BY <3>1 DEF LoopInv, LoopKnows
    <3> QED
      BY <3>3, <3>4, <3>5, <3>6 DEF LoopKnows
  <2> QED
    BY <1>6, <2>2, <2>4 DEF LoopInv
<1> QED
  BY <1>7, <1>8, EraseEntries

-----------------------------------------------------------------------------
(* The other threads, and the clients.                                     *)

\* A step that leaves the vector and what the readers do in it alone.
LEMMA AsideStep ==
  ASSUME RegistryInv, LoopInv,
         UNCHANGED <<nextId, vec, stray, cmd, idx, shifted, owed>>,
         \A d \in Conns : pc'[d] = pc[d] \/ (pc[d] = "nap" /\ pc'[d] = "wake")
  PROVE  RegistryInv' /\ LoopInv'
<1>1. \A d \in Conns : Removed(d)' <=> Removed(d)
  BY DEF Removed
<1>2. RegistryInv'
  BY <1>1 DEF RegistryInv, Listed, Registered
<1>3. LoopInv'
  BY DEF LoopInv, LoopKnows, Ahead
<1> QED
  BY <1>2, <1>3

LEMMA RegisterRegistryInv ==
  ASSUME TypeInv, ReaderPhases, RegistryInv, LoopInv, Register
  PROVE  RegistryInv' /\ LoopInv'
<1>0. /\ vec \in Seq(Conns) /\ Len(vec) \in Nat /\ \A i \in 1 .. Len(vec) : vec[i] \in Conns
      /\ \A d \in Conns : idx[d] \in Nat \ {0}
  BY VecTypes
<1>1. nextId \in Conns /\ ~Registered(nextId)
  BY ConstantAssumption DEF Register, MainAt, Made, AcceptsOnlyQueued, MainType, KernelType,
                            Conns, Registered, TypeInv, TypeOK
<1>2. /\ vec' = Append(vec, nextId) /\ nextId' = nextId + 1
      /\ UNCHANGED <<stray, cmd, idx, shifted, owed>>
      /\ pc'[nextId] = "poll" /\ \A d \in Conns \ {nextId} : pc'[d] = pc[d]
  BY <1>1 DEF Register, Goto, loopVars, TypeInv, TypeOK, ThreadType
<1>3. /\ Len(vec) \in Nat /\ Len(vec') = Len(vec) + 1
      /\ \A i \in 1 .. Len(vec) : vec'[i] = vec[i]
      /\ vec'[Len(vec) + 1] = nextId
  BY <1>0, <1>1, <1>2, AppendProperties
<1>4. Listed' = Listed \cup {nextId}
  <2>1. \A x \in Listed' : x \in Listed \cup {nextId}
    BY <1>0, <1>3 DEF Listed
  <2>2. \A x \in Listed : x \in Listed'
    BY <1>0, <1>3 DEF Listed
  <2>3. nextId \in Listed'
    BY <1>0, <1>3 DEF Listed
  <2> QED
    BY <2>1, <2>2, <2>3
<1>5. \A d \in Conns : Registered(d)' <=> Registered(d) \/ d = nextId
  BY <1>2 DEF Registered, Conns, MainType, TypeInv, TypeOK
<1>6. cmd[nextId] # Gone /\ pc[nextId] = "none"
  BY <1>1 DEF ReaderPhases, Teardown
<1>7. \A d \in Conns : Removed(d)' <=> Removed(d)
  BY <1>2, <1>6 DEF Removed
<1>8. RegistryInv'
  <2>1. \A i \in 1 .. Len(vec) : vec[i] # nextId
    BY <1>1 DEF RegistryInv, Listed
  <2>2. \A i, j \in 1 .. Len(vec') : vec'[i] = vec'[j] => i = j
    <3>1. \A i \in 1 .. Len(vec') : i \in 1 .. Len(vec) \/ i = Len(vec) + 1
      BY <1>0, <1>3
    <3> QED
      BY <1>3, <2>1, <3>1 DEF RegistryInv
  <2>3. \A d \in Listed' : Registered(d)'
    <3>1. Listed \subseteq Conns
      BY <1>0 DEF Listed
    <3> QED
      BY <1>1, <1>4, <1>5, <3>1 DEF RegistryInv
  <2>4. ~Removed(nextId)
    BY <1>6 DEF Removed
  <2> QED
    BY <1>2, <1>4, <1>5, <1>7, <2>2, <2>3, <2>4 DEF RegistryInv
<1>9. ASSUME NEW d \in Conns PROVE LoopKnows(d)'
  <2>1. Ahead(d) \subseteq Ahead(d)'
    BY <1>0, <1>2, <1>3 DEF Ahead
  <2>2. idx[d] <= Len(vec) => idx[d] <= Len(vec') /\ vec'[idx[d]] = vec[idx[d]]
    BY <1>0, <1>3
  <2> QED
    BY <1>2, <1>6, <2>1, <2>2 DEF LoopInv, LoopKnows
<1> QED
  BY <1>8, <1>9 DEF LoopInv

LEMMA NextRegistryInv ==
  TypeInv /\ TypeInv' /\ ReaderPhases /\ RegistryInv /\ LoopInv /\ [Next]_vars =>
    RegistryInv' /\ LoopInv'
<1> SUFFICES ASSUME TypeInv, TypeInv', ReaderPhases, RegistryInv, LoopInv, [Next]_vars
             PROVE  RegistryInv' /\ LoopInv'
  OBVIOUS
<1> USE DEF mainVars, threadVars, loopVars
<1>1. ASSUME NEW c \in Conns, Reader(c) PROVE RegistryInv' /\ LoopInv'
  BY <1>1, ReaderRegistryInv, EraseRegistryInv
<1>2. CASE Main
  <2>1. CASE Register
    BY <2>1, RegisterRegistryInv
  <2>2. CASE CopyMaster
    BY <2>2, AsideStep DEF CopyMaster
  <2>3. CASE Select \/ Accept \/ SetBit \/ MarkExiting \/ ExitProcess
    BY <2>3, AsideStep DEF Select, Accept, SetBit, MarkExiting, ExitProcess
  <2> QED
    BY <1>2, <2>1, <2>2, <2>3 DEF Main
<1>3. CASE Connect \/ SigInt \/ Stopped \/ \E c \in Conns : Client(c)
  BY <1>3, AsideStep DEF Connect, SigInt, Stopped, Client, SendCommand, StopReading,
                         ResumeReading, HangUp, vars
<1>4. CASE UNCHANGED vars
  BY <1>4, AsideStep DEF vars
<1> QED
  BY <1>1, <1>2, <1>3, <1>4 DEF Next

-----------------------------------------------------------------------------
(* The theorems.                                                           *)

ServerInv == TypeInv /\ FdInv /\ RegistryInv /\ LoopInv

LEMMA ServerInvHolds == Spec => []ServerInv
<1>1. Init => ServerInv
  BY InitTypeInv, InitFdInv, InitRegistryInv DEF ServerInv
<1>2. ServerInv /\ [Next]_vars => ServerInv'
  BY NextTypeInv, NextFdInv, NextRegistryInv DEF ServerInv, FdInv
<1> QED
  BY <1>1, <1>2, PTL DEF Spec

\* A vector without repetitions is as long as it has members.
LEMMA LengthIsCardinality ==
  ASSUME TypeInv, RegistryInv
  PROVE  Len(vec) = Cardinality(Listed)
<1>1. Len(vec) \in Nat /\ vec \in [1 .. Len(vec) -> Conns]
  BY VecTypes, LenProperties
<1>2. vec \in [1 .. Len(vec) -> Listed]
  BY <1>1 DEF Listed
<1>3. vec \in Injection(1 .. Len(vec), Listed)
  BY <1>2 DEF RegistryInv, Injection, IsInjective
<1>4. vec \in Surjection(1 .. Len(vec), Listed)
  BY <1>2 DEF Surjection, Listed
<1>5. ExistsBijection(1 .. Len(vec), Listed)
  BY <1>3, <1>4 DEF ExistsBijection, Bijection
<1> QED
  BY <1>1, <1>5, FS_CountingElements

\* The vector that chat and get_user_connection walk over lists everybody who
\* is connected, once, and nobody else, however registrations and departures
\* interleave; only an erase at a stale index (server.cpp:186-192) ends this.
THEOREM RegistryTheorem == Spec => []RegistryIsExact
<1>1. ServerInv => RegistryIsExact
  <2> SUFFICES ASSUME ServerInv, ~stray
               PROVE  /\ Listed = {c \in Conns : Registered(c) /\ ~Removed(c)}
                      /\ Len(vec) = Cardinality(Listed)
    BY DEF RegistryIsExact
  <2>1. Listed \subseteq Conns
    BY VecTypes DEF Listed, ServerInv
  <2>2. Listed = {c \in Conns : Registered(c) /\ ~Removed(c)}
    BY <2>1 DEF ServerInv, RegistryInv
  <2> QED
    BY <2>2, LengthIsCardinality DEF ServerInv
<1> QED
  BY <1>1, ServerInvHolds, PTL

\* A reader that no other erase has disturbed since it began to search for its
\* entry (server.cpp:186) has found it, and erases it.
THEOREM EraseTheorem == Spec => []ErasesItself
<1>1. ServerInv => ErasesItself
  BY DEF ServerInv, LoopInv, LoopKnows, ErasesItself
<1> QED
  BY <1>1, ServerInvHolds, PTL

\* Whoever was logged in when a chat began, and is still there, has it or will
\* have it, however many come and go meanwhile: an erase behind the position of
\* the loop does no harm, and one before it marks the loop as shifted.
THEOREM BroadcastTheorem == Spec => []BroadcastReachesAll
<1>1. ServerInv => BroadcastReachesAll
  BY DEF ServerInv, LoopInv, LoopKnows, BroadcastReachesAll, Ahead
<1> QED
  BY <1>1, ServerInvHolds, PTL
=============================================================================

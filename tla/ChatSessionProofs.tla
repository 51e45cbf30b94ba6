-------------------------- MODULE ChatSessionProofs --------------------------
(***************************************************************************)
(* Names, sessions and messages, for every number of connections, names    *)
(* and descriptors: who is logged in under which name, that every step of  *)
(* the server is one whole step of one session, and where messages go.     *)
(*                                                                         *)
(* The check of a name and its write are not one step.  What a login has   *)
(* seen of the vector stays true until it writes because a second login    *)
(* that overlaps it, or an erase that moves the vector under it, marks it  *)
(* as unsure.                                                              *)
(***************************************************************************)
EXTENDS ChatSession, ChatServerProofs

\* What the place of a reader says about its connection: the name is written
\* before the flag is set, and cleared after the flag is.
Phase(c) ==
  /\ pc[c] = "none" => name[c] = NoName /\ ~loggedIn[c] /\ peer[c] = "open"
  /\ InLogin(c) \/ pc[c] \in {"flag", "unname"} => ~loggedIn[c]
  /\ ~loggedIn[c] /\ pc[c] \notin {"flag", "unname"} => name[c] = NoName
  /\ pc[c] \in {"dm", "dmsend"} => tgt[c] \in Conns /\ Registered(tgt[c])

\* Two logins at once have both been marked.
Rivals == \A c, d \in Conns : c # d /\ InLogin(c) /\ InLogin(d) => c \in unsure

\* What a login that nothing has disturbed knows of the names.  A search for
\* the empty name finds the user's own connection, which is still before it.
ScanKnows(c) ==
  pc[c] = "scan" /\ cmd[c].op = "login" /\ c \notin unsure \cup shifted /\ ~stray =>
    IF cmd[c].who = NoName THEN c \in Ahead(c)
    ELSE \A i \in 1 .. Len(vec) : i < idx[c] => name[vec[i]] # cmd[c].who

NameFree(c) ==
  pc[c] = "name" /\ c \notin unsure /\ ~stray =>
    cmd[c].who # NoName /\ \A d \in Listed : name[d] # cmd[c].who

Named(c) ==
  ~stray /\ (loggedIn[c] \/ pc[c] = "flag") /\ name[c] = NoName => c \in unsure

NamesUnique ==
  ~stray => \A c, d \in Listed : c # d /\ name[c] = name[d] /\ name[c] # NoName =>
                                   c \in unsure \/ d \in unsure

LoginInv(c) == Phase(c) /\ ScanKnows(c) /\ NameFree(c) /\ Named(c)

NamesInv == Rivals /\ NamesUnique /\ \A c \in Conns : LoginInv(c)

-----------------------------------------------------------------------------
(* Steps that write no name.                                               *)

LEMMA InitNamesInv == Init => NamesInv
<1> SUFFICES ASSUME Init PROVE NamesInv
  OBVIOUS
<1>1. Listed = {}
  <2>1. vec = <<>> /\ Len(vec) = 0
    BY DEF Init
  <2> QED
    BY <2>1 DEF Listed
<1>2. \A c \in Conns : /\ pc[c] = "none" /\ name[c] = NoName /\ ~loggedIn[c]
                       /\ peer[c] = "open"
  BY DEF Init
<1>3. \A c \in Conns : ~InLogin(c)
  BY <1>2 DEF InLogin
<1>4. \A c \in Conns : LoginInv(c)
  BY <1>2, <1>3 DEF LoginInv, Phase, ScanKnows, NameFree, Named
<1> QED
  BY <1>1, <1>3, <1>4 DEF NamesInv, Rivals, NamesUnique

\* What a reader does to itself disturbs no other's login, as long as it
\* writes no name and begins no login.
LEMMA PlainStep ==
  ASSUME TypeInv, NamesInv, NEW c \in Conns, KeepsOthers(c), UNCHANGED <<vec, stray>>,
         \A d \in Conns : peer[d] = "open" => peer'[d] = "open",
         c \in unsure => c \in unsure' \/ name[c] = NoName,
         name'[c] = name[c] \/ name'[c] = NoName,
         InLogin(c)' => InLogin(c) /\ (c \in unsure => c \in unsure'),
         LoginInv(c)'
  PROVE  NamesInv'
<1>1. Listed \subseteq Conns /\ Listed' = Listed /\ Len(vec) \in Nat
      /\ \A i \in 1 .. Len(vec) : vec[i] \in Conns
  BY VecTypes DEF Listed
<1>2. \A d \in Conns : name'[d] = name[d] \/ name'[d] = NoName
  BY DEF KeepsOthers
<1>3. Rivals'
  BY DEF NamesInv, Rivals, KeepsOthers, InLogin
<1>4. NamesUnique'
  BY <1>1, <1>2 DEF NamesInv, NamesUnique, KeepsOthers
<1>5. ASSUME NEW d \in Conns \ {c} PROVE LoginInv(d)'
  <2>1. LoginInv(d)
    BY DEF NamesInv
  <2>2. /\ pc'[d] = pc[d] /\ cmd'[d] = cmd[d] /\ idx'[d] = idx[d] /\ tgt'[d] = tgt[d]
        /\ name'[d] = name[d] /\ loggedIn'[d] = loggedIn[d]
        /\ (d \in shifted => d \in shifted') /\ (d \in unsure => d \in unsure')
        /\ nextId' = nextId
    BY DEF KeepsOthers
  <2>3. Phase(d)'
    BY <2>1, <2>2 DEF LoginInv, Phase, InLogin, Registered
  <2>4. ScanKnows(d)'
    BY <1>1, <1>2, <2>1, <2>2 DEF LoginInv, ScanKnows, Ahead
  <2>5. NameFree(d)' /\ Named(d)'
    BY <1>1, <1>2, <2>1, <2>2 DEF LoginInv, NameFree, Named
  <2> QED
    BY <2>3, <2>4, <2>5 DEF LoginInv
<1> QED
  BY <1>3, <1>4, <1>5 DEF NamesInv

\* No reader makes the client of another hang up.
LEMMA ReaderKeepsOpen ==
  ASSUME TypeInv, NEW c \in Conns, Reader(c), NEW d \in Conns, peer[d] = "open"
  PROVE  peer'[d] = "open"
<1> USE DEF TypeInv, TypeOK, PeerType, peerVars
<1>1. ASSUME NEW fd, Send(fd) PROVE peer'[d] = "open"
  BY <1>1 DEF Send
<1>2. CASE Poll(c) \/ RecvPacket(c) \/ RecvEnd(c) \/ ClearBit(c)
  BY <1>2 DEF Poll, RecvPacket, RecvEnd, ClearBit
<1>3. CASE CloseSocket(c) \/ FindSelf(c) \/ EraseSelf(c)
  BY <1>3 DEF CloseSocket, FindSelf, EraseSelf
<1>4. CASE LoginCheck(c) \/ ScanUser(c) \/ SetName(c) \/ SetFlag(c)
  BY <1>4 DEF LoginCheck, ScanUser, SetName, SetFlag
<1>5. CASE LogoutCheck(c) \/ ClearName(c) \/ ChatCheck(c) \/ DmCheck(c) \/ BroadcastEnd(c)
  BY <1>5 DEF LogoutCheck, ClearName, ChatCheck, DmCheck, BroadcastEnd
<1>6. CASE Greet(c) \/ DmSend(c) \/ Reply(c)
  BY <1>1, <1>6 DEF Greet, DmSend, Reply
<1>7. CASE BroadcastStep(c)
  BY <1>1, <1>7 DEF BroadcastStep
<1> QED
  BY <1>2, <1>3, <1>4, <1>5, <1>6, <1>7 DEF Reader

\* Steps from and to places where no login is under way.
LEMMA CalmStep ==
  ASSUME TypeInv, NamesInv, NEW c \in Conns, KeepsOthers(c), UNCHANGED <<vec, stray>>,
         \A d \in Conns : peer[d] = "open" => peer'[d] = "open",
         UNCHANGED <<name, loggedIn, unsure>>, Registered(c),
         pc[c] \notin {"none", "flag", "unname"},
         pc'[c] \notin {"none", "scan", "name", "flag", "unname"},
         pc'[c] \in {"dm", "dmsend"} => tgt'[c] \in Conns /\ Registered(tgt'[c])
  PROVE  NamesInv'
<1>1. LoginInv(c)
  BY DEF NamesInv
<1>2. ~InLogin(c)'
  BY DEF InLogin
<1>3. Phase(c)'
  BY <1>1, <1>2 DEF LoginInv, Phase, Registered, KeepsOthers
<1>4. ScanKnows(c)' /\ NameFree(c)' /\ Named(c)'
  BY <1>1 DEF LoginInv, ScanKnows, NameFree, Named
<1> QED
  BY <1>2, <1>3, <1>4, PlainStep DEF LoginInv

\* One iteration of the search for a name.
LEMMA ScanNamesInv ==
  ASSUME TypeInv, RegistryInv, NamesInv, NEW c \in Conns, Registered(c), KeepsOthers(c),
         UNCHANGED <<vec, stray>>,
         \A d \in Conns : peer[d] = "open" => peer'[d] = "open",
         ScanUser(c)
  PROVE  NamesInv'
<1>1. /\ pc[c] = "scan" /\ UNCHANGED <<name, loggedIn, cmd, shifted>>
      /\ \A x \in unsure : x \in unsure'
  BY DEF ScanUser, At, connVars
<1>2. LoginInv(c)
  BY DEF NamesInv
<1>3. /\ vec \in Seq(Conns) /\ Len(vec) \in Nat /\ idx[c] \in Nat \ {0}
      /\ \A i \in 1 .. Len(vec) : vec[i] \in Conns
  BY VecTypes
<1>4. CASE idx[c] <= Len(vec) /\ name[vec[idx[c]]] # cmd[c].who /\ idx' = [idx EXCEPT ![c] = @ + 1]
           /\ UNCHANGED <<pc, tgt, unsure>>
  <2>1. idx'[c] = idx[c] + 1
    BY <1>4 DEF TypeInv, TypeOK, ThreadType
  <2>2. ScanKnows(c)'
    <3> SUFFICES ASSUME cmd[c].op = "login", c \notin unsure \cup shifted, ~stray
                 PROVE  IF cmd[c].who = NoName THEN c \in Ahead(c)'
                        ELSE \A i \in 1 .. Len(vec) : i < idx'[c] => name[vec[i]] # cmd[c].who
      BY <1>1, <1>4 DEF ScanKnows
    <3>1. CASE cmd[c].who = NoName
      <4>1. name[c] = NoName
        BY <1>1, <1>2 DEF LoginInv, Phase, InLogin
      <4>2. c \in Ahead(c) /\ vec[idx[c]] # c
        BY <1>1, <1>2, <1>4, <3>1, <4>1 DEF LoginInv, ScanKnows
      <4>3. PICK i \in idx[c] .. Len(vec) : vec[i] = c
        BY <4>2 DEF Ahead
      <4>4. i \in idx'[c] .. Len(vec)
        BY <1>3, <2>1, <4>2, <4>3
      <4> QED
        BY <3>1, <4>3, <4>4 DEF Ahead
    <3>2. CASE cmd[c].who # NoName
      <4>1. \A i \in 1 .. Len(vec) : i < idx[c] => name[vec[i]] # cmd[c].who
        BY <1>1, <1>2, <3>2 DEF LoginInv, ScanKnows
      <4> QED
        BY <1>3, <1>4, <2>1, <3>2, <4>1
    <3> QED
      BY <3>1, <3>2
  <2>3. LoginInv(c)'
    BY <1>1, <1>2, <1>4, <2>2 DEF LoginInv, Phase, NameFree, Named, InLogin, Registered, KeepsOthers
  <2> QED
    BY <1>1, <1>4, <2>3, PlainStep DEF InLogin
<1>5. CASE idx[c] <= Len(vec) /\ name[vec[idx[c]]] = cmd[c].who
  <2>1. /\ UNCHANGED unsure
        /\ pc'[c] = "reply" \/ (pc'[c] = "dm" /\ tgt'[c] = vec[idx[c]])
    BY <1>1, <1>3, <1>5 DEF ScanUser, Goto, TypeInv, TypeOK, ThreadType
  <2>2. vec[idx[c]] \in Conns /\ vec[idx[c]] \in Listed
    BY <1>3, <1>5 DEF Listed
  <2> QED
    BY <1>1, <2>1, <2>2, CalmStep DEF RegistryInv
<1>6. CASE idx[c] > Len(vec)
  <2>1. /\ pc'[c] = IF cmd[c].op = "login" THEN "name" ELSE "reply"
        /\ c \in shifted => c \in unsure'
    BY <1>1, <1>3, <1>6 DEF ScanUser, Goto, TypeInv, TypeOK, ThreadType
  <2>2. Phase(c)' /\ Named(c)'
    BY <1>1, <1>2, <2>1 DEF LoginInv, Phase, Named, InLogin
  <2>3. NameFree(c)'
    <3> SUFFICES ASSUME pc'[c] = "name", c \notin unsure', ~stray
                 PROVE  cmd[c].who # NoName /\ \A d \in Listed : name[d] # cmd[c].who
      BY <1>1 DEF NameFree, Listed
    <3>1. cmd[c].op = "login" /\ c \notin unsure \cup shifted
      BY <1>1, <2>1
    <3>2. cmd[c].who # NoName
      BY <1>1, <1>2, <1>3, <1>6, <3>1 DEF LoginInv, ScanKnows, Ahead
    <3>3. \A i \in 1 .. Len(vec) : name[vec[i]] # cmd[c].who
      BY <1>1, <1>2, <1>3, <1>6, <3>1, <3>2 DEF LoginInv, ScanKnows
    <3> QED
      BY <3>2, <3>3 DEF Listed
  <2>4. LoginInv(c)' /\ (InLogin(c)' => InLogin(c))
    BY <1>1, <2>1, <2>2, <2>3 DEF LoginInv, ScanKnows, InLogin
  <2> QED
    BY <1>1, <2>4, PlainStep
<1> QED
  BY <1>4, <1>5, <1>6 DEF ScanUser

-----------------------------------------------------------------------------
(* Steps that begin a login, write a name, or remove an entry.             *)

\* A login that begins while another is under way marks both.
LEMMA LoginNamesInv ==
  ASSUME TypeInv, RegistryInv, NamesInv, NEW c \in Conns, Registered(c), KeepsOthers(c),
         UNCHANGED <<vec, stray>>, ~Removed(c), LoginCheck(c)
  PROVE  NamesInv'
<1>1. /\ pc[c] = "login" /\ UNCHANGED <<name, loggedIn, cmd, tgt, peer, nextId>>
  BY DEF LoginCheck, At, connVars, peerVars, mainVars
<1>2. LoginInv(c)
  BY DEF NamesInv
<1>3. CASE loggedIn[c]
  <2>1. pc'[c] = "reply" /\ UNCHANGED unsure
    BY <1>1, <1>3 DEF LoginCheck, Goto, TypeInv, TypeOK, ThreadType
  <2> QED
    BY <1>1, <2>1, CalmStep
<1>4. CASE ~loggedIn[c]
  <2>1. /\ pc'[c] = "scan" /\ idx'[c] = 1
        /\ unsure' = LET racing == {d \in Conns : InLogin(d)}
                     IN IF racing = {} THEN unsure \ {c} ELSE unsure \cup racing \cup {c}
    BY <1>1, <1>4 DEF LoginCheck, Goto, TypeInv, TypeOK, ThreadType
  <2>2. name[c] = NoName
    BY <1>1, <1>2, <1>4 DEF LoginInv, Phase
  <2>3. /\ \A d \in Conns \ {c} : d \in unsure => d \in unsure'
        /\ \A d \in Conns \ {c} : InLogin(d) => d \in unsure' /\ c \in unsure'
    BY <2>1
  <2>4. \A d \in Conns \ {c} : InLogin(d)' <=> InLogin(d)
    BY DEF KeepsOthers, InLogin
  <2>5. Rivals'
    BY <2>3, <2>4 DEF NamesInv, Rivals
  <2>6. NamesUnique'
    <3>1. Listed \subseteq Conns /\ Listed' = Listed
      BY VecTypes DEF Listed
    <3> QED
      BY <1>1, <2>2, <2>3, <3>1 DEF NamesInv, NamesUnique
  <2>7. LoginInv(c)'
    <3>1. Phase(c)' /\ NameFree(c)' /\ Named(c)'
      BY <1>1, <1>4, <2>1, <2>2 DEF Phase, NameFree, Named
    <3>2. ScanKnows(c)'
      <4>1. ~stray => c \in Listed
        BY DEF RegistryInv
      <4>2. Ahead(c)' = Listed
        BY <2>1 DEF Ahead, Listed
      <4>3. \A i \in 1 .. Len(vec) : ~(i < 1)
        BY VecTypes
      <4> QED
        BY <1>1, <2>1, <4>1, <4>2, <4>3 DEF ScanKnows
    <3> QED
      BY <3>1, <3>2 DEF LoginInv
  <2>8. ASSUME NEW d \in Conns \ {c} PROVE LoginInv(d)'
    <3>1. /\ pc'[d] = pc[d] /\ idx'[d] = idx[d] /\ LoginInv(d)
          /\ (d \in shifted => d \in shifted')
      BY DEF KeepsOthers, NamesInv
    <3>2. Phase(d)' /\ NameFree(d)' /\ Named(d)'
      BY <1>1, <2>3, <2>4, <3>1 DEF LoginInv, Phase, NameFree, Named, Registered, Listed
    <3>3. ScanKnows(d)'
      BY <1>1, <2>3, <3>1 DEF LoginInv, ScanKnows, Ahead
    <3> QED
      BY <3>2, <3>3 DEF LoginInv
  <2> QED
    BY <2>5, <2>6, <2>7, <2>8 DEF NamesInv
<1> QED
  BY <1>3, <1>4

\* A name is written: no other login that has not been marked relies on it.
LEMMA WriteNamesInv ==
  ASSUME TypeInv, NamesInv, NEW c \in Conns, KeepsOthers(c), UNCHANGED <<vec, stray>>,
         SetName(c)
  PROVE  NamesInv'
<1>1. /\ pc[c] = "name" /\ pc'[c] = "flag" /\ name'[c] = cmd[c].who
      /\ UNCHANGED <<loggedIn, cmd, idx, tgt, peer, nextId, shifted, unsure>>
      /\ \A d \in Conns \ {c} : pc'[d] = pc[d] /\ name'[d] = name[d]
  BY DEF SetName, At, Goto, peerVars, mainVars, loopVars, TypeInv, TypeOK, ThreadType, ConnType
<1>2. LoginInv(c) /\ InLogin(c)
  BY <1>1 DEF NamesInv, InLogin
<1>3. Listed \subseteq Conns /\ Listed' = Listed
  BY VecTypes DEF Listed
<1>4. Rivals'
  BY <1>1 DEF NamesInv, Rivals, InLogin
<1>5. NamesUnique'
  BY <1>1, <1>2, <1>3 DEF NamesInv, NamesUnique, LoginInv, NameFree
<1>6. LoginInv(c)'
  BY <1>1, <1>2 DEF LoginInv, Phase, ScanKnows, NameFree, Named, InLogin
<1>7. ASSUME NEW d \in Conns \ {c} PROVE LoginInv(d)'
  <2>1. LoginInv(d) /\ (InLogin(d) => d \in unsure)
    BY <1>2 DEF NamesInv, Rivals
  <2>2. Phase(d)' /\ Named(d)'
    BY <1>1, <2>1 DEF LoginInv, Phase, Named, InLogin, Registered
  <2>3. ScanKnows(d)' /\ NameFree(d)'
    BY <1>1, <2>1 DEF ScanKnows, NameFree, InLogin
  <2> QED
    BY <2>2, <2>3 DEF LoginInv
<1> QED
  BY <1>4, <1>5, <1>6, <1>7 DEF NamesInv

\* An erase takes entries away, and marks the searches that it disturbs.
LEMMA EraseNamesInv ==
  ASSUME TypeInv, TypeInv', ReaderPhases, RegistryInv, NamesInv,
         NEW c \in Conns, KeepsOthers(c), EraseSelf(c)
  PROVE  NamesInv'
<1>1. /\ pc[c] = "erase" /\ pc'[c] \in {"bcast", "done"}
      /\ UNCHANGED <<name, loggedIn, cmd, tgt, nextId, unsure>>
      /\ stray => stray'
      /\ \A d \in Conns : peer[d] = "open" => peer'[d] = "open"
  BY ReaderKeepsOpen DEF Reader, EraseSelf, At, Goto, connVars, TypeInv, TypeOK, ThreadType
<1>2. /\ \A x \in Listed' : x \in Listed
      /\ ~stray' => Listed' = Listed \ {c}
  BY EraseListed
<1>3. \A d \in Conns : InLogin(d)' => InLogin(d)
  BY <1>1 DEF InLogin, KeepsOthers
<1>4. Rivals' /\ NamesUnique'
  BY <1>1, <1>2, <1>3 DEF NamesInv, Rivals, NamesUnique
<1>5. LoginInv(c)'
  BY <1>1, <1>3 DEF NamesInv, LoginInv, Phase, ScanKnows, NameFree, Named
<1>6. ASSUME NEW d \in Conns \ {c} PROVE LoginInv(d)'
  <2>1. /\ LoginInv(d) /\ pc'[d] = pc[d] /\ idx'[d] = idx[d]
        /\ (d \in shifted => d \in shifted')
    BY DEF NamesInv, KeepsOthers
  <2>2. Phase(d)' /\ NameFree(d)' /\ Named(d)'
    BY <1>1, <1>2, <1>3, <2>1 DEF LoginInv, Phase, NameFree, Named, Registered
  <2>3. ASSUME pc[d] = "scan", cmd[d].op = "login", d \notin unsure \cup shifted', ~stray'
        PROVE  IF cmd[d].who = NoName THEN d \in Ahead(d)'
               ELSE \A i \in 1 .. Len(vec') : i < idx[d] => name[vec'[i]] # cmd[d].who
    <3>1. IF cmd[d].who = NoName THEN d \in Ahead(d)
          ELSE \A i \in 1 .. Len(vec) : i < idx[d] => name[vec[i]] # cmd[d].who
      BY <1>1, <2>1, <2>3 DEF LoginInv, ScanKnows
    <3>2. /\ \A x \in Ahead(d) : x \in Listed' => x \in Ahead(d)'
          /\ \A i \in 1 .. Len(vec') : i < idx[d] => i \in 1 .. Len(vec) /\ vec'[i] = vec[i]
      BY <2>3, EraseLoop DEF InLoop
    <3>3. d \in Listed'
      <4>1. Registered(d) /\ ~Removed(d)
        BY <2>3 DEF ReaderPhases, Removed
      <4> QED
        BY <1>1, <1>2, <2>3, <4>1 DEF RegistryInv
    <3> QED
      BY <3>1, <3>2, <3>3
  <2>4. ScanKnows(d)'
    BY <1>1, <2>1, <2>3 DEF ScanKnows
  <2> QED
    BY <2>2, <2>4 DEF LoginInv
<1> QED
  BY <1>4, <1>5, <1>6 DEF NamesInv

LEMMA ReaderNamesInv ==
  ASSUME TypeInv, TypeInv', ReaderPhases, RegistryInv, NamesInv, NEW c \in Conns, Reader(c)
  PROVE  NamesInv'
<1> USE DEF TypeInv, TypeOK, ThreadType
<1>1. /\ KeepsOthers(c) /\ (~EraseSelf(c) => UNCHANGED <<vec, stray>>)
      /\ \A d \in Conns : peer[d] = "open" => peer'[d] = "open"
  BY ReaderKeepsOthers, ReaderKeepsOpen
<1>2. LoginInv(c)
  BY DEF NamesInv
<1>3. pc[c] # "none" => Registered(c)
  BY DEF ReaderPhases
<1>4. CASE Poll(c) \/ RecvPacket(c) \/ RecvEnd(c) \/ ClearBit(c)
  <2>1. /\ pc[c] \in {"poll", "recv", "clr"} /\ UNCHANGED <<name, loggedIn, unsure>>
        /\ pc'[c] \in {"recv", "login", "logout", "chat", "poll", "quit", "clr", "nap"}
        /\ ~EraseSelf(c)
    BY <1>4 DEF Poll, RecvPacket, RecvEnd, ClearBit, EraseSelf, At, Goto, First, loopVars, connVars
  <2> QED
    BY <1>1, <1>3, <2>1, CalmStep
<1>5. CASE CloseSocket(c) \/ FindSelf(c) \/ Greet(c)
  <2>1. /\ pc[c] \in {"nap", "wake", "find", "greet"} /\ UNCHANGED <<name, loggedIn, unsure>>
        /\ pc'[c] \in {"find", "erase", "bcast"}
        /\ ~EraseSelf(c)
    BY <1>5 DEF CloseSocket, FindSelf, Greet, EraseSelf, At, Goto, loopVars, connVars
  <2> QED
    BY <1>1, <1>3, <2>1, CalmStep
<1>6. CASE EraseSelf(c)
  BY <1>1, <1>6, EraseNamesInv
<1>7. CASE LoginCheck(c)
  <2>1. pc[c] = "login" /\ ~EraseSelf(c)
    BY <1>7 DEF LoginCheck, EraseSelf, At
  <2> QED
    BY <1>1, <1>3, <1>7, <2>1, LoginNamesInv DEF Removed
<1>8. CASE ScanUser(c)
  <2>1. pc[c] = "scan" /\ ~EraseSelf(c)
    BY <1>8 DEF ScanUser, EraseSelf, At
  <2> QED
    BY <1>1, <1>3, <1>8, <2>1, ScanNamesInv
<1>9. CASE SetName(c)
  <2>1. ~EraseSelf(c)
    BY <1>9 DEF SetName, EraseSelf, At
  <2> QED
    BY <1>1, <1>9, <2>1, WriteNamesInv
<1>10. CASE SetFlag(c)
  <2>1. /\ pc[c] = "flag" /\ pc'[c] = "greet" /\ loggedIn'[c] = TRUE
        /\ UNCHANGED <<name, unsure>> /\ ~EraseSelf(c)
    BY <1>10 DEF SetFlag, EraseSelf, At, Goto, loopVars, ConnType
  <2>2. LoginInv(c)' /\ ~InLogin(c)'
    BY <1>1, <1>2, <2>1 DEF LoginInv, Phase, ScanKnows, NameFree, Named, InLogin
  <2> QED
    BY <1>1, <2>1, <2>2, PlainStep
<1>11. CASE LogoutCheck(c)
  <2>1. pc[c] = "logout" /\ UNCHANGED <<name, unsure>> /\ ~EraseSelf(c)
    BY <1>11 DEF LogoutCheck, EraseSelf, At
  <2>2. CASE loggedIn[c]
    <3>1. pc'[c] = "unname" /\ loggedIn'[c] = FALSE
      BY <1>11, <2>2 DEF LogoutCheck, At, Goto, ConnType
    <3>2. LoginInv(c)' /\ ~InLogin(c)'
      BY <1>1, <1>2, <2>1, <3>1 DEF LoginInv, Phase, ScanKnows, NameFree, Named, InLogin
    <3> QED
      BY <1>1, <2>1, <3>2, PlainStep
  <2>3. CASE ~loggedIn[c]
    <3>1. pc'[c] = "reply" /\ UNCHANGED loggedIn
      BY <1>11, <2>3 DEF LogoutCheck, At, Goto
    <3> QED
      BY <1>1, <1>3, <2>1, <3>1, CalmStep
  <2> QED
    BY <2>2, <2>3
<1>12. CASE ClearName(c)
  <2>1. /\ pc[c] = "unname" /\ pc'[c] = "greet" /\ name'[c] = NoName
        /\ UNCHANGED <<loggedIn, unsure>> /\ ~EraseSelf(c)
    BY <1>12 DEF ClearName, EraseSelf, At, Goto, loopVars, ConnType
  <2>2. LoginInv(c)' /\ ~InLogin(c)'
    BY <1>1, <1>2, <2>1 DEF LoginInv, Phase, ScanKnows, NameFree, Named, InLogin
  <2> QED
    BY <1>1, <2>1, <2>2, PlainStep
<1>13. CASE ChatCheck(c)
  <2>1. /\ pc[c] = "chat" /\ pc'[c] \in {"reply", "scan", "bcast"}
        /\ pc'[c] = "scan" => cmd'[c].op = "chatTo"
        /\ UNCHANGED <<name, loggedIn, unsure>> /\ ~EraseSelf(c)
    BY <1>13 DEF ChatCheck, EraseSelf, At, Goto, connVars
  <2>2. LoginInv(c)' /\ ~InLogin(c)'
    BY <1>1, <1>2, <2>1 DEF LoginInv, Phase, ScanKnows, NameFree, Named, InLogin
  <2> QED
    BY <1>1, <2>1, <2>2, PlainStep
<1>14. CASE DmCheck(c) \/ DmSend(c)
  <2>1. /\ pc[c] \in {"dm", "dmsend"} /\ pc'[c] \in {"reply", "dmsend"}
        /\ UNCHANGED <<name, loggedIn, unsure, tgt>> /\ ~EraseSelf(c)
    BY <1>14 DEF DmCheck, DmSend, EraseSelf, At, Goto, connVars, loopVars
  <2>2. tgt'[c] \in Conns /\ Registered(tgt'[c])
    BY <1>2, <2>1 DEF LoginInv, Phase
  <2> QED
    BY <1>1, <1>3, <2>1, <2>2, CalmStep
<1>15. CASE BroadcastStep(c) \/ BroadcastEnd(c) \/ Reply(c)
  <2>1. /\ pc[c] \in {"bcast", "reply"} /\ pc'[c] \in {"bcast", "done", "reply", "poll"}
        /\ UNCHANGED <<name, loggedIn, unsure>> /\ ~EraseSelf(c)
    BY <1>15 DEF BroadcastStep, BroadcastEnd, Reply, EraseSelf, At, Goto, connVars, loopVars
  <2> QED
    BY <1>1, <1>3, <2>1, CalmStep
<1> QED
  BY <1>4, <1>5, <1>6, <1>7, <1>8, <1>9, <1>10, <1>11, <1>12, <1>13, <1>14, <1>15 DEF Reader

\* A step outside the readers.
LEMMA AsideNamesInv ==
  ASSUME NamesInv,
         UNCHANGED <<nextId, vec, stray, cmd, idx, tgt, name, loggedIn, shifted, unsure>>,
         \A d \in Conns : /\ pc'[d] = pc[d] \/ (pc[d] = "nap" /\ pc'[d] = "wake")
                          /\ peer'[d] = peer[d] \/ pc[d] # "none"
  PROVE  NamesInv'
<1>1. \A d \in Conns : InLogin(d)' <=> InLogin(d)
  BY DEF InLogin
<1>2. Rivals' /\ NamesUnique'
  BY <1>1 DEF NamesInv, Rivals, NamesUnique, Listed
<1>3. ASSUME NEW d \in Conns PROVE LoginInv(d)'
  <2>1. LoginInv(d)
    BY DEF NamesInv
  <2>2. Phase(d)' /\ Named(d)'
    BY <1>1, <2>1 DEF LoginInv, Phase, Named, Registered
  <2>3. ScanKnows(d)' /\ NameFree(d)'
    BY <2>1 DEF LoginInv, ScanKnows, NameFree, Ahead, Listed
  <2> QED
    BY <2>2, <2>3 DEF LoginInv
<1> QED
  BY <1>2, <1>3 DEF NamesInv

\* The new entry has no name yet, and the searches under way will meet it.
LEMMA RegisterNamesInv ==
  ASSUME TypeInv, ReaderPhases, RegistryInv, NamesInv, Register
  PROVE  NamesInv'
<1>1. nextId \in Conns /\ ~Registered(nextId)
  BY ConstantAssumption DEF Register, MainAt, Made, AcceptsOnlyQueued, MainType, KernelType,
                            Conns, Registered, TypeInv, TypeOK
<1>2. /\ vec' = Append(vec, nextId) /\ nextId' = nextId + 1
      /\ UNCHANGED <<stray, cmd, idx, tgt, name, loggedIn, peer, shifted, unsure>>
      /\ pc'[nextId] = "poll" /\ \A d \in Conns \ {nextId} : pc'[d] = pc[d]
  BY <1>1 DEF Register, Goto, loopVars, peerVars, TypeInv, TypeOK, ThreadType
<1>3. pc[nextId] = "none" /\ name[nextId] = NoName /\ ~loggedIn[nextId]
  BY <1>1 DEF ReaderPhases, NamesInv, LoginInv, Phase
<1>4. /\ vec \in Seq(Conns) /\ Len(vec) \in Nat /\ Len(vec') = Len(vec) + 1
      /\ \A i \in 1 .. Len(vec) : vec'[i] = vec[i] /\ vec[i] \in Conns
      /\ vec'[Len(vec) + 1] = nextId
      /\ \A d \in Conns : idx[d] \in Nat \ {0}
  BY <1>1, <1>2, VecTypes, AppendProperties
<1>5. /\ \A i \in 1 .. Len(vec') : vec'[i] = nextId \/ (i \in 1 .. Len(vec) /\ vec'[i] = vec[i])
      /\ \A x \in Listed' : x \in Listed \/ x = nextId
      /\ \A d \in Conns : \A x \in Ahead(d) : x \in Ahead(d)'
  <2>1. \A i \in 1 .. Len(vec') : vec'[i] = nextId \/ (i \in 1 .. Len(vec) /\ vec'[i] = vec[i])
    BY <1>4
  <2>2. \A x \in Listed' : x \in Listed \/ x = nextId
    BY <2>1 DEF Listed
  <2>3. \A d \in Conns : \A x \in Ahead(d) : x \in Ahead(d)'
    BY <1>2, <1>4 DEF Ahead
  <2> QED
    BY <2>1, <2>2, <2>3
<1>6. \A d \in Conns : Registered(d) => Registered(d)'
  BY <1>2 DEF Registered, Conns, MainType, TypeInv, TypeOK
<1>7. \A d \in Conns : InLogin(d)' <=> InLogin(d)
  BY <1>2, <1>3 DEF InLogin
<1>8. Rivals' /\ NamesUnique'
  BY <1>2, <1>3, <1>5, <1>7 DEF NamesInv, Rivals, NamesUnique
<1>9. ASSUME NEW d \in Conns PROVE LoginInv(d)'
  <2>1. LoginInv(d)
    BY DEF NamesInv
  <2>2. Phase(d)'
    BY <1>2, <1>3, <1>6, <1>7, <2>1 DEF LoginInv, Phase
  <2>3. NameFree(d)' /\ Named(d)'
    BY <1>2, <1>3, <1>5, <2>1 DEF LoginInv, NameFree, Named
  <2>4. ScanKnows(d)'
    BY <1>2, <1>3, <1>5, <2>1 DEF LoginInv, ScanKnows
  <2> QED
    BY <2>2, <2>3, <2>4 DEF LoginInv
<1> QED
  BY <1>8, <1>9 DEF NamesInv

LEMMA NextNamesInv ==
  TypeInv /\ TypeInv' /\ ReaderPhases /\ RegistryInv /\ NamesInv /\ [Next]_vars => NamesInv'
<1> SUFFICES ASSUME TypeInv, TypeInv', ReaderPhases, RegistryInv, NamesInv, [Next]_vars
             PROVE  NamesInv'
  OBVIOUS
<1> USE DEF mainVars, connVars, threadVars, loopVars, peerVars
<1>1. ASSUME NEW c \in Conns, Reader(c) PROVE NamesInv'
  BY <1>1, ReaderNamesInv
<1>2. CASE Main
  <2>1. CASE Register
    BY <2>1, RegisterNamesInv
  <2>2. CASE CopyMaster
    BY <2>2, AsideNamesInv DEF CopyMaster
  <2>3. CASE Select \/ Accept \/ SetBit \/ MarkExiting \/ ExitProcess
    BY <2>3, AsideNamesInv DEF Select, Accept, SetBit, MarkExiting, ExitProcess
  <2> QED
    BY <1>2, <2>1, <2>2, <2>3 DEF Main
<1>3. CASE Connect \/ SigInt \/ Stopped \/ UNCHANGED vars
  BY <1>3, AsideNamesInv DEF Connect, SigInt, Stopped, vars
<1>4. ASSUME NEW c \in Conns, Client(c) PROVE NamesInv'
  BY <1>4, AsideNamesInv DEF Client, SendCommand, StopReading, ResumeReading, HangUp,
                             TypeInv, TypeOK, PeerType
<1> QED
  BY <1>1, <1>2, <1>3, <1>4 DEF Next

-----------------------------------------------------------------------------
(* Who has a descriptor, and who had its number before.                    *)

\* A descriptor belongs to the connection that it was accepted for, until the
\* reader of that connection closes it.
FdOwners ==
  srv # "down" => \A f \in Fds : fdTable[f] # NoConn =>
    LET x == fdTable[f] IN
    IF Registered(x) THEN HasSocket(x) /\ sock[x] = f
    ELSE x = nextId /\ (srv = "up" => mainPc \in {"set", "register"} /\ newFd = f)

\* Numbers are given again, so only to later connections.
SockOrder ==
  \A d, e \in Conns : Registered(d) /\ HasSocket(e) /\ sock[d] = sock[e] => d <= e

OwnersInv == FdOwners /\ SockOrder /\ FallsByLeaversOnly

LEMMA ClosedHasNoSocket ==
  ASSUME NEW c
  PROVE  HasSocket(c) <=> Registered(c) /\ ~Closed(c)
  BY DEF HasSocket, Closed, Removed

LEMMA InitOwnersInv == Init => OwnersInv
  BY ConstantAssumption
     DEF Init, OwnersInv, FdOwners, SockOrder, FallsByLeaversOnly, Registered, Conns

\* A step that opens and closes nothing.
LEMMA SameOwners ==
  ASSUME OwnersInv, srv # "down", UNCHANGED <<nextId, fdTable, sock>>,
         srv' = "up" => srv = "up" /\ UNCHANGED newFd
                        /\ (mainPc \in {"set", "register"} => mainPc' \in {"set", "register"}),
         \A d \in Conns : HasSocket(d)' <=> HasSocket(d),
         TypeInv, FallsByLeaversOnly'
  PROVE  OwnersInv'
<1>1. \A f \in Fds : fdTable[f] # NoConn => fdTable[f] \in Conns
  BY DEF TypeInv, TypeOK, KernelType
<1>2. FdOwners'
  BY <1>1 DEF OwnersInv, FdOwners, Registered
<1>3. SockOrder'
  BY DEF OwnersInv, SockOrder, Registered
<1> QED
  BY <1>2, <1>3 DEF OwnersInv

\* A send ends the process only where a client has left: whoever the number
\* belongs to now has not closed it.
LEMMA SendFalls ==
  ASSUME TypeInv, ReaderPhases, NamesInv, FdOwners, srv # "down", NEW fd, Send(fd),
         srv' = "down"
  PROVE  \E d \in Conns : peer'[d] = "broken" /\ HasSocket(d)
<1> DEFINE d == Reached(fd)
<1>1. d # NoConn /\ peer[d] = "broken" /\ UNCHANGED peer
  BY DEF Send
<1>2. fd \in Fds /\ d = fdTable[fd] /\ d \in Conns
  BY <1>1 DEF Reached, TypeInv, TypeOK, KernelType
<1>3. pc[d] # "none"
  BY <1>1, <1>2 DEF NamesInv, LoginInv, Phase
<1>4. HasSocket(d)
  BY <1>1, <1>2, <1>3 DEF FdOwners, ReaderPhases
<1> QED
  BY <1>1, <1>2, <1>4

\* Only CloseSocket takes a socket from a reader.
LEMMA ReaderKeepsSockets ==
  ASSUME TypeInv, ReaderPhases, NEW c \in Conns, Reader(c), ~CloseSocket(c)
  PROVE  /\ \A d \in Conns : HasSocket(d)' <=> HasSocket(d)
         /\ UNCHANGED <<nextId, fdTable, sock, mainPc, newFd>>
<1> USE DEF TypeInv, TypeOK, ThreadType
<1>1. KeepsOthers(c)
  BY ReaderKeepsOthers
<1>2. \A d \in Conns \ {c} : HasSocket(d)' <=> HasSocket(d)
  BY <1>1 DEF KeepsOthers, HasSocket, Removed, Registered
<1> USE DEF mainVars, kernelVars, connVars, At, Goto
<1>3. CASE Poll(c) \/ RecvPacket(c) \/ RecvEnd(c) \/ ClearBit(c)
  <2>1. /\ pc[c] \in {"poll", "recv", "clr"} /\ UNCHANGED <<nextId, fdTable, sock, mainPc, newFd>>
        /\ pc'[c] \in {"recv", "login", "logout", "chat", "poll", "quit", "clr", "nap"}
    BY <1>3 DEF Poll, RecvPacket, RecvEnd, ClearBit, First
  <2> QED
    BY <1>2, <2>1 DEF HasSocket, Removed, Registered
<1>4. CASE FindSelf(c) \/ EraseSelf(c)
  <2>1. /\ pc[c] \in {"find", "erase"} /\ UNCHANGED <<nextId, fdTable, sock, mainPc, newFd, cmd>>
        /\ pc'[c] \in {"find", "erase", "bcast", "done"}
    BY <1>4 DEF FindSelf, EraseSelf
  <2>2. cmd'[c] = Gone
    BY <2>1 DEF ReaderPhases, Teardown
  <2> QED
    BY <1>2, <2>1, <2>2 DEF HasSocket, Removed
<1>5. CASE \/ LoginCheck(c) \/ ScanUser(c) \/ SetName(c) \/ SetFlag(c) \/ Greet(c)
           \/ LogoutCheck(c) \/ ClearName(c) \/ ChatCheck(c) \/ DmCheck(c) \/ DmSend(c)
  <2>1. /\ pc[c] \in {"login", "scan", "name", "flag", "greet", "logout", "unname",
                      "chat", "dm", "dmsend"}
        /\ UNCHANGED <<nextId, fdTable, sock, mainPc, newFd, cmd>>
        /\ pc'[c] \in {"scan", "name", "flag", "greet", "unname", "dm", "dmsend",
                       "bcast", "reply"}
    BY <1>5 DEF LoginCheck, ScanUser, SetName, SetFlag, Greet, LogoutCheck, ClearName,
                ChatCheck, DmCheck, DmSend
  <2>2. cmd'[c] # Gone
    BY <2>1 DEF ReaderPhases, Teardown
  <2> QED
    BY <1>2, <2>1, <2>2 DEF HasSocket, Removed, Registered
<1>6. CASE BroadcastStep(c)
  BY <1>2, <1>6 DEF BroadcastStep, HasSocket, Removed, Registered
<1>7. CASE BroadcastEnd(c)
  <2>1. /\ pc[c] = "bcast" /\ UNCHANGED <<nextId, fdTable, sock, mainPc, newFd>>
        /\ pc'[c] = IF cmd[c] = Gone THEN "done"
                    ELSE IF cmd[c].op = "chatAll" THEN "reply" ELSE "poll"
    BY <1>7 DEF BroadcastEnd
  <2> QED
    BY <1>2, <2>1 DEF HasSocket, Removed, Registered
<1>8. CASE Reply(c)
  BY <1>2, <1>8 DEF Reply, HasSocket, Removed, Registered
<1> QED
  BY <1>3, <1>4, <1>5, <1>6, <1>7, <1>8 DEF Reader

LEMMA ReaderOwnersInv ==
  ASSUME TypeInv, ReaderPhases, NamesInv, OwnersInv, NEW c \in Conns, Reader(c)
  PROVE  OwnersInv'
<1>1. srv # "down"
  BY DEF Reader, Poll, RecvPacket, RecvEnd, ClearBit, CloseSocket, FindSelf, EraseSelf,
         LoginCheck, ScanUser, SetName, SetFlag, Greet, LogoutCheck, ClearName, ChatCheck,
         DmCheck, DmSend, BroadcastStep, BroadcastEnd, Reply, At
<1>2. CASE CloseSocket(c)
  <2>1. /\ UNCHANGED <<srv, mainPc, newFd, nextId, sock>>
        /\ pc[c] \in {"wake", "nap"} /\ pc'[c] = "find"
        /\ \A f \in Fds : fdTable'[f] = IF f = sock[c] THEN NoConn ELSE fdTable[f]
    BY <1>2 DEF CloseSocket, At, Goto, mainVars, connVars, TypeInv, TypeOK, ThreadType, KernelType
  <2>2. \A d \in Conns \ {c} : HasSocket(d)' <=> HasSocket(d)
    BY ReaderKeepsOthers DEF KeepsOthers, HasSocket, Removed, Registered
  <2>3. ~HasSocket(c)'
    BY <2>1 DEF HasSocket
  <2>4. FdOwners'
    <3>1. ASSUME NEW f \in Fds, fdTable'[f] # NoConn
          PROVE  /\ fdTable'[f] = fdTable[f] /\ fdTable[f] \in Conns \ {c}
                 /\ IF Registered(fdTable[f]) THEN HasSocket(fdTable[f]) /\ sock[fdTable[f]] = f
                    ELSE /\ fdTable[f] = nextId
                         /\ srv = "up" => mainPc \in {"set", "register"} /\ newFd = f
      <4>1. fdTable'[f] = fdTable[f] /\ f # sock[c] /\ fdTable[f] \in Conns
        BY <2>1, <3>1 DEF TypeInv, TypeOK, KernelType
      <4>2. IF Registered(fdTable[f]) THEN HasSocket(fdTable[f]) /\ sock[fdTable[f]] = f
            ELSE /\ fdTable[f] = nextId
                 /\ srv = "up" => mainPc \in {"set", "register"} /\ newFd = f
        BY <1>1, <3>1, <4>1 DEF OwnersInv, FdOwners
      <4>3. Registered(c)
        BY <2>1 DEF ReaderPhases
      <4> QED
        BY <4>1, <4>2, <4>3
    <3>2. \A d \in Conns : Registered(d)' <=> Registered(d)
      BY <2>1 DEF Registered
    <3> QED
      BY <2>1, <2>2, <3>1, <3>2 DEF FdOwners
  <2>5. SockOrder'
    BY <2>1, <2>2, <2>3 DEF OwnersInv, SockOrder, Registered
  <2>6. FallsByLeaversOnly'
    BY <1>1, <2>1 DEF FallsByLeaversOnly
  <2> QED
    BY <2>4, <2>5, <2>6 DEF OwnersInv
<1>3. CASE ~CloseSocket(c)
  <2>1. /\ \A d \in Conns : HasSocket(d)' <=> HasSocket(d)
        /\ UNCHANGED <<nextId, fdTable, sock, mainPc, newFd>>
    BY <1>3, ReaderKeepsSockets
  <2>2. UNCHANGED srv \/ (stray' /\ srv' = "down") \/ \E fd : Send(fd)
    <3>1. CASE Poll(c) \/ RecvPacket(c) \/ RecvEnd(c) \/ ClearBit(c) \/ FindSelf(c)
      BY <3>1 DEF Poll, RecvPacket, RecvEnd, ClearBit, FindSelf, mainVars
    <3>2. CASE LoginCheck(c) \/ ScanUser(c) \/ SetName(c) \/ SetFlag(c) \/ LogoutCheck(c)
               \/ ClearName(c) \/ ChatCheck(c) \/ DmCheck(c) \/ BroadcastEnd(c)
      BY <3>2 DEF LoginCheck, ScanUser, SetName, SetFlag, LogoutCheck, ClearName, ChatCheck,
                  DmCheck, BroadcastEnd, mainVars
    <3>3. CASE Greet(c) \/ DmSend(c) \/ BroadcastStep(c) \/ Reply(c)
      BY <3>3 DEF Greet, DmSend, BroadcastStep, Reply
    <3>4. CASE EraseSelf(c)
      BY <3>4 DEF EraseSelf
    <3> QED
      BY <1>3, <3>1, <3>2, <3>3, <3>4 DEF Reader
  <2>3. FallsByLeaversOnly'
    <3> SUFFICES ASSUME srv' = "down", ~stray'
                 PROVE  \E d \in Conns : peer'[d] = "broken" /\ (Registered(d) /\ ~Closed(d))'
      BY DEF FallsByLeaversOnly
    <3>1. PICK fd : Send(fd)
      BY <1>1, <2>2
    <3>4. PICK d \in Conns : peer'[d] = "broken" /\ HasSocket(d)
      BY <1>1, <3>1, SendFalls DEF OwnersInv
    <3>2. HasSocket(d)'
      BY <2>1, <3>4
    <3>3. HasSocket(d)' <=> (Registered(d) /\ ~Closed(d))'
      BY DEF HasSocket, Closed, Removed
    <3> QED
      BY <3>2, <3>3, <3>4
  <2>4. UNCHANGED srv \/ srv' = "down"
    BY <2>2 DEF Send
  <2> QED
    BY <1>1, <2>1, <2>3, <2>4, SameOwners
<1> QED
  BY <1>2, <1>3

LEMMA AcceptOwnersInv ==
  ASSUME TypeInv, OwnersInv, Accept
  PROVE  OwnersInv'
<1>1. /\ srv = "up" /\ mainPc = "accept" /\ UNCHANGED <<srv, nextId, sock, pc, cmd>>
  BY DEF Accept, MainAt, connVars, threadVars
<1>2. \A d \in Conns : (HasSocket(d)' <=> HasSocket(d)) /\ (Registered(d)' <=> Registered(d))
  BY <1>1 DEF HasSocket, Removed, Registered
<1>3. FallsByLeaversOnly' /\ SockOrder'
  BY <1>1, <1>2 DEF OwnersInv, SockOrder, FallsByLeaversOnly
<1>4. FdOwners'
  <2>1. ASSUME NEW g \in Fds, fdTable'[g] # NoConn
        PROVE  \/ fdTable'[g] = fdTable[g]
               \/ fdTable'[g] = nextId /\ newFd' = g /\ mainPc' = "set"
    BY <2>1 DEF Accept, TypeInv, TypeOK, KernelType
  <2>2. ASSUME NEW g \in Fds, fdTable[g] # NoConn
        PROVE  fdTable[g] \in Conns /\ Registered(fdTable[g]) /\ HasSocket(fdTable[g])
               /\ sock[fdTable[g]] = g
    <3>1. fdTable[g] \in Conns
      BY <2>2 DEF TypeInv, TypeOK, KernelType
    <3> QED
      BY <1>1, <2>2, <3>1 DEF OwnersInv, FdOwners
  <2>3. ~Registered(nextId)
    BY DEF Registered, TypeInv, TypeOK, MainType
  <2>4. ASSUME NEW g \in Fds, fdTable'[g] # NoConn, fdTable'[g] = fdTable[g]
        PROVE  (Registered(fdTable[g]) /\ HasSocket(fdTable[g]) /\ sock[fdTable[g]] = g)'
    <3>1. PICK x \in Conns : x = fdTable[g] /\ x = fdTable'[g]
      BY <2>2, <2>4
    <3>2. Registered(x) /\ HasSocket(x) /\ sock[x] = g
      BY <2>2, <2>4, <3>1
    <3>3. (Registered(x) /\ HasSocket(x) /\ sock[x] = g)'
      BY <1>1, <1>2, <3>2
    <3> QED
      BY <3>1, <3>3 DEF Registered, HasSocket, Removed
  <2>5. ASSUME NEW g \in Fds, fdTable'[g] # NoConn, fdTable'[g] # fdTable[g]
        PROVE  /\ fdTable'[g] = nextId' /\ newFd' = g /\ mainPc' = "set"
               /\ ~Registered(fdTable[g])'
    BY <1>1, <2>1, <2>3, <2>5 DEF Registered
  <2> QED
    BY <1>1, <2>4, <2>5 DEF FdOwners
<1> QED
  BY <1>3, <1>4 DEF OwnersInv

LEMMA RegisterOwnersInv ==
  ASSUME TypeInv, ReaderPhases, DescriptorsOwned, OwnersInv, Register
  PROVE  OwnersInv'
<1>1. nextId \in Conns /\ ~Registered(nextId) /\ newFd \in Fds
  BY ConstantAssumption DEF Register, MainAt, Made, AcceptsOnlyQueued, MainType, KernelType,
                            Conns, Registered, TypeInv, TypeOK
<1> PICK n \in Conns : n = nextId
  BY <1>1
<1>2. /\ srv = "up" /\ mainPc = "register" /\ nextId' = n + 1
      /\ UNCHANGED <<srv, fdTable, cmd>>
      /\ sock'[n] = newFd /\ pc'[n] = "poll" /\ cmd'[n] = cmd[n]
      /\ \A d \in Conns \ {n} : pc'[d] = pc[d] /\ sock'[d] = sock[d]
  BY <1>1 DEF Register, MainAt, Goto, kernelVars, TypeInv, TypeOK, ThreadType, ConnType
<1>3. \A d \in Conns : Registered(d)' <=> Registered(d) \/ d = n
  BY <1>2 DEF Registered, Conns, MainType, TypeInv, TypeOK
<1>4. \A d \in Conns \ {n} : HasSocket(d)' <=> HasSocket(d)
  BY <1>2, <1>3 DEF HasSocket, Removed
<1>5. HasSocket(n)'
  BY <1>1, <1>2, <1>3 DEF HasSocket, Removed
<1>6. FdOwners'
  <2>1. ASSUME NEW f \in Fds, NEW x \in Conns, fdTable[f] = x
        PROVE  Registered(x)' /\ HasSocket(x)' /\ sock'[x] = f
    <3>1. IF Registered(x) THEN HasSocket(x) /\ sock[x] = f ELSE x = n /\ newFd = f
      BY <1>2, <2>1, ConstantAssumption DEF OwnersInv, FdOwners
    <3>2. CASE x = n
      BY <1>1, <1>2, <1>3, <1>5, <3>1, <3>2
    <3>3. CASE x # n
      BY <1>2, <1>3, <1>4, <3>1, <3>3
    <3> QED
      BY <3>2, <3>3
  <2>2. \A f \in Fds : fdTable[f] # NoConn => fdTable[f] \in Conns
    BY DEF TypeInv, TypeOK, KernelType
  <2> QED
    BY <1>2, <2>1, <2>2 DEF FdOwners
<1>7. SockOrder'
  <2> SUFFICES ASSUME NEW d \in Conns, NEW e \in Conns, Registered(d)', HasSocket(e)',
                      sock'[d] = sock'[e]
               PROVE  d <= e
    BY DEF SockOrder
  <2>1. CASE d # n /\ e # n
    BY <1>2, <1>3, <1>4, <2>1 DEF OwnersInv, SockOrder
  <2>2. CASE e = n
    BY <1>3, <2>2 DEF Registered, Conns
  <2>3. CASE d = n /\ e # n
    <3>1. HasSocket(e) /\ sock[e] = newFd
      BY <1>2, <1>4, <2>3
    <3>2. fdTable[sock[e]] = e /\ fdTable[newFd] = n
      BY <1>2, <3>1 DEF DescriptorsOwned
    <3> QED
      BY <2>3, <3>1, <3>2
  <2> QED
    BY <2>1, <2>2, <2>3
<1> QED
  BY <1>2, <1>6, <1>7 DEF OwnersInv, FallsByLeaversOnly

LEMMA NextOwnersInv ==
  TypeInv /\ ReaderPhases /\ DescriptorsOwned /\ NamesInv /\ OwnersInv /\ [Next]_vars => OwnersInv'
<1> SUFFICES ASSUME TypeInv, ReaderPhases, DescriptorsOwned, NamesInv, OwnersInv, [Next]_vars
             PROVE  OwnersInv'
  OBVIOUS
<1>1. ASSUME NEW c \in Conns, Reader(c) PROVE OwnersInv'
  BY <1>1, ReaderOwnersInv
<1> USE DEF mainVars, kernelVars, connVars, threadVars
<1>2. CASE UNCHANGED vars \/ Stopped
  BY <1>2 DEF vars, Stopped, peerVars, OwnersInv, FdOwners, SockOrder, FallsByLeaversOnly,
              Registered, HasSocket, Removed, Closed
<1>3. CASE Connect \/ \E c \in Conns : Client(c)
  <2>1. srv # "down" /\ UNCHANGED <<srv, mainPc, newFd, nextId, fdTable, sock, pc, cmd>>
    BY <1>3 DEF Connect, Client, SendCommand, StopReading, ResumeReading, HangUp
  <2>2. \A d \in Conns : HasSocket(d)' <=> HasSocket(d)
    BY <2>1 DEF HasSocket, Removed, Registered
  <2> QED
    BY <2>1, <2>2, SameOwners DEF FallsByLeaversOnly
<1>4. CASE Main \/ SigInt
  <2>1. CASE Accept
    BY <2>1, AcceptOwnersInv
  <2>2. CASE Register
    BY <2>2, RegisterOwnersInv
  <2>3. CASE CopyMaster \/ Select \/ SetBit \/ MarkExiting \/ SigInt
    <3>1. /\ srv # "down" /\ srv' # "down" /\ UNCHANGED <<newFd, nextId, fdTable, sock, cmd>>
          /\ srv' = "up" => srv = "up" /\ (mainPc = "set" => mainPc' = "register")
                            /\ mainPc # "register"
          /\ \A d \in Conns : pc'[d] = pc[d] \/ (pc[d] = "nap" /\ pc'[d] = "wake")
      BY <2>3 DEF CopyMaster, Select, SetBit, MarkExiting, SigInt, MainAt
    <3>2. \A d \in Conns : HasSocket(d)' <=> HasSocket(d)
      BY <3>1 DEF HasSocket, Removed, Registered
    <3> QED
      BY <3>1, <3>2, SameOwners DEF FallsByLeaversOnly
  <2>4. CASE ExitProcess
    <3>1. srv' = "down" /\ mainPc' = "linger" /\ UNCHANGED <<nextId, sock, pc, cmd>>
      BY <2>4 DEF ExitProcess
    <3> QED
      BY <3>1 DEF OwnersInv, FdOwners, SockOrder, FallsByLeaversOnly, HasSocket, Removed, Registered
  <2> QED
    BY <1>4, <2>1, <2>2, <2>3, <2>4 DEF Main
<1> QED
  BY <1>1, <1>2, <1>3, <1>4 DEF Next

-----------------------------------------------------------------------------
(* The theorems.                                                           *)

SessionInv == ServerInv /\ NamesInv /\ OwnersInv

LEMMA SessionInvHolds == Spec => []SessionInv
<1>1. Init => SessionInv
  BY InitTypeInv, InitFdInv, InitRegistryInv, InitNamesInv, InitOwnersInv
     DEF SessionInv, ServerInv
<1>2. SessionInv /\ [Next]_vars => SessionInv'
  BY NextTypeInv, NextFdInv, NextRegistryInv, NextNamesInv, NextOwnersInv
     DEF SessionInv, ServerInv, FdInv
<1> QED
  BY <1>1, <1>2, PTL DEF Spec

\* Two users who are logged in under one name have raced: one of the two was
\* marked when another login, or an erase, overlapped his own.  Logins that
\* overlap nothing (server.cpp:258-267) keep names unique for every number of
\* users.
THEOREM UniqueTheorem == Spec => []UniqueUnlessRaced
<1>1. SessionInv => UniqueUnlessRaced
  <2> SUFFICES ASSUME SessionInv, ~stray, NEW c \in Listed, NEW d \in Listed, c # d,
                      loggedIn[c], loggedIn[d], name[c] = name[d]
               PROVE  c \in unsure \/ d \in unsure
    BY DEF UniqueUnlessRaced
  <2>1. c \in Conns
    BY VecTypes DEF Listed, SessionInv, ServerInv
  <2>2. CASE name[c] = NoName
    BY <2>1, <2>2 DEF SessionInv, NamesInv, LoginInv, Named
  <2>3. CASE name[c] # NoName
    BY <2>3 DEF SessionInv, NamesInv, NamesUnique
  <2> QED
    BY <2>2, <2>3
<1> QED
  BY <1>1, SessionInvHolds, PTL

\* Who is logged in has a name: a login with the empty name is refused because
\* the search (server.cpp:402) finds the user's own entry.
THEOREM NamedTheorem == Spec => []LoggedInIsNamed
<1>1. SessionInv => LoggedInIsNamed
  BY DEF SessionInv, NamesInv, LoginInv, Named, LoggedInIsNamed
<1> QED
  BY <1>1, SessionInvHolds, PTL

\* A message goes to the client it is meant for until his reader has closed the
\* socket, and after that to nobody or to a client who came later
\* (server.cpp:324, 373).
THEOREM MessagesTheorem == Spec => []MessagesGoToTheirClient
<1>1. SessionInv => MessagesGoToTheirClient
  <2> SUFFICES ASSUME SessionInv, srv = "up", NEW c \in Conns, NEW d \in Addressee(c)
               PROVE  IF Closed(d)
                      THEN \/ Reached(sock[d]) = NoConn
                           \/ Reached(sock[d]) > d /\ ~Closed(Reached(sock[d]))
                      ELSE Reached(sock[d]) = d
    BY DEF MessagesGoToTheirClient
  <2>1. TypeInv /\ RegistryInv /\ NamesInv /\ OwnersInv /\ ReaderPhases /\ DescriptorsOwned
    BY DEF SessionInv, ServerInv, FdInv
  <2>2. /\ vec \in Seq(Conns) /\ Len(vec) \in Nat
        /\ \A i \in 1 .. Len(vec) : vec[i] \in Conns
        /\ idx[c] \in Nat \ {0}
    BY <2>1, VecTypes
  <2>3. d \in Conns /\ Registered(d)
    <3>1. CASE pc[c] = "dmsend"
      BY <2>1, <3>1 DEF Addressee, NamesInv, LoginInv, Phase
    <3>2. CASE pc[c] # "dmsend"
      <4>1. idx[c] <= Len(vec) /\ d = vec[idx[c]]
        BY <3>2 DEF Addressee
      <4>2. d \in Conns /\ d \in Listed
        BY <2>2, <4>1 DEF Listed
      <4> QED
        BY <2>1, <4>2 DEF RegistryInv
    <3> QED
      BY <3>1, <3>2
  <2>4. CASE ~Closed(d)
    <3>1. HasSocket(d)
      BY <2>3, <2>4, ClosedHasNoSocket
    <3>2. sock[d] \in Fds /\ fdTable[sock[d]] = d
      BY <2>1, <2>3, <3>1 DEF DescriptorsOwned
    <3> QED
      BY <2>4, <3>2 DEF Reached
  <2>5. CASE Closed(d) /\ Reached(sock[d]) # NoConn
    <3>1. PICK x : x = Reached(sock[d])
      OBVIOUS
    <3>2. x \in Conns /\ sock[d] \in Fds /\ fdTable[sock[d]] = x
      BY <2>1, <2>5, <3>1 DEF Reached, TypeInv, TypeOK, KernelType
    <3>3. ~HasSocket(d)
      BY <2>5, ClosedHasNoSocket
    <3>4. nextId \in Nat
      BY <2>1 DEF TypeInv, TypeOK, MainType
    <3>5. CASE Registered(x)
      <4>1. HasSocket(x) /\ sock[x] = sock[d]
        BY <2>1, <2>5, <3>1, <3>2, <3>5 DEF OwnersInv, FdOwners
      <4>2. d <= x /\ d # x /\ ~Closed(x)
        BY <2>1, <2>3, <3>2, <3>3, <4>1, ClosedHasNoSocket DEF OwnersInv, SockOrder
      <4> QED
        BY <2>3, <2>5, <3>1, <3>2, <4>2 DEF Conns
    <3>6. CASE ~Registered(x)
      <4>1. pc[x] = "none"
        BY <2>1, <3>2, <3>6 DEF ReaderPhases
      <4>2. ~Closed(x)
        BY <4>1 DEF Closed
      <4>3. x > d
        BY <2>3, <3>2, <3>4, <3>6 DEF Registered, Conns
      <4> QED
        BY <2>5, <3>1, <4>2, <4>3
    <3> QED
      BY <3>5, <3>6
  <2> QED
    BY <2>4, <2>5
<1> QED
  BY <1>1, SessionInvHolds, PTL

\* The process ends by exit_server, by an erase past the end, or by SIGPIPE
\* from a send (common.cpp:27) to a client that has left and whose reader has
\* not closed the socket yet.
THEOREM FallsTheorem == Spec => []FallsByLeaversOnly
<1>1. SessionInv => FallsByLeaversOnly
  BY DEF SessionInv, OwnersInv
<1> QED
  BY <1>1, SessionInvHolds, PTL

-----------------------------------------------------------------------------
(* Every step is one whole step of one session.                            *)

LEMMA InitSession == Init => Session!SessionInit
<1> SUFFICES ASSUME Init PROVE Session!SessionInit
  OBVIOUS
<1>1. Listed = {}
  <2>1. vec = <<>> /\ Len(vec) = 0
    BY DEF Init
  <2> QED
    BY <2>1 DEF Listed
<1>2. \A c \in Conns : ~Registered(c)
  BY ConstantAssumption DEF Init, Registered, Conns
<1> QED
  BY <1>1, <1>2 DEF Session!SessionInit

\* The steps that change nothing that the mapping depends on.
LEMMA QuietReader ==
  ASSUME TypeInv, NEW c \in Conns, Reader(c),
         ~(EraseSelf(c) \/ SetName(c) \/ SetFlag(c) \/ LogoutCheck(c) \/ ClearName(c))
  PROVE  UNCHANGED sessionState
<1> USE DEF sessionState, mainVars, connVars
<1>1. CASE Poll(c) \/ RecvPacket(c) \/ RecvEnd(c) \/ ClearBit(c)
  BY <1>1 DEF Poll, RecvPacket, RecvEnd, ClearBit
<1>2. CASE CloseSocket(c) \/ FindSelf(c)
  BY <1>2 DEF CloseSocket, FindSelf
<1>3. CASE LoginCheck(c) \/ ScanUser(c) \/ Greet(c) \/ ChatCheck(c)
  BY <1>3 DEF LoginCheck, ScanUser, Greet, ChatCheck
<1>4. CASE DmCheck(c) \/ DmSend(c) \/ BroadcastStep(c) \/ BroadcastEnd(c) \/ Reply(c)
  BY <1>4 DEF DmCheck, DmSend, BroadcastStep, BroadcastEnd, Reply
<1> QED
  BY <1>1, <1>2, <1>3, <1>4 DEF Reader

\* The steps that touch name, flag or vector, one by one.
LEMMA ReaderSession ==
  ASSUME SessionInv, SessionInv', NEW c \in Conns, Reader(c), unsure' = {}, ~stray'
  PROVE  [Session!SessionStep]_Session!sessionVars
<1> USE DEF Session!sessionVars
<1>1. /\ TypeInv /\ TypeInv' /\ RegistryInv /\ NamesInv /\ ReaderPhases
      /\ name \in [Conns -> Names \cup {NoName}] /\ loggedIn \in [Conns -> BOOLEAN]
      /\ pc \in [Conns -> ReaderPc] /\ vec \in Seq(Conns)
  BY DEF SessionInv, ServerInv, FdInv, TypeInv, TypeOK, ConnType, ThreadType, RegistryType
<1>2. LoginInv(c) /\ (pc[c] # "none" => Registered(c))
  BY <1>1 DEF NamesInv, ReaderPhases
<1>3. Listed \subseteq Conns
  BY <1>1, VecTypes DEF Listed
<1>4. /\ ~EraseSelf(c) => UNCHANGED <<vec, stray>>
      /\ UNCHANGED nextId
  BY <1>1, ReaderKeepsOthers DEF KeepsOthers
<1>5. ~EraseSelf(c) => Listed' = Listed /\ ~stray
  BY <1>4 DEF Listed
<1>6. CASE EraseSelf(c)
  <2>1. /\ UNCHANGED <<name, loggedIn>> /\ Listed' = Listed \ {c} /\ c \in Listed
    BY <1>1, <1>6, EraseListed DEF EraseSelf, connVars
  <2>2. {d \in Conns : Registered(d)}' \ Listed' = ({d \in Conns : Registered(d)} \ Listed) \cup {c}
    BY <1>1, <1>2, <1>3, <1>4, <2>1 DEF RegistryInv, Registered
  <2>3. Session!Depart(c)
    BY <1>3, <2>1, <2>2 DEF Session!Depart
  <2> QED
    BY <2>3 DEF Session!SessionStep
<1>7. CASE SetFlag(c)
  <2>1. /\ pc[c] = "flag" /\ UNCHANGED <<name, vec, stray, unsure>>
        /\ loggedIn' = [loggedIn EXCEPT ![c] = TRUE]
    BY <1>7 DEF SetFlag, At, loopVars
  <2>2. c \in Listed /\ ~loggedIn[c] /\ name[c] \in Names
    <3>1. ~loggedIn[c] /\ name[c] # NoName
      BY <1>2, <2>1 DEF LoginInv, Phase, Named
    <3>2. Registered(c) /\ ~Removed(c)
      BY <1>2, <2>1 DEF Removed
    <3> QED
      BY <1>1, <2>1, <3>1, <3>2 DEF RegistryInv
  <2>3. \A d \in Listed : loggedIn[d] => name[d] # name[c]
    BY <1>1, <2>1, <2>2, ConstantAssumption DEF NamesInv, NamesUnique
  <2> PICK n \in Names : n = name[c]
    BY <2>2
  <2>4. Listed' = Listed /\ \A d \in Conns : Registered(d)' <=> Registered(d)
    BY <1>4, <2>1 DEF Listed, Registered
  <2>5. Session!Login(c, n)
    <3>1. \A d \in Listed : (IF d \in Listed /\ loggedIn[d] THEN name[d] ELSE NoName) # n
      BY <2>3, ConstantAssumption
    <3>2. \A d \in Conns :
            (IF d \in Listed' /\ loggedIn'[d] THEN name'[d] ELSE NoName) =
              IF d = c THEN n ELSE IF d \in Listed /\ loggedIn[d] THEN name[d] ELSE NoName
      BY <1>1, <2>1, <2>2, <2>4
    <3> QED
      BY <1>3, <2>2, <2>4, <3>1, <3>2 DEF Session!Login
  <2> QED
    BY <2>5 DEF Session!SessionStep
<1>8. CASE LogoutCheck(c)
  <2>1. pc[c] = "logout" /\ UNCHANGED <<name, vec, stray, unsure>>
    BY <1>8 DEF LogoutCheck, At
  <2>2. CASE ~loggedIn[c]
    BY <1>4, <1>8, <2>1, <2>2 DEF LogoutCheck, Listed, Registered
  <2>3. CASE loggedIn[c]
    <3>1. loggedIn' = [loggedIn EXCEPT ![c] = FALSE]
      BY <1>8, <2>3 DEF LogoutCheck
    <3>2. c \in Listed /\ name[c] # NoName
      <4>1. Registered(c) /\ ~Removed(c)
        BY <1>2, <2>1 DEF Removed
      <4> QED
        BY <1>1, <1>2, <2>1, <2>3, <4>1 DEF RegistryInv, LoginInv, Named
    <3>3. Session!Logout(c)
      BY <1>1, <1>3, <1>4, <2>1, <2>3, <3>1, <3>2 DEF Session!Logout, Listed, Registered
    <3> QED
      BY <3>3 DEF Session!SessionStep
  <2> QED
    BY <2>2, <2>3
<1>9. CASE SetName(c) \/ ClearName(c)
  <2>1. /\ pc[c] \in {"name", "unname"} /\ UNCHANGED <<loggedIn, vec>>
        /\ \A d \in Conns \ {c} : name'[d] = name[d]
    BY <1>1, <1>9 DEF SetName, ClearName, At
  <2>2. ~loggedIn[c]
    BY <1>2, <2>1 DEF LoginInv, Phase, InLogin
  <2> QED
    BY <1>4, <2>1, <2>2 DEF Listed, Registered
<1>10. CASE UNCHANGED sessionState
  BY <1>10 DEF sessionState, Listed, Registered
<1> QED
  BY <1>1, <1>6, <1>7, <1>8, <1>9, <1>10, QuietReader

\* As long as no login races another login or an erase, and no erase strays,
\* a step of the server is one whole step of one session, or none: login and
\* logout (server.cpp:254-296) are never seen half done, and no thread
\* changes another's session.
THEOREM SessionTheorem == Spec => Session!SessionInit /\ KeepsSessions
<1>1. ASSUME SessionInv, SessionInv', [Next]_vars,
             ~UNCHANGED sessionState, unsure' = {}, ~stray'
      PROVE  [Session!SessionStep]_Session!sessionVars
  <2>1. ASSUME NEW c \in Conns, Reader(c)
        PROVE  [Session!SessionStep]_Session!sessionVars
    BY <1>1, <2>1, ReaderSession
  <2>2. CASE Register
    <3>1. TypeInv /\ RegistryInv /\ NamesInv /\ ReaderPhases
      BY <1>1 DEF SessionInv, ServerInv, FdInv
    <3>2. nextId \in Conns /\ ~Registered(nextId)
      BY <2>2, <3>1, ConstantAssumption
         DEF Register, MainAt, Made, AcceptsOnlyQueued, MainType, KernelType, Conns,
             Registered, TypeInv, TypeOK
    <3> PICK n \in Conns : n = nextId
      BY <3>2
    <3>3. /\ vec' = Append(vec, n) /\ nextId' = n + 1
          /\ UNCHANGED <<name, loggedIn, stray>>
      BY <2>2 DEF Register
    <3>4. ~loggedIn[n] /\ n \notin Listed
      BY <3>1, <3>2 DEF RegistryInv, ReaderPhases, NamesInv, LoginInv, Phase
    <3>5. Listed' = Listed \cup {n} /\ Listed \subseteq Conns
      <4>1. /\ vec \in Seq(Conns) /\ Len(vec) \in Nat
            /\ \A i \in 1 .. Len(vec) : vec[i] \in Conns
        BY <3>1, VecTypes
      <4>2. /\ Len(vec') = Len(vec) + 1 /\ vec'[Len(vec) + 1] = n
            /\ \A i \in 1 .. Len(vec) : vec'[i] = vec[i]
        BY <3>3, <4>1, AppendProperties
      <4>3. \A x \in Listed' : x \in Listed \cup {n}
        BY <4>1, <4>2 DEF Listed
      <4>4. \A x \in Listed \cup {n} : x \in Listed'
        BY <4>1, <4>2 DEF Listed
      <4> QED
        BY <4>1, <4>3, <4>4 DEF Listed
    <3>6. \A d \in Conns : Registered(d)' <=> Registered(d) \/ d = n
      BY <3>1, <3>3 DEF Registered, Conns, MainType, TypeInv, TypeOK
    <3>7. Session!Join(n)
      <4>1. n \notin Listed \cup ({d \in Conns : Registered(d)} \ Listed)
        BY <3>2, <3>4
      <4>2. {d \in Conns : Registered(d)}' \ Listed' = {d \in Conns : Registered(d)} \ Listed
        BY <3>2, <3>5, <3>6
      <4> QED
        BY <3>3, <3>4, <3>5, <4>1, <4>2 DEF Session!Join
    <3> QED
      BY <3>7 DEF Session!SessionStep
  <2>3. CASE UNCHANGED sessionState
    BY <1>1, <2>3
  <2>4. CASE CopyMaster \/ Select \/ Accept \/ SetBit \/ MarkExiting \/ ExitProcess
    BY <2>3, <2>4 DEF CopyMaster, Select, Accept, SetBit, MarkExiting, ExitProcess,
                      sessionState, connVars
  <2>5. CASE Connect \/ SigInt \/ Stopped \/ UNCHANGED vars \/ \E c \in Conns : Client(c)
    BY <2>3, <2>5 DEF Connect, SigInt, Stopped, Client, SendCommand, StopReading,
                      ResumeReading, HangUp, vars,
                      sessionState, connVars, mainVars
  <2> QED
    BY <1>1, <2>1, <2>2, <2>4, <2>5 DEF Next, Main
<1>2. SessionInv /\ SessionInv' /\ [Next]_vars =>
        [~UNCHANGED sessionState /\ unsure' = {} /\ ~stray' =>
             [Session!SessionStep]_Session!sessionVars]_vars
  BY <1>1
<1> QED
  BY <1>2, InitSession, SessionInvHolds, PTL DEF Spec, KeepsSessions
=============================================================================

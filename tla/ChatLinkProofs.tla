--------------------------- MODULE ChatLinkProofs ---------------------------
(***************************************************************************)
(* The chat client and its connection, for every number of lines and       *)
(* packets: the two ends agree about the session once what is on its way   *)
(* has arrived, however recv cuts the two streams.                         *)
(***************************************************************************)
EXTENDS ChatLink, SequenceTheorems, TLAPS

\* The command is there while the server's reader decides, its answer while it
\* replies: neither can be left behind for the next command.
InHand ==
  /\ server = "recv" => cmd = NoCommand /\ answer = NoText
  /\ server = "decide" => answer = NoText
  /\ server = "reply" => cmd = NoCommand /\ answer # NoText

LinkInv == TypeOK /\ InHand

-----------------------------------------------------------------------------
(* What chunks make of a flag.                                             *)

\* A packet at the end, its two chunks the last to be heard.
LEMMA OutcomePacket ==
  ASSUME NEW S, NEW s \in Seq(S), NEW x \in S, NEW y \in S, NEW flag \in BOOLEAN,
         NEW On, NEW Off, On \cap Off = {}, y \notin On, y \notin Off
  PROVE  Outcome(s \o <<x, y>>, flag, On, Off)
           <=> x \in On \/ (x \notin Off /\ Outcome(s, flag, On, Off))
<1> DEFINE t == s \o <<x, y>>
<1>1. /\ Len(s) \in Nat /\ Len(t) = Len(s) + 2
      /\ \A i \in 1 .. Len(s) : t[i] = s[i]
      /\ t[Len(s) + 1] = x /\ t[Len(s) + 2] = y
  <2>1. <<x, y>> \in Seq(S) /\ Len(<<x, y>>) = 2 /\ <<x, y>>[1] = x /\ <<x, y>>[2] = y
    OBVIOUS
  <2>2. Len(s) \in Nat /\ Len(t) = Len(s) + 2
    BY <2>1, ConcatProperties, LenProperties
  <2>3. \A i \in 1 .. Len(s) + 2 :
          t[i] = IF i <= Len(s) THEN s[i] ELSE <<x, y>>[i - Len(s)]
    BY <2>1, <2>2, ConcatProperties
  <2>4. t[Len(s) + 1] = <<x, y>>[1] /\ t[Len(s) + 2] = <<x, y>>[2]
    BY <2>2, <2>3
  <2> QED
    BY <2>1, <2>2, <2>3, <2>4
<1> HIDE DEF t
<1>2. CASE x \in On
  <2>1. Len(s) + 1 \in 1 .. Len(t) /\ \A j \in Len(s) + 2 .. Len(t) : t[j] \notin Off
    BY <1>1
  <2>2. Outcome(t, flag, On, Off)
    BY <1>1, <1>2, <2>1 DEF Outcome
  <2> QED
    BY <1>2, <2>2 DEF t
<1>3. CASE x \in Off
  <2>1. Len(s) + 1 \in 1 .. Len(t)
    BY <1>1
  <2>2. \A i \in 1 .. Len(t) : t[i] \in On => Len(s) + 1 \in i + 1 .. Len(t)
    BY <1>1, <1>3
  <2>3. ~Outcome(t, flag, On, Off)
    BY <1>1, <1>3, <2>1, <2>2 DEF Outcome
  <2> QED
    BY <1>3, <2>3 DEF t
<1>4. CASE x \notin On /\ x \notin Off
  <2>1. \A i \in 1 .. Len(t) : \/ i \in 1 .. Len(s) /\ t[i] = s[i]
                               \/ ~(i \in 1 .. Len(s)) /\ t[i] \notin On /\ t[i] \notin Off
    BY <1>1, <1>4
  <2>2. \A i \in 1 .. Len(s) : i \in 1 .. Len(t) /\ t[i] = s[i]
    BY <1>1
  <2>3. \A i \in 1 .. Len(s) :
          (\A j \in i + 1 .. Len(t) : t[j] \notin Off) <=> (\A j \in i + 1 .. Len(s) : s[j] \notin Off)
    BY <1>1, <1>4
  <2>4. (\A j \in 1 .. Len(t) : t[j] \notin Off) <=> (\A j \in 1 .. Len(s) : s[j] \notin Off)
    BY <2>1, <2>2
  <2>5. Outcome(t, flag, On, Off) <=> Outcome(s, flag, On, Off)
    BY <2>1, <2>2, <2>3, <2>4 DEF Outcome
  <2> QED
    BY <1>4, <2>5 DEF t
<1> QED
  BY <1>2, <1>3, <1>4

\* The chunks that one recv takes off the stream, of which it hears the first.
LEMMA OutcomeDrop ==
  ASSUME NEW S, NEW s \in Seq(S), NEW n \in 1 .. Len(s), NEW flag \in BOOLEAN,
         NEW On, NEW Off, On \cap Off = {},
         \A i \in 2 .. n : s[i] \notin On /\ s[i] \notin Off
  PROVE  Outcome(SubSeq(s, n + 1, Len(s)), s[1] \in On \/ (s[1] \notin Off /\ flag), On, Off)
           <=> Outcome(s, flag, On, Off)
<1> DEFINE t == SubSeq(s, n + 1, Len(s))
<1>1. /\ Len(s) \in Nat /\ n \in Nat /\ n >= 1 /\ n <= Len(s) /\ Len(t) = Len(s) - n
      /\ \A i \in 1 .. Len(s) - n : t[i] = s[n + i]
  <2>1. Len(s) \in Nat /\ n \in Nat /\ n >= 1 /\ n <= Len(s) /\ \A i \in 1 .. Len(s) : s[i] \in S
    BY LenProperties, ElementOfSeq
  <2>2. \A i \in n + 1 .. Len(s) : s[i] \in S
    BY <2>1
  <2>3. /\ Len(t) = IF n + 1 <= Len(s) THEN Len(s) - (n + 1) + 1 ELSE 0
        /\ \A i \in 1 .. Len(s) - (n + 1) + 1 : t[i] = s[n + 1 + i - 1]
    BY <2>1, <2>2, SubSeqProperties
  <2>4. Len(t) = Len(s) - n
    BY <2>1, <2>3
  <2>5. \A i \in 1 .. Len(s) - n : t[i] = s[n + i]
    BY <2>1, <2>3
  <2> QED
    BY <2>1, <2>4, <2>5
<1> HIDE DEF t
<1>2. \A i \in 1 .. Len(t) : n + i \in 1 .. Len(s) /\ n + i # 1 /\ t[i] = s[n + i]
  BY <1>1
<1>3. \A k \in 1 .. Len(s) : k = 1 \/ (s[k] \notin On /\ s[k] \notin Off)
                             \/ (k - n \in 1 .. Len(t) /\ n + (k - n) = k /\ t[k - n] = s[k])
  <2> TAKE k \in 1 .. Len(s)
  <2>1. CASE k = 1 \/ k \in 2 .. n
    BY <2>1
  <2>2. CASE k > n
    BY <1>1, <2>2
  <2> QED
    BY <1>1, <2>1, <2>2
<1>4. (\A j \in 1 .. Len(t) : t[j] \notin Off) <=> (\A k \in 2 .. Len(s) : s[k] \notin Off)
  BY <1>1, <1>2, <1>3
<1>5. \A i \in 1 .. Len(t) :
        (\A j \in i + 1 .. Len(t) : t[j] \notin Off) <=> (\A k \in n + i + 1 .. Len(s) : s[k] \notin Off)
  <2> TAKE i \in 1 .. Len(t)
  <2>1. ASSUME \A j \in i + 1 .. Len(t) : t[j] \notin Off, NEW k \in n + i + 1 .. Len(s)
        PROVE  s[k] \notin Off
    <3>1. k - n \in i + 1 .. Len(t) /\ k - n \in 1 .. Len(s) - n /\ n + (k - n) = k
      BY <1>1, <2>1
    <3> QED
      BY <1>1, <2>1, <3>1
  <2>2. ASSUME \A k \in n + i + 1 .. Len(s) : s[k] \notin Off, NEW j \in i + 1 .. Len(t)
        PROVE  t[j] \notin Off
    <3>1. n + j \in n + i + 1 .. Len(s) /\ j \in 1 .. Len(s) - n
      BY <1>1, <2>2
    <3> QED
      BY <1>1, <2>2, <3>1
  <2> QED
    BY <2>1, <2>2
<1>6. (\E i \in 1 .. Len(t) : t[i] \in On /\ \A j \in i + 1 .. Len(t) : t[j] \notin Off)
        <=> (\E k \in 2 .. Len(s) : s[k] \in On /\ \A j \in k + 1 .. Len(s) : s[j] \notin Off)
  <2>1. ASSUME NEW i \in 1 .. Len(t), t[i] \in On, \A j \in i + 1 .. Len(t) : t[j] \notin Off
        PROVE  \E k \in 2 .. Len(s) : s[k] \in On /\ \A j \in k + 1 .. Len(s) : s[j] \notin Off
    <3>1. n + i \in 2 .. Len(s) /\ s[n + i] \in On
      BY <1>1, <1>2, <2>1
    <3>2. \A j \in n + i + 1 .. Len(s) : s[j] \notin Off
      BY <1>5, <2>1
    <3> QED
      BY <3>1, <3>2
  <2>2. ASSUME NEW k \in 2 .. Len(s), s[k] \in On, \A j \in k + 1 .. Len(s) : s[j] \notin Off
        PROVE  \E i \in 1 .. Len(t) : t[i] \in On /\ \A j \in i + 1 .. Len(t) : t[j] \notin Off
    <3>1. k \in 1 .. Len(s) /\ k # 1
      BY <1>1
    <3>2. k - n \in 1 .. Len(t) /\ n + (k - n) = k /\ t[k - n] \in On
      BY <1>3, <2>2, <3>1
    <3>3. \A j \in k - n + 1 .. Len(t) : t[j] \notin Off
      BY <1>5, <2>2, <3>2
    <3> QED
      BY <3>2, <3>3
  <2> QED
    BY <2>1, <2>2
<1>7. Outcome(s, flag, On, Off)
        <=> \/ \E k \in 2 .. Len(s) : s[k] \in On /\ \A j \in k + 1 .. Len(s) : s[j] \notin Off
            \/ (s[1] \in On \/ (s[1] \notin Off /\ flag)) /\ \A k \in 2 .. Len(s) : s[k] \notin Off
  <2>1. 1 \in 1 .. Len(s) /\ \A k \in 1 .. Len(s) : k = 1 \/ k \in 2 .. Len(s)
    BY <1>1
  <2>2. \A k \in 2 .. Len(s) : k \in 1 .. Len(s)
    BY <1>1
  <2>3. 1 + 1 = 2
    OBVIOUS
  <2> QED
    BY <2>1, <2>2, <2>3 DEF Outcome
<1> QED
  BY <1>4, <1>6, <1>7 DEF Outcome, t

-----------------------------------------------------------------------------
(* Types, and what is in the hand of the server's reader.                  *)

LEMMA PacketType ==
  ASSUME NEW S, NEW s \in Seq(S), NEW x \in S, NEW y \in S
  PROVE  s \o Packet(x, y) \in Seq(S)
<1>1. Packet(x, y) \in Seq(S)
  BY DEF Packet
<1> QED
  BY <1>1, ConcatProperties

\* The packets of the two directions.
LEMMA TextType ==
  ASSUME NEW s \in Seq(Down), NEW text \in Down
  PROVE  s \o TextPacket(text) \in Seq(Down)
<1>1. Quoting("nothing") \in Down
  BY DEF Quoting, Down, Words
<1> QED
  BY <1>1, PacketType DEF TextPacket

LEMMA LineType ==
  ASSUME NEW s \in Seq(Up), NEW line \in Lines
  PROVE  s \o LinePacket(line) \in Seq(Up)
<1>1. line \in Up /\ LineTail \in Up
  BY DEF Up
<1> QED
  BY <1>1, PacketType DEF LinePacket

\* What a text and a line are, in terms of their fields.
LEMMA Texting ==
  /\ \A w \in Words : Quoting(w) \in Down
  /\ \A v, w \in Words : Verdict(v, w) \in Down
  /\ NoText \notin Down
  BY DEF Quoting, Verdict, NoText, Down, Words

LEMMA TextSets ==
  /\ Texts("login") \cap Texts("logout") = {}
  /\ \A t \in Down : /\ t \in Texts("login") <=> t.means = "login"
                     /\ t \in Texts("logout") <=> t.means = "logout"
  BY DEF Texts

LEMMA LineSets ==
  /\ Asking("login") \cap Asking("logout") = {}
  /\ \A l \in Up : /\ l \in Asking("login") <=> l.op = "login"
                   /\ l \in Asking("logout") <=> l.op = "logout"
  BY DEF Asking, Up, LineTail

LEMMA RestType ==
  ASSUME NEW S, NEW s \in Seq(S), NEW n \in 1 .. Len(s)
  PROVE  SubSeq(s, n + 1, Len(s)) \in Seq(S) /\ s[1] \in S
<1>1. Len(s) \in Nat /\ \A i \in 1 .. Len(s) : s[i] \in S
  BY LenProperties, ElementOfSeq
<1>2. 1 \in 1 .. Len(s) /\ n + 1 \in Int /\ \A i \in n + 1 .. Len(s) : s[i] \in S
  BY <1>1
<1> QED
  BY <1>1, <1>2, SubSeqProperties

LEMMA InitLinkInv == Init => LinkInv
<1> SUFFICES ASSUME Init PROVE LinkInv
  OBVIOUS
<1>0. 0 \in 0 .. MaxLines /\ 0 \in 0 .. MaxPackets
  BY LinkAssumption
<1>1. ClientType
  BY <1>0 DEF Init, ClientType
<1>2. StreamType
  <2>1. <<>> \in Seq(Up) /\ <<>> \in Seq(Down)
    OBVIOUS
  <2> QED
    BY <2>1 DEF Init, StreamType
<1>3. ServerType
  <2>1. server = "recv" /\ session = FALSE /\ username \in Words /\ cmd = NoCommand
        /\ answer = NoText /\ packets = 0
    BY DEF Init, Words
  <2> QED
    BY <1>0, <2>1 DEF ServerType
<1>4. HistoryType
  BY DEF Init, HistoryType
<1> QED
  BY <1>1, <1>2, <1>3, <1>4 DEF Init, LinkInv, InHand, TypeOK

\* What a step leaves alone keeps its type.
LEMMA LinkFrame ==
  ASSUME LinkInv
  PROVE  /\ UNCHANGED clientVars => ClientType'
         /\ UNCHANGED <<up, down>> => StreamType'
         /\ UNCHANGED serverVars => ServerType' /\ InHand'
         /\ UNCHANGED <<lost, misread, serverHistory>> => HistoryType'
<1>1. UNCHANGED clientVars => ClientType'
  BY DEF LinkInv, TypeOK, ClientType, clientVars
<1>2. UNCHANGED <<up, down>> => StreamType'
  BY DEF LinkInv, TypeOK, StreamType
<1>3. UNCHANGED serverVars => ServerType' /\ InHand'
  BY DEF LinkInv, TypeOK, ServerType, InHand, serverVars
<1>4. UNCHANGED <<lost, misread, serverHistory>> => HistoryType'
  BY DEF LinkInv, TypeOK, HistoryType, serverHistory
<1> QED
  BY <1>1, <1>2, <1>3, <1>4

LEMMA NextLinkInv == LinkInv /\ [Next]_vars => LinkInv'
<1> SUFFICES ASSUME LinkInv, [Next]_vars
             PROVE  ClientType' /\ StreamType' /\ ServerType' /\ HistoryType' /\ InHand'
  BY DEF LinkInv, TypeOK
<1>1. ClientType /\ StreamType /\ ServerType /\ HistoryType /\ InHand
  BY DEF LinkInv, TypeOK
<1>2. CASE Type
  <2>1. ClientType'
    <3>1. /\ lines < MaxLines /\ lines' = lines + 1
          /\ UNCHANGED <<main, reader, exiting, logged_in>> /\ alive' \in BOOLEAN
      BY <1>1, <1>2 DEF Type, ClientType
    <3>2. lines' \in 0 .. MaxLines
      BY <1>1, <3>1, LinkAssumption DEF ClientType
    <3> QED
      BY <1>1, <3>1, <3>2 DEF ClientType
  <2>2. StreamType'
    <3>1. \A line \in Typed : up \o LinePacket(line) \in Seq(Up)
      BY <1>1, LineType, LinkAssumption DEF StreamType
    <3> QED
      BY <1>1, <1>2, <3>1 DEF Type, StreamType
  <2>3. HistoryType'
    BY <1>1, <1>2 DEF Type, HistoryType, Asks
  <2> QED
    BY <1>2, <2>1, <2>2, <2>3, LinkFrame DEF Type
<1>3. CASE Leave
  <2>1. ClientType'
    BY <1>1, <1>3, LinkAssumption DEF Leave, ClientType
  <2> QED
    BY <1>3, <2>1, LinkFrame DEF Leave
<1>4. CASE Die \/ CheckExiting
  <2>1. ClientType'
    BY <1>1, <1>4 DEF Die, CheckExiting, ClientType
  <2> QED
    BY <1>4, <2>1, LinkFrame DEF Die, CheckExiting
<1>5. CASE ReadFromServer
  <2>1. CASE \E n \in 1 .. Len(down) : Receive(n)
    <3> PICK n \in 1 .. Len(down) : Receive(n)
      BY <2>1
    <3>1. SubSeq(down, n + 1, Len(down)) \in Seq(Down)
      BY <1>1, RestType DEF StreamType
    <3>2. StreamType'
      BY <1>1, <1>5, <3>1 DEF Receive, ReadFromServer, StreamType
    <3>3. HistoryType'
      BY <1>1, <1>5 DEF Receive, ReadFromServer, HistoryType, serverHistory
    <3>4. ClientType'
      BY <1>1, <1>5 DEF Receive, Flag, ReadFromServer, ClientType
    <3> QED
      BY <1>5, <3>2, <3>3, <3>4, LinkFrame DEF ReadFromServer
  <2>2. CASE UNCHANGED <<logged_in, down, lost, misread>>
    <3>1. ClientType'
      BY <1>1, <1>5, <2>2 DEF ReadFromServer, ClientType
    <3> QED
      BY <1>5, <2>2, <3>1, LinkFrame DEF ReadFromServer
  <2> QED
    BY <1>5, <2>1, <2>2 DEF ReadFromServer
<1>6. CASE ServerRecv
  <2>1. /\ \A n \in 1 .. Len(up) : SubSeq(up, n + 1, Len(up)) \in Seq(Up) /\ up[1] \in Up
    BY <1>1, RestType DEF StreamType
  <2>2. StreamType'
    BY <1>1, <1>6, <2>1 DEF ServerRecv, StreamType
  <2>3. ServerType' /\ InHand'
    BY <1>1, <1>6, <2>1 DEF ServerRecv, ServerType, InHand
  <2>4. HistoryType'
    BY <1>1, <1>6 DEF ServerRecv, HistoryType
  <2> QED
    BY <1>6, <2>2, <2>3, <2>4, LinkFrame DEF ServerRecv
<1>7. CASE Decide
  <2>1. CASE Ignore
    <3>1. ServerType' /\ InHand' /\ StreamType' /\ HistoryType'
      BY <1>1, <1>7, <2>1 DEF Decide, Ignore, ServerType, InHand, StreamType, HistoryType
    <3> QED
      BY <1>7, <3>1, LinkFrame DEF Decide
  <2>2. CASE Login \/ Logout \/ Chat
    <3>1. cmd.op # "tail" /\ cmd \in Lines
      BY <1>1, <2>2 DEF Login, Logout, Chat, ServerType, Up, LineTail, NoCommand
    <3>2. cmd.words \in Words /\ "nothing" \in Words /\ "login" \in Words /\ "logout" \in Words
      BY <3>1 DEF Lines, Words
    <3>3. answer' \in Down /\ session' \in BOOLEAN /\ username' \in Words
      BY <1>1, <2>2, <3>2, Texting DEF Login, Logout, Chat, ServerType
    <3>4. ServerType' /\ InHand'
      BY <1>1, <1>7, <3>1, <3>3, Texting DEF Decide, ServerType, InHand
    <3>5. StreamType'
      <4>1. down \o TextPacket(Quoting(cmd.words)) \in Seq(Down)
        BY <1>1, <3>2, Texting, TextType DEF StreamType
      <4> QED
        BY <1>1, <1>7, <2>2, <4>1 DEF Decide, Login, Logout, Chat, StreamType
    <3>6. HistoryType'
      BY <1>1, <1>7 DEF Decide, HistoryType
    <3> QED
      BY <1>7, <3>4, <3>5, <3>6, LinkFrame DEF Decide
  <2> QED
    BY <1>7, <2>1, <2>2 DEF Decide
<1>8. CASE Reply
  <2>1. down \o TextPacket(answer) \in Seq(Down)
    <3>1. answer \in Down
      BY <1>1, <1>8 DEF Reply, ServerType, InHand
    <3> QED
      BY <1>1, <3>1, TextType DEF StreamType
  <2>2. StreamType' /\ ServerType' /\ InHand'
    BY <1>1, <1>8, <2>1 DEF Reply, StreamType, ServerType, InHand
  <2> QED
    BY <1>8, <2>2, LinkFrame DEF Reply
<1>9. CASE OtherUsers
  <2>1. \A words \in Words : down \o TextPacket(Quoting(words)) \in Seq(Down)
    BY <1>1, Texting, TextType DEF StreamType
  <2>2. StreamType' /\ ServerType' /\ InHand'
    BY <1>1, <1>9, <2>1, LinkAssumption DEF OtherUsers, StreamType, ServerType, InHand
  <2> QED
    BY <1>9, <2>2, LinkFrame DEF OtherUsers
<1>10. CASE ServerStops
  <2>1. <<>> \in Seq(Up) /\ <<>> \in Seq(Down)
    OBVIOUS
  <2>2. StreamType'
    BY <1>1, <1>10, <2>1 DEF ServerStops, StreamType
  <2>3. ServerType' /\ InHand'
    BY <1>1, <1>10 DEF ServerStops, ServerType, InHand
  <2> QED
    BY <1>10, <2>2, <2>3, LinkFrame DEF ServerStops
<1>11. CASE Over \/ UNCHANGED vars
  BY <1>11, LinkFrame DEF Over, vars
<1> QED
  BY <1>2, <1>3, <1>4, <1>5, <1>6, <1>7, <1>8, <1>9, <1>10, <1>11 DEF Next

-----------------------------------------------------------------------------
(* The two ends agree.                                                     *)

LEMMA OutcomeType ==
  ASSUME NEW s, NEW flag \in BOOLEAN, NEW On, NEW Off
  PROVE  Outcome(s, flag, On, Off) \in BOOLEAN
  BY DEF Outcome

\* The client hears one verdict less, or one packet more is on its way to it.
LEMMA FlagStep ==
  LinkInv /\ LinkInv' /\ FlagFollowsServer /\ [Next]_vars => FlagFollowsServer'
<1> SUFFICES ASSUME LinkInv, LinkInv', FlagFollowsServer, [Next]_vars,
                    server' # "gone", ~lost', ~misread'
             PROVE  FlagToCome' = session'
  BY DEF FlagFollowsServer
<1>1. /\ down \in Seq(Down) /\ down' \in Seq(Down) /\ logged_in \in BOOLEAN
      /\ answer \in Down \cup {NoText} /\ session \in BOOLEAN /\ InHand
      /\ lost \in BOOLEAN /\ misread \in BOOLEAN
  BY DEF LinkInv, TypeOK, ClientType, StreamType, ServerType, HistoryType
<1> DEFINE heard == Outcome(down, logged_in, Texts("login"), Texts("logout"))
<1>2. heard \in BOOLEAN
  BY <1>1, OutcomeType
<1>3. server # "gone" /\ ~lost /\ ~misread
  <2>1. CASE Type \/ Leave \/ Die \/ CheckExiting
    BY <2>1 DEF Type, Leave, Die, CheckExiting, serverVars
  <2>2. CASE ReadFromServer
    BY <1>1, <2>2 DEF ReadFromServer, Receive, serverVars
  <2>3. CASE ServerRecv \/ Decide \/ Reply \/ OtherUsers \/ ServerStops
    BY <2>3 DEF ServerRecv, Decide, Reply, OtherUsers, ServerStops
  <2>4. CASE Over \/ UNCHANGED vars
    BY <2>4 DEF Over, vars, serverVars
  <2> QED
    BY <2>1, <2>2, <2>3, <2>4 DEF Next
<1>4. Effect(answer, heard) = session
  BY <1>3 DEF FlagFollowsServer, FlagToCome
<1>5. ASSUME UNCHANGED <<down, logged_in, answer, session>>
      PROVE  FlagToCome' = session'
  BY <1>4, <1>5 DEF FlagToCome
<1>6. CASE Type \/ Leave \/ Die \/ CheckExiting \/ ServerRecv \/ Over \/ UNCHANGED vars
  BY <1>5, <1>6 DEF Type, Leave, Die, CheckExiting, ServerRecv, Over, vars, serverVars, clientVars
<1>7. CASE ReadFromServer
  <2>1. UNCHANGED <<answer, session>>
    BY <1>7 DEF ReadFromServer, serverVars
  <2>2. CASE UNCHANGED <<logged_in, down>>
    BY <1>5, <2>1, <2>2
  <2>3. ASSUME NEW n \in 1 .. Len(down), Receive(n)
        PROVE  FlagToCome' = session'
    <3>0. \A i \in 1 .. n : down[i] \in Down
      <4>1. Len(down) \in Nat /\ \A i \in 1 .. Len(down) : down[i] \in Down
        BY <1>1, LenProperties, ElementOfSeq
      <4> QED
        BY <4>1
    <3>1. \A i \in 2 .. n : down[i] \notin Texts("login") /\ down[i] \notin Texts("logout")
      <4>1. Len(down) \in Nat /\ n \in Nat /\ \A i \in 2 .. n : i \in 1 .. n
        BY <1>1, LenProperties
      <4>2. ~\E i \in 2 .. n : down[i].means # "nothing"
        BY <2>3 DEF Receive
      <4>3. \A i \in 2 .. n : down[i].means # "login" /\ down[i].means # "logout"
        BY <4>2
      <4> QED
        BY <3>0, <4>1, <4>3, TextSets
    <3>2. down[1] \in Down /\ down[1].reads = down[1].means
      <4>1. 1 \in 1 .. n
        BY <1>1, LenProperties
      <4> QED
        BY <1>1, <2>3, <3>0, <4>1 DEF Receive
    <3>3. logged_in' = (down[1] \in Texts("login")
                          \/ (down[1] \notin Texts("logout") /\ logged_in))
      BY <1>1, <2>3, <3>2, TextSets DEF Receive, Flag
    <3>4. Outcome(SubSeq(down, n + 1, Len(down)),
                  down[1] \in Texts("login") \/ (down[1] \notin Texts("logout") /\ logged_in),
                  Texts("login"), Texts("logout")) <=> heard
      BY <1>1, <3>1, TextSets, OutcomeDrop
    <3>5. down' = SubSeq(down, n + 1, Len(down))
      BY <2>3 DEF Receive
    <3>6. Outcome(down', logged_in', Texts("login"), Texts("logout")) = heard
      BY <1>2, <3>3, <3>4, <3>5, OutcomeType
    <3> HIDE DEF heard
    <3> QED
      BY <1>4, <2>1, <3>6 DEF FlagToCome
  <2> QED
    BY <1>7, <2>2, <2>3 DEF ReadFromServer
<1>8. ASSUME NEW text \in Down, down' = down \o TextPacket(text), UNCHANGED logged_in
      PROVE  Outcome(down', logged_in', Texts("login"), Texts("logout")) = Effect(text, heard)
  <2>1. Quoting("nothing") \in Down /\ Quoting("nothing").means = "nothing"
    BY Texting DEF Quoting, Words
  <2>2. Quoting("nothing") \notin Texts("login") /\ Quoting("nothing") \notin Texts("logout")
    BY <2>1, TextSets
  <2>3. Outcome(down \o <<text, Quoting("nothing")>>, logged_in, Texts("login"), Texts("logout"))
          <=> text \in Texts("login") \/ (text \notin Texts("logout") /\ heard)
    BY <1>1, <2>1, <2>2, TextSets, OutcomePacket
  <2>4. Outcome(down', logged_in', Texts("login"), Texts("logout")) <=> Effect(text, heard)
    BY <1>8, <2>3, TextSets DEF TextPacket, Packet, Effect
  <2> QED
    BY <1>1, <1>2, <1>8, <2>4, OutcomeType DEF Effect
<1> HIDE DEF heard
<1>9. CASE Decide
  <2>1. UNCHANGED logged_in /\ answer = NoText
    BY <1>1, <1>9 DEF Decide, clientVars, InHand
  <2>2. heard = session
    BY <1>2, <1>4, <2>1 DEF Effect, NoText
  <2>3. Outcome(down', logged_in', Texts("login"), Texts("logout")) = heard
    <3>1. CASE UNCHANGED down
      BY <2>1, <3>1 DEF heard
    <3>2. CASE down' # down
      <4>1. Chat /\ cmd \in Lines /\ cmd.op = "chatSelf"
            /\ down' = down \o TextPacket(Quoting(cmd.words))
        BY <1>9, <3>2 DEF Decide, Login, Logout, Chat, Ignore, LinkInv, TypeOK, ServerType,
                          Up, LineTail, NoCommand
      <4>2. Quoting(cmd.words) \in Down /\ Quoting(cmd.words).means = "nothing"
        BY <4>1, Texting DEF Lines, Quoting
      <4>3. Effect(Quoting(cmd.words), heard) = heard
        BY <1>2, <4>2 DEF Effect
      <4> QED
        BY <1>8, <2>1, <4>1, <4>2, <4>3
    <3> QED
      BY <3>1, <3>2
  <2>4. Effect(answer', heard) = session'
    <3>1. CASE Login
      <4>1. CASE UNCHANGED session /\ answer'.means = "nothing"
        BY <2>2, <4>1, <1>1 DEF Effect
      <4>2. CASE session' = TRUE /\ answer'.means = "login"
        BY <4>2 DEF Effect
      <4>3. \/ UNCHANGED session /\ answer'.means = "nothing"
            \/ session' = TRUE /\ answer'.means = "login"
        BY <3>1 DEF Login, Quoting, Verdict
      <4> QED
        BY <4>1, <4>2, <4>3
    <3>2. CASE Logout
      <4>1. CASE UNCHANGED session /\ answer'.means = "nothing"
        BY <2>2, <4>1, <1>1 DEF Effect
      <4>2. CASE session' = FALSE /\ answer'.means = "logout"
        BY <4>2 DEF Effect
      <4>3. \/ UNCHANGED session /\ answer'.means = "nothing"
            \/ session' = FALSE /\ answer'.means = "logout"
        BY <3>2 DEF Logout, Quoting, Verdict
      <4> QED
        BY <4>1, <4>2, <4>3
    <3>3. CASE Chat \/ Ignore
      BY <1>1, <1>2, <2>1, <2>2, <3>3 DEF Chat, Ignore, Effect, Quoting, NoText
    <3> QED
      BY <1>9, <3>1, <3>2, <3>3 DEF Decide
  <2> QED
    BY <2>3, <2>4 DEF FlagToCome
<1>10. CASE Reply
  <2>1. /\ down' = down \o TextPacket(answer) /\ answer' = NoText /\ answer \in Down
        /\ UNCHANGED <<logged_in, session>>
    BY <1>1, <1>10 DEF Reply, InHand, clientVars
  <2>2. Effect(NoText, Effect(answer, heard)) = Effect(answer, heard)
    BY <1>2 DEF Effect, NoText
  <2> QED
    BY <1>4, <1>8, <2>1, <2>2 DEF FlagToCome
<1>11. CASE OtherUsers
  <2>1. PICK words \in Words : down' = down \o TextPacket(Quoting(words))
    BY <1>11 DEF OtherUsers
  <2>2. UNCHANGED <<logged_in, session, answer>> /\ Quoting(words) \in Down
    BY <1>11, Texting DEF OtherUsers, clientVars
  <2>3. Effect(Quoting(words), heard) = heard
    BY <1>2 DEF Effect, Quoting
  <2> QED
    BY <1>4, <1>8, <2>1, <2>2, <2>3 DEF FlagToCome
<1>12. CASE ServerStops
  BY <1>12 DEF ServerStops
<1> QED
  BY <1>6, <1>7, <1>9, <1>10, <1>11, <1>12 DEF Next

\* The server hears one command less, or the client has sent one more.
LEMMA SessionStep ==
  LinkInv /\ LinkInv' /\ SessionFollowsLines /\ [Next]_vars => SessionFollowsLines'
<1> SUFFICES ASSUME LinkInv, LinkInv', SessionFollowsLines, [Next]_vars,
                    server' # "gone", ~unheard'
             PROVE  SessionToCome' = wanted'
  BY DEF SessionFollowsLines
<1>1. /\ up \in Seq(Up) /\ up' \in Seq(Up) /\ session \in BOOLEAN /\ wanted \in BOOLEAN
      /\ cmd \in Up \cup {NoCommand} /\ InHand /\ unheard \in BOOLEAN
  BY DEF LinkInv, TypeOK, StreamType, ServerType, HistoryType
<1> DEFINE now == Asks(cmd, session)
           heard == Outcome(up, now, Asking("login"), Asking("logout"))
<1>2. now \in BOOLEAN /\ heard \in BOOLEAN
  BY <1>1, OutcomeType DEF Asks
<1>3. server # "gone" /\ ~unheard
  <2>1. CASE Type \/ Leave \/ Die \/ CheckExiting \/ ReadFromServer
    BY <2>1 DEF Type, Leave, Die, CheckExiting, ReadFromServer, serverVars, serverHistory
  <2>2. CASE ServerRecv \/ Decide \/ Reply \/ OtherUsers \/ ServerStops
    BY <1>1, <2>2 DEF ServerRecv, Decide, Reply, OtherUsers, ServerStops, serverHistory
  <2>3. CASE Over \/ UNCHANGED vars
    BY <2>3 DEF Over, vars, serverVars, serverHistory
  <2> QED
    BY <2>1, <2>2, <2>3 DEF Next
<1>4. heard = wanted
  BY <1>3 DEF SessionFollowsLines, SessionToCome
<1>5. ASSUME UNCHANGED <<up, session, cmd, wanted>>
      PROVE  SessionToCome' = wanted'
  BY <1>4, <1>5 DEF SessionToCome
<1>6. CASE Leave \/ Die \/ CheckExiting \/ ReadFromServer
  BY <1>5, <1>6 DEF Leave, Die, CheckExiting, ReadFromServer, serverVars, serverHistory
<1>7. CASE Reply \/ OtherUsers \/ Over \/ UNCHANGED vars
  BY <1>5, <1>7 DEF Reply, OtherUsers, Over, vars, serverVars, serverHistory
<1>8. CASE Type
  <2>1. UNCHANGED <<session, cmd>>
    BY <1>8 DEF Type, serverVars
  <2>2. CASE UNCHANGED <<up, wanted>>
    BY <1>5, <2>1, <2>2
  <2>3. ASSUME NEW line \in Typed, up' = up \o LinePacket(line), wanted' = Asks(line, wanted)
        PROVE  SessionToCome' = wanted'
    <3>1. line \in Up /\ LineTail \in Up /\ LineTail.op = "tail"
      BY LinkAssumption DEF Up, LineTail
    <3>6. LineTail \notin Asking("login") /\ LineTail \notin Asking("logout")
      BY <3>1, LineSets
    <3>2. Outcome(up \o <<line, LineTail>>, now, Asking("login"), Asking("logout"))
            <=> line \in Asking("login") \/ (line \notin Asking("logout") /\ heard)
      BY <1>1, <1>2, <3>1, <3>6, LineSets, OutcomePacket
    <3>3. Outcome(up \o <<line, LineTail>>, now, Asking("login"), Asking("logout")) \in BOOLEAN
      BY <1>2, OutcomeType
    <3>4. Outcome(up', now, Asking("login"), Asking("logout")) = Asks(line, heard)
      BY <1>2, <2>3, <3>1, <3>2, <3>3, LineSets DEF LinePacket, Packet, Asks
    <3>5. SessionToCome' = Outcome(up', now, Asking("login"), Asking("logout"))
      BY <2>1 DEF SessionToCome
    <3> HIDE DEF heard, now
    <3> QED
      BY <1>4, <2>3, <3>4, <3>5
  <2> QED
    BY <1>8, <2>2, <2>3 DEF Type
<1>9. CASE ServerRecv
  <2>1. PICK n \in 1 .. Len(up) :
          /\ up' = SubSeq(up, n + 1, Len(up)) /\ cmd' = up[1]
          /\ unheard' = (unheard \/ \E i \in 2 .. n : up[i].op # "tail")
    BY <1>9 DEF ServerRecv
  <2>2. UNCHANGED <<session, wanted>> /\ cmd = NoCommand
    BY <1>1, <1>9 DEF ServerRecv, InHand
  <2>9. Len(up) \in Nat /\ 1 \in 1 .. Len(up) /\ \A i \in 1 .. Len(up) : up[i] \in Up
    BY <1>1, LenProperties, ElementOfSeq
  <2>3. \A i \in 2 .. n : up[i] \notin Asking("login") /\ up[i] \notin Asking("logout")
    <3>1. n \in Nat /\ n <= Len(up)
      BY <2>9
    <3>2. \A i \in 2 .. n : i \in 1 .. Len(up)
      BY <2>9, <3>1
    <3>3. ~\E i \in 2 .. n : up[i].op # "tail"
      BY <2>1
    <3>4. \A i \in 2 .. n : up[i].op # "login" /\ up[i].op # "logout"
      BY <3>3
    <3> QED
      BY <2>9, <3>2, <3>4, LineSets
  <2>4. Outcome(SubSeq(up, n + 1, Len(up)),
                up[1] \in Asking("login") \/ (up[1] \notin Asking("logout") /\ session), Asking("login"), Asking("logout"))
          <=> Outcome(up, session, Asking("login"), Asking("logout"))
    BY <1>1, <2>3, LineSets, OutcomeDrop
  <2>5. now = session
    BY <1>1, <2>2 DEF Asks, NoCommand
  <2>6. SessionToCome' = Outcome(up', up[1] \in Asking("login") \/ (up[1] \notin Asking("logout") /\ session),
                                 Asking("login"), Asking("logout"))
    BY <2>1, <2>2, <2>9, LineSets DEF SessionToCome, Asks
  <2>7. SessionToCome' <=> heard
    BY <2>1, <2>4, <2>5, <2>6
  <2>8. SessionToCome' \in BOOLEAN
    BY <2>6, OutcomeType
  <2> HIDE DEF heard
  <2> QED
    BY <1>2, <1>4, <2>2, <2>7, <2>8
<1>10. CASE Decide
  <2>1. UNCHANGED <<up, wanted>> /\ cmd' = NoCommand /\ (cmd.op = "login" => session')
    BY <1>1, <1>10 DEF Decide, clientVars
  <2>2. session' = now
    BY <1>1, <1>10, <2>1 DEF Decide, Login, Logout, Chat, Ignore, Asks
  <2>3. Asks(cmd', session') = now
    BY <1>2, <2>1, <2>2 DEF Asks, NoCommand
  <2> QED
    BY <1>4, <2>1, <2>3 DEF SessionToCome
<1>11. CASE ServerStops
  BY <1>11 DEF ServerStops
<1> QED
  BY <1>6, <1>7, <1>8, <1>9, <1>10, <1>11 DEF Next

-----------------------------------------------------------------------------
(* The theorems.                                                           *)

\* Types, and that the server answers the command it has received before it
\* takes the next one off the stream (server.cpp:156-177).
THEOREM LinkTypes == Spec => []TypeOK
<1>1. LinkInv => TypeOK
  BY DEF LinkInv
<1> QED
  BY InitLinkInv, NextLinkInv, <1>1, PTL DEF Spec

\* The client's flag follows the server's (client.cpp:120-168, 236-252): what
\* the client will think when all that is on its way has arrived is what the
\* server thinks now, unless recv dropped a verdict or the client found in a text
\* what the text did not mean.
THEOREM FlagTheorem == Spec => []FlagFollowsServer
<1>1. Init => FlagFollowsServer
  <2> SUFFICES ASSUME Init PROVE FlagToCome = session
    BY DEF FlagFollowsServer
  <2>1. down = <<>> /\ logged_in = FALSE /\ answer = NoText /\ session = FALSE
    BY DEF Init
  <2>2. Len(down) = 0
    BY <2>1
  <2>3. ~Outcome(down, logged_in, Texts("login"), Texts("logout"))
    BY <2>1, <2>2 DEF Outcome
  <2>4. ~FlagToCome /\ FlagToCome \in BOOLEAN
    BY <2>1, <2>3 DEF FlagToCome, Effect, NoText
  <2> QED
    BY <2>1, <2>4
<1> QED
  BY <1>1, InitLinkInv, NextLinkInv, FlagStep, PTL DEF Spec

\* The server's session follows the lines that the client has sent, in their
\* order (server.cpp:156, 254-296), unless recv dropped a command behind another
\* or the name of a login was taken.
THEOREM SessionLineTheorem == Spec => []SessionFollowsLines
<1>1. Init => SessionFollowsLines
  <2> SUFFICES ASSUME Init PROVE SessionToCome = wanted
    BY DEF SessionFollowsLines
  <2>1. up = <<>> /\ session = FALSE /\ cmd = NoCommand /\ wanted = FALSE
    BY DEF Init
  <2>2. Len(up) = 0
    BY <2>1
  <2>3. ~Asks(cmd, session)
    BY <2>1 DEF Asks, NoCommand
  <2>4. ~SessionToCome /\ SessionToCome \in BOOLEAN
    BY <2>2, <2>3 DEF SessionToCome, Outcome
  <2> QED
    BY <2>1, <2>4
<1> QED
  BY <1>1, InitLinkInv, NextLinkInv, SessionStep, PTL DEF Spec
=============================================================================

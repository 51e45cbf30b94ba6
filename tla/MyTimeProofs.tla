---------------------------- MODULE MyTimeProofs ----------------------------
(***************************************************************************)
(* mytime and the tools it runs, for every clock, every tree, every set of *)
(* arguments and every number of changes that others make: types, whom     *)
(* mytimeout terminates, which command outlives it, that the times mytime  *)
(* prints are those of the run, and what the two walks have found.         *)
(***************************************************************************)
EXTENDS MyTime, WalkProofs

OwnTypes ==
  /\ mat \in {"args", "fork", "wait", "print", "ended"} /\ tool \in Tools
  /\ begun \in Nat /\ shown \in [sec : Int, usec : Int, user : Nat]

Types == TimeoutType /\ WalkTypes /\ OwnTypes

\* How far mytimeout is tells what fork has returned, where its result is, and
\* what has become of the command.
Command ==
  /\ tat \in {"off", "args"} => due = Never
  /\ tat \in {"off", "args", "fork"} => forked = 0
  /\ tat \in {"store", "wait", "return"} => forked # 0
  /\ tat \in {"off", "args", "fork", "store"} => cid = 0
  /\ tat \in {"wait", "return"} => cid = forked
  /\ cid \in {0, forked}
  /\ forked = Child <=> cmd # "none"
  /\ cmd = "reaped" => cid = Child
  /\ cmd = "reaped" => tat \in {"return", "handler", "ended"}
  /\ tat = "return" => cmd \in {"none", "reaped"}
  /\ cmd = "gone" => tat = "ended"

\* Nobody is sent anything before the handler, and who has been stays sent.
Signals ==
  /\ victims # {} => tat = "ended"
  /\ "command" \in victims => cmd # "reaped"
  /\ cmd \in {"none", "born"} => deaf = FALSE
  /\ OnlyTheCommandIsKilled
  /\ OutlivesOnlyIfMissed

\* The clock, the processor, and the usage of children run together.
Clocks ==
  /\ mat \in {"args", "fork"} => tat = "off" /\ wat = "off"
  /\ mat \in {"print", "ended"} => tat \in {"off", "ended"}
  /\ mat = "fork" \/ tat # "off" => begun >= Start
  /\ begun <= now /\ cpu <= Processors * (now - begun)
  /\ cmd \in {"none", "born"} => cpu = 0
  /\ waited = IF cmd = "reaped" THEN cpu ELSE 0
  /\ due # Never => due >= begun + secs * Unit
  /\ tat = "handler" \/ victims # {} => due # Never /\ now >= due
  /\ tool # "mytimeout" => tat = "off"

Sheet ==
  /\ mat # "ended" => shown = NoTimes
  /\ Printed => /\ shown.user = waited
                /\ victims # {} => shown.sec >= secs
                /\ waited <= Processors * (shown.sec * Unit + shown.usec)

MyTimeInv == Types /\ Command /\ Signals /\ Clocks /\ Sheet

-----------------------------------------------------------------------------
(* Arithmetic of seconds                                                   *)

\* What can be used until one reading of the clock and until the next.
LEMMA Usable ==
  ASSUME NEW n \in Nat
  PROVE  /\ Processors * n \in Nat /\ Processors * 0 = 0
         /\ Processors * (n + 1) = Processors * n + Processors
BY TimeoutAssumption

LEMMA Products ==
  ASSUME NEW a \in Nat, NEW b \in Nat
  PROVE  a * b \in Nat
OBVIOUS

\* s seconds later the seconds of the clock are at least s more.
LEMMA SecondsPass ==
  ASSUME NEW a \in Nat, NEW b \in Nat, NEW s \in Nat, b >= a + s * Unit
  PROVE  tv_sec(b) - tv_sec(a) >= s
<1> DEFINE x == tv_sec(a)
           y == tv_sec(b)
<1>1. /\ x \in Nat /\ y \in Nat /\ Unit \in Nat \ {0}
      /\ a >= x * Unit /\ b < y * Unit + Unit
  <2>1. /\ x \in Nat /\ y \in Nat /\ tv_usec(a) \in 0 .. Unit - 1 /\ tv_usec(b) \in 0 .. Unit - 1
        /\ a = x * Unit + tv_usec(a) /\ b = y * Unit + tv_usec(b) /\ Unit \in Nat \ {0}
    BY TimeFields, ClockAssumption
  <2> HIDE DEF x, y
  <2>2. x * Unit \in Nat /\ y * Unit \in Nat
    BY <2>1, Products
  <2> QED
    BY <2>1, <2>2
<1> HIDE DEF x, y
<1>2. SUFFICES ASSUME y - x < s PROVE FALSE
  BY <1>1 DEF x, y
<1>3. y + 1 <= x + s
  BY <1>1, <1>2
<1>4. (y + 1) * Unit <= (x + s) * Unit
  BY <1>1, <1>3
<1>5. (y + 1) * Unit = y * Unit + Unit /\ (x + s) * Unit = x * Unit + s * Unit
  BY <1>1
<1>6. y * Unit \in Nat /\ x * Unit \in Nat /\ s * Unit \in Nat
  BY <1>1, Products
<1> QED
  BY <1>1, <1>4, <1>5, <1>6

\* Seconds and microseconds, subtracted each on their own, make up the difference.
LEMMA FieldsDiffer ==
  ASSUME NEW a \in Nat, NEW b \in Nat
  PROVE  /\ tv_sec(b) - tv_sec(a) \in Int /\ tv_usec(b) - tv_usec(a) \in Int
         /\ (tv_sec(b) - tv_sec(a)) * Unit + (tv_usec(b) - tv_usec(a)) = b - a
<1> DEFINE x == tv_sec(a)
           y == tv_sec(b)
           u == tv_usec(a)
           v == tv_usec(b)
<1>1. /\ x \in Nat /\ y \in Nat /\ Unit \in Nat /\ u \in Nat /\ v \in Nat
      /\ a = x * Unit + u /\ b = y * Unit + v
  BY TimeFields, ClockAssumption
<1> HIDE DEF x, y, u, v
<1>2. (y - x) * Unit = y * Unit - x * Unit
  BY <1>1
<1>3. x * Unit \in Nat /\ y * Unit \in Nat
  BY <1>1, Products
<1>4. y - x \in Int /\ v - u \in Int /\ (y - x) * Unit + (v - u) = b - a
  BY <1>1, <1>2, <1>3
<1> QED
  BY <1>4 DEF x, y, u, v
-----------------------------------------------------------------------------
(* Types suffice, and those who leave the walks alone                      *)

LEMMA TypesSuffice == Types => TypeOK
<1> SUFFICES ASSUME Types PROVE TypeOK
  OBVIOUS
<1>1. ASSUME NEW i \in DOMAIN stack
      PROVE  /\ stack[i].path \in Seq(Dirs) /\ stack[i].start \subseteq Entries
             /\ stack[i].returned \subseteq Entries
  <2>1. stack[i] \in OpenDir
    BY LenProperties, ElementOfSeq DEF Types, WalkTypes
  <2> QED
    BY <2>1 DEF OpenDir
<1>2. WalkType
  BY <1>1 DEF Types, WalkTypes, WalkType
<1> QED
  BY <1>2 DEF Types, OwnTypes, TypeOK

-----------------------------------------------------------------------------
(* mytimeout and its command                                               *)

LEMMA SameOthers ==
  ASSUME Types, UNCHANGED <<walkVars, mytimeVars>>
  PROVE  /\ WalkTypes' /\ OwnTypes' /\ now \in Nat /\ cpu \in Nat /\ waited \in Nat
         /\ UNCHANGED <<mat, tool, begun, shown, wat>>
<1>1. WalkTypes'
  BY DEF Types, WalkTypes, walkVars, fileVars
<1>2. OwnTypes'
  BY DEF Types, OwnTypes, mytimeVars
<1>3. now \in Nat /\ cpu \in Nat /\ waited \in Nat
  BY ClockAssumption DEF Types, TimeoutType
<1> QED
  BY <1>1, <1>2, <1>3 DEF mytimeVars, walkVars

LEMMA SetAlarmInv ==
  ASSUME MyTimeInv, SetAlarm, UNCHANGED <<walkVars, mytimeVars>>
  PROVE  MyTimeInv'
<1> USE DEF MyTimeInv
<1>1. /\ WalkTypes' /\ OwnTypes' /\ now \in Nat /\ cpu \in Nat /\ waited \in Nat
      /\ UNCHANGED <<mat, tool, begun, shown, wat>>
  BY SameOthers
<1>2. /\ tat = "args" /\ secs' \in Seconds
      /\ \/ tat' = "ended" /\ due' = due
         \/ tat' = "fork" /\ due' = now + secs' * Unit
      /\ UNCHANGED <<now, forked, cid, cmd, deaf, cpu, waited, victims>>
  BY DEF SetAlarm
<1>3. secs' * Unit \in Nat /\ secs' \in Nat
  BY <1>2, TimeoutAssumption, ClockAssumption, Products
<1>4. TimeoutType'
  BY <1>1, <1>2, <1>3 DEF Types, TimeoutType
<1>5. /\ forked = 0 /\ cid = 0 /\ victims = {} /\ due = Never /\ cmd = "none"
      /\ mat \notin {"args", "fork", "print", "ended"} /\ tool = "mytimeout"
  BY <1>2 DEF Command, Signals, Clocks, Types, OwnTypes, Child
<1>6. Command'
  BY <1>2, <1>5 DEF Command, Child
<1>7. Signals'
  BY <1>2, <1>5 DEF Signals, OnlyTheCommandIsKilled, OutlivesOnlyIfMissed
<1>8. Clocks'
  <2>1. begun \in Nat /\ begun <= now
    BY DEF Clocks, Types, OwnTypes
  <2>2. due' # Never => due' >= begun' + secs' * Unit
    BY <1>1, <1>2, <1>3, <1>5, <2>1
  <2> QED
    BY <1>1, <1>2, <1>5, <2>2 DEF Clocks
<1>9. Sheet'
  BY <1>1, <1>5 DEF Sheet, Printed
<1> QED
  BY <1>1, <1>4, <1>6, <1>7, <1>8, <1>9 DEF Types

LEMMA ForkCommandInv ==
  ASSUME MyTimeInv, ForkCommand, UNCHANGED <<walkVars, mytimeVars>>
  PROVE  MyTimeInv'
<1> USE DEF MyTimeInv
<1>1. /\ WalkTypes' /\ OwnTypes' /\ now \in Nat /\ cpu \in Nat /\ waited \in Nat
      /\ UNCHANGED <<mat, tool, begun, shown, wat>>
  BY SameOthers
<1>2. /\ tat = "fork" /\ tat' = "store"
      /\ \/ forked' = Child /\ cmd' = "born"
         \/ forked' = Failed /\ UNCHANGED cmd
      /\ UNCHANGED <<now, secs, due, cid, deaf, cpu, waited, victims>>
  BY DEF ForkCommand
<1>3. TimeoutType'
  BY <1>1, <1>2 DEF Types, TimeoutType
<1>4. /\ cid = 0 /\ victims = {} /\ cmd = "none" /\ cpu = 0 /\ waited = 0
      /\ mat \notin {"args", "fork", "print", "ended"} /\ tool = "mytimeout"
  BY <1>2 DEF Command, Signals, Clocks, Types, OwnTypes, Child
<1>5. Command'
  BY <1>2, <1>4 DEF Command, Child, Failed
<1>6. Signals'
  BY <1>2, <1>4 DEF Signals, OnlyTheCommandIsKilled, OutlivesOnlyIfMissed
<1>7. Clocks'
  BY <1>1, <1>2, <1>4 DEF Clocks
<1>8. Sheet'
  BY <1>1, <1>4 DEF Sheet, Printed
<1> QED
  BY <1>1, <1>3, <1>5, <1>6, <1>7, <1>8 DEF Types

LEMMA StoreCidInv ==
  ASSUME MyTimeInv, StoreCid, UNCHANGED <<walkVars, mytimeVars>>
  PROVE  MyTimeInv'
<1> USE DEF MyTimeInv
<1>1. /\ WalkTypes' /\ OwnTypes' /\ now \in Nat /\ cpu \in Nat /\ waited \in Nat
      /\ UNCHANGED <<mat, tool, begun, shown, wat>>
  BY SameOthers
<1>2. /\ tat = "store" /\ tat' = "wait" /\ cid' = forked
      /\ UNCHANGED <<now, secs, due, forked, cmd, deaf, cpu, waited, victims>>
  BY DEF StoreCid
<1>3. TimeoutType'
  BY <1>1, <1>2 DEF Types, TimeoutType
<1>4. victims = {} /\ mat \notin {"args", "fork", "print", "ended"} /\ tool = "mytimeout"
  BY <1>2 DEF Signals, Clocks, Types, OwnTypes
<1>5. Command'
  BY <1>2 DEF Command
<1>6. Signals'
  BY <1>2, <1>4 DEF Signals, OnlyTheCommandIsKilled, OutlivesOnlyIfMissed
<1>7. Clocks'
  BY <1>1, <1>2, <1>4 DEF Clocks
<1>8. Sheet'
  BY <1>1, <1>4 DEF Sheet, Printed
<1> QED
  BY <1>1, <1>3, <1>5, <1>6, <1>7, <1>8 DEF Types

LEMMA WaitCommandInv ==
  ASSUME MyTimeInv, WaitCommand, UNCHANGED <<walkVars, mytimeVars>>
  PROVE  MyTimeInv'
<1> USE DEF MyTimeInv
<1>1. /\ WalkTypes' /\ OwnTypes' /\ now \in Nat /\ cpu \in Nat /\ waited \in Nat
      /\ UNCHANGED <<mat, tool, begun, shown, wat>>
  BY SameOthers
<1>2. /\ tat = "wait" /\ tat' = "return"
      /\ \/ cid = Failed /\ UNCHANGED <<cmd, waited>>
         \/ cid = Child /\ cmd = "zombie" /\ cmd' = "reaped" /\ waited' = cpu
      /\ UNCHANGED <<now, secs, due, forked, cid, deaf, cpu, victims>>
  BY DEF WaitCommand
<1>3. TimeoutType'
  BY <1>1, <1>2 DEF Types, TimeoutType
<1>4. victims = {} /\ mat \notin {"args", "fork", "print", "ended"} /\ tool = "mytimeout"
  BY <1>2 DEF Signals, Clocks, Types, OwnTypes
<1>5. Command'
  BY <1>2 DEF Command, Child, Failed
<1>6. Signals'
  BY <1>2, <1>4 DEF Signals, OnlyTheCommandIsKilled, OutlivesOnlyIfMissed
<1>7. Clocks'
  BY <1>1, <1>2, <1>4 DEF Clocks, Command
<1>8. Sheet'
  BY <1>1, <1>4 DEF Sheet, Printed
<1> QED
  BY <1>1, <1>3, <1>5, <1>6, <1>7, <1>8 DEF Types

\* Leaving, and being interrupted.
LEMMA LeaveInv ==
  ASSUME MyTimeInv, Leave \/ Alarm, UNCHANGED <<walkVars, mytimeVars>>
  PROVE  MyTimeInv'
<1> USE DEF MyTimeInv
<1>1. /\ WalkTypes' /\ OwnTypes' /\ now \in Nat /\ cpu \in Nat /\ waited \in Nat
      /\ UNCHANGED <<mat, tool, begun, shown, wat>>
  BY SameOthers
<1>2. /\ tat \in {"fork", "store", "wait", "return"}
      /\ \/ tat = "return" /\ tat' = "ended"
         \/ tat' = "handler" /\ due # Never /\ now >= due
      /\ UNCHANGED <<now, secs, due, forked, cid, cmd, deaf, cpu, waited, victims>>
  BY DEF Leave, Alarm
<1>3. TimeoutType'
  BY <1>1, <1>2 DEF Types, TimeoutType
<1>4. victims = {} /\ mat \notin {"args", "fork", "print", "ended"} /\ tool = "mytimeout"
  BY <1>2 DEF Signals, Clocks, Types, OwnTypes
<1>5. Command'
  BY <1>2 DEF Command
<1>6. Signals'
  BY <1>2, <1>4 DEF Signals, Command, OnlyTheCommandIsKilled, OutlivesOnlyIfMissed
<1>7. Clocks'
  BY <1>1, <1>2, <1>4 DEF Clocks
<1>8. Sheet'
  BY <1>1, <1>4 DEF Sheet, Printed
<1> QED
  BY <1>1, <1>3, <1>5, <1>6, <1>7, <1>8 DEF Types

LEMMA HandlerInv ==
  ASSUME MyTimeInv, Handler, UNCHANGED <<walkVars, mytimeVars>>
  PROVE  MyTimeInv'
<1> USE DEF MyTimeInv
<1>1. /\ WalkTypes' /\ OwnTypes' /\ now \in Nat /\ cpu \in Nat /\ waited \in Nat
      /\ UNCHANGED <<mat, tool, begun, shown, wat>>
  BY SameOthers
<1>2. /\ tat = "handler" /\ tat' = "ended"
      /\ UNCHANGED <<now, secs, due, forked, cid, deaf, cpu, waited>>
  BY DEF Handler
<1>3. victims = {} /\ mat \notin {"args", "fork", "print", "ended"} /\ tool = "mytimeout"
      /\ due # Never /\ now >= due
  BY <1>2 DEF Signals, Clocks, Types, OwnTypes
<1>4. \/ cid = 0 /\ cmd' = cmd /\ victims' = {}
      \/ cid = Failed /\ cmd' = cmd /\ victims' = {"everybody"}
      \/ /\ cid = Child /\ cmd \in {"born", "runs", "zombie"} /\ victims' = {"command"}
         /\ cmd' = IF cmd = "runs" /\ deaf THEN cmd ELSE "gone"
      \/ cid = Child /\ cmd = "reaped" /\ cmd' = cmd /\ victims' \in {{}, {"stranger"}}
  BY <1>3 DEF Handler
<1>5. cid \in {0, forked} /\ (forked = Child <=> cmd # "none")
      /\ (cmd = "reaped" => cid = Child) /\ cmd # "gone" /\ forked \in {Failed, 0, Child}
      /\ cmd \in {"none", "born", "runs", "zombie", "reaped", "gone"}
  BY <1>2 DEF Command, Types, TimeoutType
<1>6. TimeoutType'
  BY <1>1, <1>2, <1>4 DEF Types, TimeoutType
<1>7. Command'
  BY <1>2, <1>4, <1>5 DEF Command
<1>8. Signals'
  <2>1. OnlyTheCommandIsKilled'
    BY <1>2, <1>4, <1>5 DEF OnlyTheCommandIsKilled, Failed
  <2>2. OutlivesOnlyIfMissed'
    BY <1>2, <1>4, <1>5 DEF OutlivesOnlyIfMissed, Failed, Child
  <2>3. cmd' \in {"none", "born"} => deaf' = FALSE
    BY <1>2, <1>4 DEF Signals
  <2>4. "command" \in victims' => cmd' # "reaped"
    BY <1>4
  <2> QED
    BY <1>2, <2>1, <2>2, <2>3, <2>4 DEF Signals
<1>9. Clocks'
  BY <1>1, <1>2, <1>3, <1>4 DEF Clocks
<1>10. Sheet'
  BY <1>1, <1>3 DEF Sheet, Printed
<1> QED
  BY <1>1, <1>6, <1>7, <1>8, <1>9, <1>10 DEF Types

LEMMA RunCommandInv ==
  ASSUME MyTimeInv, RunCommand, UNCHANGED <<walkVars, mytimeVars>>
  PROVE  MyTimeInv'
<1> USE DEF MyTimeInv
<1>1. /\ WalkTypes' /\ OwnTypes' /\ now \in Nat /\ cpu \in Nat /\ waited \in Nat
      /\ UNCHANGED <<mat, tool, begun, shown, wat>>
  BY SameOthers
<1>2. /\ cmd \in {"born", "runs"} /\ UNCHANGED <<now, tat, secs, due, forked, cid, cpu, waited, victims>>
      /\ \/ cmd = "born" /\ cmd' = "runs" /\ deaf' \in BOOLEAN
         \/ cmd' = (IF tat = "ended" THEN "gone" ELSE "zombie") /\ UNCHANGED deaf
  BY DEF RunCommand
<1>3. deaf' \in BOOLEAN
  BY <1>2 DEF Types, TimeoutType
<1>4. TimeoutType'
  BY <1>1, <1>2, <1>3 DEF Types, TimeoutType
<1>5. Command'
  BY <1>2 DEF Command
<1>6. Signals'
  <2>1. OnlyTheCommandIsKilled'
    BY <1>2 DEF Signals, OnlyTheCommandIsKilled
  <2>2. OutlivesOnlyIfMissed'
    BY <1>2 DEF Signals, OutlivesOnlyIfMissed
  <2> QED
    BY <1>2, <2>1, <2>2 DEF Signals
<1>7. Clocks'
  BY <1>1, <1>2 DEF Clocks
<1>8. Sheet'
  BY <1>1, <1>2 DEF Sheet, Printed
<1> QED
  BY <1>1, <1>4, <1>5, <1>6, <1>7, <1>8 DEF Types
LEMMA TickInv ==
  ASSUME MyTimeInv, Tick, UNCHANGED <<walkVars, mytimeVars>>
  PROVE  MyTimeInv'
<1> USE DEF MyTimeInv
<1>1. /\ WalkTypes' /\ OwnTypes' /\ now \in Nat /\ cpu \in Nat /\ waited \in Nat
      /\ UNCHANGED <<mat, tool, begun, shown, wat>>
  BY SameOthers
<1>2. PICK u \in 0 .. Processors : cpu' = cpu + u
  BY TimeoutAssumption DEF Tick
<1>3. /\ now' = now + 1 /\ now < IF due = Never THEN Latest ELSE End
      /\ UNCHANGED <<tat, secs, due, forked, cid, cmd, deaf, waited, victims>>
  BY DEF Tick, timeoutVars
<1>10. cmd # "runs" => cpu' = cpu
  BY <1>1 DEF Tick
<1>4. /\ begun \in Nat /\ begun <= now /\ cpu <= Processors * (now - begun)
      /\ now \in Start .. End /\ Processors \in Nat
  BY TimeoutAssumption DEF Clocks, Types, TimeoutType, OwnTypes
<1>5. TimeoutType'
  <2>1. now' \in Start .. End
    BY <1>3, <1>4, TimeoutAssumption, ClockAssumption
  <2>2. cpu' \in Nat /\ cpu' >= cpu
    BY <1>1, <1>2, <1>4
  <2>3. waited' \in 0 .. cpu'
    BY <1>1, <1>3, <2>2 DEF Types, TimeoutType
  <2> QED
    BY <1>3, <2>1, <2>2, <2>3 DEF Types, TimeoutType
<1>6. Command'
  BY <1>3 DEF Command
<1>7. Signals'
  BY <1>3 DEF Signals, OnlyTheCommandIsKilled, OutlivesOnlyIfMissed
<1>8. Clocks'
  <2>1. begun' <= now' /\ cpu' <= Processors * (now' - begun')
    <3> DEFINE n == now - begun
    <3>1. n \in Nat /\ now' - begun' = n + 1 /\ begun' <= now'
      BY <1>1, <1>3, <1>4
    <3>2. cpu <= Processors * n
      BY <1>4
    <3> HIDE DEF n
    <3>3. Processors * n \in Nat /\ Processors * (n + 1) = Processors * n + Processors
      BY <3>1, Usable
    <3> QED
      BY <1>1, <1>2, <1>4, <3>1, <3>2, <3>3
  <2>2. (due # Never => due >= begun + secs * Unit)' /\ due' \in {Never} \union Nat
    BY <1>1, <1>3 DEF Clocks, Types, TimeoutType
  <2>3. (tat = "handler" \/ victims # {} => due # Never /\ now >= due)'
    BY <1>1, <1>3, <2>2 DEF Clocks
  <2>4. /\ (cmd \in {"none", "born"} => cpu = 0)'
        /\ (waited = IF cmd = "reaped" THEN cpu ELSE 0)'
    BY <1>1, <1>3, <1>10 DEF Clocks
  <2> QED
    BY <1>1, <1>3, <2>1, <2>2, <2>3, <2>4 DEF Clocks
<1>9. Sheet'
  BY <1>1, <1>3 DEF Sheet, Printed
<1> QED
  BY <1>1, <1>5, <1>6, <1>7, <1>8, <1>9 DEF Types

-----------------------------------------------------------------------------
(* mytime                                                                  *)

LEMMA InitInv ==
  ASSUME Init
  PROVE  MyTimeInv
<1>1. /\ now = Start /\ tat = "off" /\ secs = 0 /\ due = Never /\ forked = 0 /\ cid = 0
      /\ cmd = "none" /\ deaf = FALSE /\ cpu = 0 /\ waited = 0 /\ victims = {}
  BY DEF Init, TimeoutInit
<1>2. mat = "args" /\ tool \in Tools /\ begun = 0 /\ shown = NoTimes /\ wat = "off"
  BY DEF Init, WalkInit
<1>3. TimeoutType
  <2>1. End - Start \in Nat /\ Start \in Nat /\ End \in Nat
    BY ClockAssumption, TimeoutAssumption
  <2>2. deaf \in BOOLEAN
    BY <1>1
  <2>3. {forked, cid} \subseteq {Failed, 0, Child} /\ secs \in Seconds \union {0}
    BY <1>1
  <2>4. now \in Start .. End /\ cpu \in Nat /\ waited \in 0 .. cpu
    BY <1>1, <2>1, TimeoutAssumption
  <2> QED
    BY <1>1, <2>2, <2>3, <2>4 DEF TimeoutType
<1>4. WalkTypes
  <2>1. /\ prog = "none" /\ dirOf \in [Entries -> Places] /\ mtime \in [Files -> Nat]
        /\ stack = <<>> /\ current_time = 0 /\ mod_count = [n \in 0 .. NUM_HOURS - 1 |-> 0]
        /\ dirDepth = 0
    BY WalkAssumption DEF Init, WalkInit
  <2>2. moved = {} /\ modified = {} /\ changes = 0
    BY DEF Init, WalkInit
  <2> QED
    BY <1>2, <2>1, <2>2, WalkAssumption DEF WalkTypes
<1>5. OwnTypes
  BY <1>2 DEF OwnTypes, NoTimes
<1>6. Command /\ Signals /\ Sheet
  BY <1>1, <1>2 DEF Command, Signals, Sheet, Printed, Child, OnlyTheCommandIsKilled,
                   OutlivesOnlyIfMissed
<1>7. Clocks
  <2>1. now - begun \in Nat /\ begun <= now
    BY <1>1, <1>2, ClockAssumption
  <2>2. cpu <= Processors * (now - begun)
    BY <1>1, <2>1, Usable
  <2> QED
    BY <1>1, <1>2, <2>1, <2>2 DEF Clocks
<1> QED
  BY <1>3, <1>4, <1>5, <1>6, <1>7 DEF MyTimeInv, Types
\* What mytimeout and its command have to do with time is theirs alone.
LEMMA SameTimeout ==
  ASSUME Types, UNCHANGED <<now, cpu, secs, due, forked, cid, cmd, deaf, waited, victims>>,
         tat' \in {tat, "args"}
  PROVE  TimeoutType' /\ now \in Nat /\ cpu \in Nat /\ waited \in Nat
<1>1. TimeoutType'
  BY DEF Types, TimeoutType
<1> QED
  BY <1>1, ClockAssumption DEF Types, TimeoutType

LEMMA ReadBeginInv ==
  ASSUME MyTimeInv, ReadBegin
  PROVE  MyTimeInv'
<1> USE DEF MyTimeInv
<1>1. /\ mat = "args"
      /\ (mat' = "ended" /\ begun' = begun) \/ (mat' = "fork" /\ begun' = now)
      /\ UNCHANGED <<now, cpu, tool, shown, wat>>
      /\ UNCHANGED <<tat, secs, due, forked, cid, cmd, deaf, waited, victims>>
  BY DEF ReadBegin, timeoutVars, walkVars
<1>2. TimeoutType' /\ now \in Nat /\ cpu \in Nat /\ waited \in Nat
  BY <1>1, SameTimeout
<1>3. WalkTypes'
  BY DEF Types, WalkTypes, ReadBegin, walkVars, fileVars
<1>4. OwnTypes'
  BY <1>1, <1>2 DEF Types, OwnTypes
<1>5. tat = "off" /\ cmd = "none" /\ cpu = 0 /\ due = Never /\ victims = {}
      /\ shown = NoTimes /\ wat = "off"
  BY <1>1 DEF Clocks, Command, Signals, Sheet, Child
<1>6. Command' /\ Sheet'
  BY <1>1, <1>5 DEF Command, Sheet, Printed
<1>7. Signals'
  BY <1>1 DEF Signals, OnlyTheCommandIsKilled, OutlivesOnlyIfMissed
<1>8. Clocks'
  <2>1. now \in Start .. End /\ begun \in Nat
    BY DEF Types, TimeoutType, OwnTypes
  <2>2. begun <= now /\ cpu <= Processors * (now - begun)
    BY DEF Clocks
  <2>3. begun' <= now' /\ cpu' <= Processors * (now' - begun')
    <3>1. CASE begun' = begun
      BY <1>1, <2>2, <3>1
    <3>2. CASE begun' = now
      <4>1. now' - begun' = 0 /\ begun' <= now' /\ cpu' = 0
        BY <1>1, <1>2, <1>5, <3>2
      <4> QED
        BY <4>1, Usable
    <3> QED
      BY <1>1, <3>1, <3>2
  <2> QED
    BY <1>1, <1>2, <1>5, <2>1, <2>3, ClockAssumption, TimeoutAssumption DEF Clocks
<1> QED
  BY <1>2, <1>3, <1>4, <1>6, <1>7, <1>8 DEF Types

LEMMA ForkToolInv ==
  ASSUME MyTimeInv, ForkTool
  PROVE  MyTimeInv'
<1> USE DEF MyTimeInv
<1>1. /\ mat = "fork" /\ mat' \in {"ended", "wait"} /\ tat' \in {tat, "args"}
      /\ tat' = "args" => mat' = "wait" /\ tool = "mytimeout"
      /\ UNCHANGED <<now, cpu, secs, due, forked, cid, cmd, deaf, waited, victims, tool, begun, shown>>
  BY DEF ForkTool, Clocks
<1>2. TimeoutType' /\ now \in Nat /\ cpu \in Nat /\ waited \in Nat
  BY <1>1, SameTimeout
<1>3. WalkTypes'
  <2>1. /\ wat = "off"
        /\ UNCHANGED <<prog, wat>> \/ (prog' \in {"mytree", "mymtimes"} /\ wat' = "args")
        /\ UNCHANGED <<stack, current_time, mod_count, dirDepth>>
    BY <1>1 DEF ForkTool, Clocks
  <2>2. UNCHANGED <<dirOf, mtime, moved, modified, changes>>
    BY DEF ForkTool, fileVars
  <2> QED
    BY <2>1, <2>2 DEF Types, WalkTypes
<1>4. OwnTypes'
  BY <1>1 DEF Types, OwnTypes
<1>5. tat = "off" /\ cmd = "none" /\ cpu = 0 /\ due = Never /\ victims = {}
      /\ shown = NoTimes /\ forked = 0 /\ cid = 0
  BY <1>1 DEF Clocks, Command, Signals, Sheet, Child
<1>6. Command' /\ Sheet'
  BY <1>1, <1>5 DEF Command, Sheet, Printed, Child
<1>7. Signals'
  BY <1>1, <1>5 DEF Signals, OnlyTheCommandIsKilled, OutlivesOnlyIfMissed
<1>8. Clocks'
  BY <1>1, <1>2, <1>5 DEF Clocks
<1> QED
  BY <1>2, <1>3, <1>4, <1>6, <1>7, <1>8 DEF Types

LEMMA WaitToolInv ==
  ASSUME MyTimeInv, WaitTool
  PROVE  MyTimeInv'
<1> USE DEF MyTimeInv
<1>1. /\ mat = "wait" /\ mat' = "print" /\ UNCHANGED <<now, cpu, tool, begun, shown, wat>>
      /\ UNCHANGED <<tat, secs, due, forked, cid, cmd, deaf, waited, victims>>
      /\ tool = "mytimeout" => tat = "ended"
  BY DEF WaitTool, timeoutVars, walkVars
<1>2. TimeoutType' /\ now \in Nat /\ cpu \in Nat /\ waited \in Nat
  BY <1>1, SameTimeout
<1>3. WalkTypes'
  BY DEF Types, WalkTypes, WaitTool, walkVars, fileVars
<1>4. OwnTypes'
  BY <1>1 DEF Types, OwnTypes
<1>5. Command' /\ Sheet'
  BY <1>1 DEF Command, Sheet, Printed
<1>6. Signals'
  BY <1>1 DEF Signals, OnlyTheCommandIsKilled, OutlivesOnlyIfMissed
<1>7. Clocks'
  BY <1>1, <1>2 DEF Clocks
<1> QED
  BY <1>2, <1>3, <1>4, <1>5, <1>6, <1>7 DEF Types

\* What is printed: the difference of two readings of the clock between which the
\* alarm was set and went off, and the usage of children.
LEMMA PrintTimesInv ==
  ASSUME MyTimeInv, PrintTimes
  PROVE  MyTimeInv'
<1> USE DEF MyTimeInv
<1>1. /\ mat = "print" /\ mat' = "ended" /\ UNCHANGED <<now, cpu, tool, begun, wat>>
      /\ UNCHANGED <<tat, secs, due, forked, cid, cmd, deaf, waited, victims>>
      /\ shown' = [sec |-> tv_sec(now) - tv_sec(begun),
                   usec |-> tv_usec(now) - tv_usec(begun), user |-> waited]
  BY DEF PrintTimes, Times, timeoutVars, walkVars
<1>2. TimeoutType' /\ now \in Nat /\ cpu \in Nat /\ waited \in Nat
  BY <1>1, SameTimeout
<1>3. WalkTypes'
  BY DEF Types, WalkTypes, PrintTimes, walkVars, fileVars
<1>4. begun \in Nat /\ begun <= now /\ cpu <= Processors * (now - begun) /\ waited \in 0 .. cpu
  BY DEF Types, TimeoutType, OwnTypes, Clocks
<1>5. /\ shown'.sec \in Int /\ shown'.usec \in Int /\ shown'.user = waited
      /\ shown'.sec = tv_sec(now) - tv_sec(begun)
      /\ shown'.sec * Unit + shown'.usec = now - begun
  BY <1>1, <1>2, <1>4, FieldsDiffer
<1>6. shown' \in [sec : Int, usec : Int, user : Nat]
  BY <1>1, <1>2, <1>5
<1>7. OwnTypes'
  BY <1>1, <1>6 DEF Types, OwnTypes
<1>8. Command'
  BY <1>1 DEF Command
<1>9. Signals'
  BY <1>1 DEF Signals, OnlyTheCommandIsKilled, OutlivesOnlyIfMissed
<1>10. Clocks'
  BY <1>1, <1>2 DEF Clocks
<1>11. Sheet'
  <2>1. ASSUME victims # {} PROVE shown'.sec >= secs
    <3>1. secs \in Nat /\ due \in Nat /\ now >= due /\ due >= begun + secs * Unit
      BY <2>1, TimeoutAssumption DEF Clocks, Types, TimeoutType
    <3>2. secs * Unit \in Nat
      BY <3>1, ClockAssumption, Products
    <3>3. now >= begun + secs * Unit
      BY <1>2, <1>4, <3>1, <3>2
    <3> QED
      BY <1>2, <1>4, <1>5, <3>1, <3>3, SecondsPass
  <2>2. waited <= Processors * (shown'.sec * Unit + shown'.usec)
    <3>1. Processors * (now - begun) \in Nat
      BY <1>2, <1>4, Usable
    <3>2. waited <= Processors * (now - begun)
      BY <1>2, <1>4, <3>1
    <3> QED
      BY <1>5, <3>2
  <2> QED
    BY <1>1, <1>5, <2>1, <2>2 DEF Sheet, Printed
<1> QED
  BY <1>2, <1>3, <1>7, <1>8, <1>9, <1>10, <1>11 DEF Types

\* The walks and those who change files touch nothing else.
LEMMA WalksInv ==
  ASSUME MyTimeInv, (Walker \/ Others) \/ UNCHANGED walkVars,
         UNCHANGED <<now, cpu, timeoutVars, mytimeVars>>
  PROVE  MyTimeInv'
<1> USE DEF MyTimeInv
<1>1. /\ UNCHANGED <<now, cpu, mat, tool, begun, shown>>
      /\ UNCHANGED <<tat, secs, due, forked, cid, cmd, deaf, waited, victims>>
  BY DEF timeoutVars, mytimeVars
<1>2. TimeoutType' /\ now \in Nat /\ cpu \in Nat /\ waited \in Nat
  BY <1>1, SameTimeout
<1>3. WalkTypes'
  <2>1. CASE UNCHANGED walkVars
    BY <2>1 DEF Types, WalkTypes, walkVars, fileVars
  <2> QED
    BY <1>2, <2>1, WalkerTypes, OthersTypes DEF Types
<1>4. wat = "off" => wat' = "off"
  BY DEF Walker, BeginWalk, NextEntry, EndDir, EndWalk, Others, walkVars
<1>5. OwnTypes' /\ Command' /\ Sheet'
  BY <1>1 DEF Types, OwnTypes, Command, Sheet, Printed
<1>6. Signals'
  BY <1>1 DEF Signals, OnlyTheCommandIsKilled, OutlivesOnlyIfMissed
<1>7. Clocks'
  BY <1>1, <1>4 DEF Clocks
<1> QED
  BY <1>2, <1>3, <1>5, <1>6, <1>7 DEF Types

LEMMA NextInv ==
  ASSUME MyTimeInv, [Next]_vars
  PROVE  MyTimeInv'
<1>1. CASE MyTimeStep
  BY <1>1, ReadBeginInv, ForkToolInv, WaitToolInv, PrintTimesInv DEF MyTimeStep
<1>2. CASE (MyTimeout \/ RunCommand) /\ UNCHANGED <<walkVars, mytimeVars>>
  BY <1>2, SetAlarmInv, ForkCommandInv, StoreCidInv, WaitCommandInv, LeaveInv, HandlerInv,
     RunCommandInv DEF MyTimeout
<1>3. CASE (Walker \/ Others) /\ UNCHANGED <<now, cpu, timeoutVars, mytimeVars>>
  BY <1>3, WalksInv
<1>4. CASE Tick /\ UNCHANGED <<walkVars, mytimeVars>>
  BY <1>4, TickInv
<1>5. CASE UNCHANGED vars
  BY <1>5, WalksInv DEF vars
<1> QED
  BY <1>1, <1>2, <1>3, <1>4, <1>5 DEF Next, Over

\* The walks start when mytime has forked, and only they and the others do anything
\* to what they see and have done.
LEMMA NextWalkInv ==
  ASSUME MyTimeInv, WalkInv, [Next]_vars
  PROVE  WalkInv'
<1>1. WalkTypes' /\ now \in Nat
  BY NextInv, ClockAssumption DEF MyTimeInv, Types, TimeoutType
<1>2. CASE UNCHANGED walkVars
  BY <1>1, <1>2, StillInv DEF walkVars, fileVars
<1>3. CASE ForkTool
  <2>1. wat = "off"
    BY <1>3 DEF MyTimeInv, Clocks, ForkTool
  <2>2. UNCHANGED <<stack, mod_count, lines, dirOf, mtime, current_time, moved, modified, changes>>
    BY <1>3 DEF ForkTool, fileVars
  <2>3. UNCHANGED <<prog, wat>> \/ wat' = "args"
    BY <1>3 DEF ForkTool
  <2> QED
    BY <1>1, <2>1, <2>2, <2>3, StillInv
<1>4. CASE Walker \/ Others
  BY <1>1, <1>4, WalkerInv, OthersInv
<1> QED
  BY <1>2, <1>3, <1>4 DEF Next, Over, vars, MyTimeStep, ReadBegin, WaitTool, PrintTimes

-----------------------------------------------------------------------------
(* Theorems                                                                *)

LEMMA MyTimeInvariant == Spec => []MyTimeInv
<1>1. Init => MyTimeInv
  BY InitInv
<1>2. MyTimeInv /\ [Next]_vars => MyTimeInv'
  BY NextInv
<1> QED
  BY <1>1, <1>2, PTL DEF Spec

LEMMA WalkInvariant == Spec => []WalkInv
<1>1. Init => WalkInv
  BY WalkInitInv DEF Init
<1>2. MyTimeInv /\ WalkInv /\ [Next]_vars => WalkInv'
  BY NextWalkInv
<1> QED
  BY <1>1, <1>2, MyTimeInvariant, PTL DEF Spec

\* Every variable of mytime, mytimeout and the walks has its type; dirDepth
\* (mytree.c) is always the number of directories that are open below the first.
THEOREM MyTimeTypes == Spec => []TypeOK
<1>1. MyTimeInv => TypeOK
  BY TypesSuffice DEF MyTimeInv
<1> QED
  BY <1>1, MyTimeInvariant, PTL

\* SIGTERM reaches nobody but the command, unless fork has failed or the command's
\* pid was free again (mytimeout.c:15, 23, 30), wherever SIGALRM came.
THEOREM KilledTheorem == Spec => []OnlyTheCommandIsKilled
<1>1. MyTimeInv => OnlyTheCommandIsKilled
  BY DEF MyTimeInv, Signals
<1> QED
  BY <1>1, MyTimeInvariant, PTL

\* A command outlives mytimeout only if it ignores SIGTERM, or if the alarm came
\* between fork and the assignment to cid (mytimeout.c:11-15).
THEOREM OutlivesTheorem == Spec => []OutlivesOnlyIfMissed
<1>1. MyTimeInv => OutlivesOnlyIfMissed
  BY DEF MyTimeInv, Signals
<1> QED
  BY <1>1, MyTimeInvariant, PTL

\* mytime shows all of the processor time of a command that mytimeout has waited for
\* and none of one that the alarm has ended, at least the seconds of an alarm that
\* went off, and no more processor time than all processors had from the first
\* reading of the clock to the second (mytime.c:22, 36-39).
THEOREM TimesTheorem == Spec => []TimesAreOfTheRun
<1>1. MyTimeInv => TimesAreOfTheRun
  <2> SUFFICES ASSUME MyTimeInv, Printed PROVE TimesAreOfTheRun
    BY DEF TimesAreOfTheRun
  <2>1. "command" \in victims => cmd # "reaped"
    BY DEF MyTimeInv, Signals
  <2>2. /\ shown.user = waited
        /\ victims # {} => shown.sec >= secs
        /\ waited <= Processors * (shown.sec * Unit + shown.usec)
        /\ waited = IF cmd = "reaped" THEN cpu ELSE 0
    BY DEF MyTimeInv, Clocks, Sheet
  <2> QED
    BY <2>1, <2>2 DEF TimesAreOfTheRun
<1> QED
  BY <1>1, MyTimeInvariant, PTL

\* When mymtimes is through (mymtimes.c:40-86), every file that nobody has touched is
\* in the count of the hour it was modified in, once, however the others have moved
\* the rest about; and for each file that they have touched a count is larger by at
\* most the number of their changes and one.
THEOREM CountTheorem == Spec => []CountsAreRight
<1>1. WalkInv => CountsAreRight
  BY InvCounts
<1> QED
  BY <1>1, WalkInvariant, PTL

\* When mytree is through (mytree.c:20-57), everything that is visible, can be reached
\* and has stayed where it was has one line, as deep as it is, below that of the
\* directory it is in, with nothing in between that is not in there too.
THEOREM ListingTheorem == Spec => []ListingIsTheTree
<1>1. WalkInv => ListingIsTheTree
  BY InvListing
<1> QED
  BY <1>1, WalkInvariant, PTL
=============================================================================

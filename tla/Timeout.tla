------------------------------ MODULE Timeout ------------------------------
(***************************************************************************)
(* mytimeout of Project2: it sets an alarm, runs a command in a child, and *)
(* waits for it.  SIGALRM may come between any two of its steps; its       *)
(* handler terminates what `cid' names and exits.                          *)
(*                                                                         *)
(* A signal may be late, never early.                                      *)
(* The command is external: it is found or not, uses as many processors as *)
(* there are or none, by its threads or by children that it waits for,     *)
(* ends by itself or never, and may be deaf to SIGTERM.                    *)
(***************************************************************************)
EXTENDS Clock

CONSTANTS Processors,  \* how many the machine has
          Seconds,     \* the first arguments, 0 for those that are refused
          Latest, End  \* bounds of the clock: while no alarm is set, and of all

ASSUME TimeoutAssumption ==
    /\ Processors \in Nat \ {0}
    /\ Seconds \subseteq Nat /\ Latest \in Nat /\ End \in Nat
    /\ Start <= Latest /\ Latest <= End
    /\ \A s \in Seconds : Latest + s * Unit <= End

VARIABLES
    tat,       \* where mytimeout is, "off" before it is started
    secs, due, \* its argument; when the alarm goes off, Never before it is set
    forked,    \* what fork has returned
    cid,       \* the global variable
    cmd,       \* the process of the command
    deaf,      \* the command ignores SIGTERM
    cpu,       \* what the command has used of the processors
    waited,    \* what of it waitpid has added to the usage of children
    victims    \* ghost: whom mytimeout has sent SIGTERM

timeoutVars == <<tat, secs, due, forked, cid, cmd, deaf, waited, victims>>

Never  == -1
Failed == -1   \* the result of fork, and the argument of kill and of waitpid
Child  == 1    \* stands for the command's pid

TimeoutInit ==
    /\ now = Start /\ tat = "off" /\ secs = 0 /\ due = Never
    /\ forked = 0 /\ cid = 0 /\ cmd = "none" /\ deaf = FALSE
    /\ cpu = 0 /\ waited = 0 /\ victims = {}

\* Mutant: the alarm is forgotten.
SetNoAlarm ==
    /\ tat = "args"
    /\ secs' \in Seconds
    /\ tat' = IF secs' = 0 THEN "ended" ELSE "fork"
    /\ UNCHANGED <<now, due, forked, cid, cmd, deaf, cpu, waited, victims>>

(* main: arguments that are missing, or not a positive number, are refused *)
SetAlarm ==
    /\ tat = "args"
    /\ secs' \in Seconds
    /\ IF secs' = 0 THEN tat' = "ended" /\ UNCHANGED due
                    ELSE tat' = "fork" /\ due' = now + secs' * Unit
    /\ UNCHANGED <<now, forked, cid, cmd, deaf, cpu, waited, victims>>

(* executeCmd: fork returns a value that is not in cid yet *)
ForkCommand ==
    /\ tat = "fork" /\ tat' = "store"
    /\ \/ forked' = Child /\ cmd' = "born"
       \/ forked' = Failed /\ UNCHANGED cmd
    /\ UNCHANGED <<now, secs, due, cid, deaf, cpu, waited, victims>>

StoreCid ==
    /\ tat = "store" /\ tat' = "wait" /\ cid' = forked
    /\ UNCHANGED <<now, secs, due, forked, cmd, deaf, cpu, waited, victims>>

(* waitpid: it returns at once when fork has failed *)
WaitCommand ==
    /\ tat = "wait" /\ tat' = "return"
    /\ \/ cid = Failed /\ UNCHANGED <<cmd, waited>>
       \/ cid = Child /\ cmd = "zombie" /\ cmd' = "reaped" /\ waited' = cpu
    /\ UNCHANGED <<now, secs, due, forked, cid, deaf, cpu, victims>>

Leave ==
    /\ tat = "return" /\ tat' = "ended"
    /\ UNCHANGED <<now, secs, due, forked, cid, cmd, deaf, cpu, waited, victims>>

(* SIGALRM interrupts the program wherever it is *)
Alarm ==
    /\ tat \in {"fork", "store", "wait", "return"} /\ due # Never /\ now >= due
    /\ tat' = "handler"
    /\ UNCHANGED <<now, secs, due, forked, cid, cmd, deaf, cpu, waited, victims>>

\* Mutants: no test of cid, so that kill(0) reaches the whole process group;
\* nothing is killed.
HandlerUnchecked ==
    /\ tat = "handler" /\ tat' = "ended"
    /\ victims' = victims \union {IF cid = 0 THEN "group" ELSE "command"}
    /\ UNCHANGED <<now, secs, due, forked, cid, cmd, deaf, cpu, waited>>

HandlerOnlyExits ==
    /\ tat = "handler" /\ tat' = "ended"
    /\ UNCHANGED <<now, secs, due, forked, cid, cmd, deaf, cpu, waited, victims>>

(* sig_handler: kill(-1) signals every process of the user; the pid of a    *)
(* command that was waited for may be another process by now               *)
Handler ==
    /\ tat = "handler" /\ tat' = "ended"
    /\ \/ cid = 0 /\ UNCHANGED <<cmd, victims>>
       \/ cid = Failed /\ victims' = victims \union {"everybody"} /\ UNCHANGED cmd
       \/ /\ cid = Child /\ cmd \in {"born", "runs", "zombie"}
          /\ victims' = victims \union {"command"}
          /\ cmd' = IF cmd = "runs" /\ deaf THEN cmd ELSE "gone"
       \/ /\ cid = Child /\ cmd = "reaped"
          /\ \E v \in {{}, {"stranger"}} : victims' = victims \union v
          /\ UNCHANGED cmd
    /\ UNCHANGED <<now, secs, due, forked, cid, deaf, cpu, waited>>

MyTimeout == SetAlarm \/ ForkCommand \/ StoreCid \/ WaitCommand \/ Leave \/ Alarm \/ Handler

(* The command: a name that is not found ends the child *)
RunCommand ==
    /\ cmd \in {"born", "runs"}
    /\ \/ cmd = "born" /\ cmd' = "runs" /\ deaf' \in BOOLEAN
       \/ cmd' = (IF tat = "ended" THEN "gone" ELSE "zombie") /\ UNCHANGED deaf
    /\ UNCHANGED <<now, tat, secs, due, forked, cid, cpu, waited, victims>>

(* Time passes; a command that runs may use it, on each processor *)
Tick ==
    /\ now < IF due = Never THEN Latest ELSE End
    /\ now' = now + 1
    /\ \E u \in IF cmd = "runs" THEN 0 .. Processors ELSE {0} : cpu' = cpu + u
    /\ UNCHANGED timeoutVars

TimeoutType ==
    /\ now \in Start .. End /\ due \in {Never} \union Nat
    /\ tat \in {"off", "args", "fork", "store", "wait", "return", "handler", "ended"}
    /\ secs \in Seconds \union {0} /\ {forked, cid} \subseteq {Failed, 0, Child}
    /\ cmd \in {"none", "born", "runs", "zombie", "reaped", "gone"}
    /\ deaf \in BOOLEAN /\ cpu \in Nat /\ waited \in 0 .. cpu
    /\ victims \subseteq {"command", "everybody", "stranger"}
----------------------------------------------------------------------------
(* Properties *)

(* SIGTERM goes to the command and to nobody else, but when fork has failed *)
(* (cid is -1, and kill(-1) is for everybody) and when the command has been *)
(* waited for and its pid is free (mytimeout.c:15, 23, 30).                 *)
OnlyTheCommandIsKilled ==
    victims # {} =>
        \/ victims = {"command"}
        \/ victims = {"everybody"} /\ forked = Failed
        \/ victims = {"stranger"} /\ cmd = "reaped"

(* The comment of mytimeout.c:11 says the alarm kills the child.  A command *)
(* outlives mytimeout only if it is deaf to SIGTERM, or if the alarm came   *)
(* after fork and before its result was in cid.                             *)
OutlivesOnlyIfMissed ==
    tat = "ended" /\ cmd \in {"born", "runs"} =>
        \/ deaf /\ victims = {"command"}
        \/ cid = 0 /\ forked = Child
============================================================================

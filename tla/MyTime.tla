------------------------------- MODULE MyTime -------------------------------
(***************************************************************************)
(* mytime of Project1 with the tools it may be given: it reads the clock,  *)
(* runs the tool in a child, waits, reads the clock again and prints the   *)
(* difference and the processor time of the children, of which that of the *)
(* command is kept here.  The user starts one `mytime tool ...' line;      *)
(* mytimeout runs a command of its own, so there are up to three           *)
(* processes.                                                              *)
(***************************************************************************)
EXTENDS Timeout, Walk

CONSTANT Tools   \* what mytime may be given: "mytimeout", "mytree", "mymtimes",
                 \* "nix" for a name that is not found, "nothing"

ASSUME ToolsAssumption ==
    Tools \subseteq {"mytimeout", "mytree", "mymtimes", "nix", "nothing"}

VARIABLES
    mat, tool,   \* where mytime is, and its argument
    begun,       \* childBegin
    shown        \* what it has printed, NoTimes before

mytimeVars == <<mat, tool, begun, shown>>
vars == <<now, cpu, timeoutVars, walkVars, mytimeVars>>

NoTimes == [sec |-> 0, usec |-> 0, user |-> 0]

Init ==
    /\ TimeoutInit /\ WalkInit
    /\ mat = "args" /\ tool \in Tools /\ begun = 0 /\ shown = NoTimes

(* kill(-1) of mytimeout ends mytime too *)
Alive == "everybody" \notin victims

ReadBegin ==
    /\ mat = "args"
    /\ IF tool = "nothing" THEN mat' = "ended" /\ UNCHANGED begun
                           ELSE mat' = "fork" /\ begun' = now
    /\ UNCHANGED <<now, cpu, timeoutVars, walkVars, tool, shown>>

(* fork fails, or the child becomes the tool, or the tool is not found *)
ForkTool ==
    /\ mat = "fork"
    /\ \/ mat' = "ended" /\ UNCHANGED <<tat, prog, wat>>
       \/ /\ mat' = "wait"
          /\ tat' = IF tool = "mytimeout" THEN "args" ELSE tat
          /\ IF tool \in {"mytree", "mymtimes"} THEN prog' = tool /\ wat' = "args"
                                               ELSE UNCHANGED <<prog, wat>>
    /\ UNCHANGED <<now, cpu, secs, due, forked, cid, cmd, deaf, waited, victims, stack,
                   current_time, mod_count, dirDepth, lines, fileVars, tool, begun, shown>>

(* waitpid *)
WaitTool ==
    /\ mat = "wait" /\ Alive /\ mat' = "print"
    /\ \/ tool = "mytimeout" /\ tat = "ended"
       \/ tool \in {"mytree", "mymtimes"} /\ wat = "ended"
       \/ tool = "nix"
    /\ UNCHANGED <<now, cpu, timeoutVars, walkVars, tool, begun, shown>>

\* Mutant: the usage is that of the command, waited for or not.
TimesOfAll == [sec |-> tv_sec(now) - tv_sec(begun),
               usec |-> tv_usec(now) - tv_usec(begun), user |-> cpu]

(* The seconds and the microseconds are subtracted each on their own;      *)
(* RUSAGE_CHILDREN has the descendants that were waited for                *)
Times == [sec |-> tv_sec(now) - tv_sec(begun),
          usec |-> tv_usec(now) - tv_usec(begun), user |-> waited]

PrintTimes ==
    /\ mat = "print" /\ mat' = "ended" /\ shown' = Times
    /\ UNCHANGED <<now, cpu, timeoutVars, walkVars, tool, begun>>

MyTimeStep == ReadBegin \/ ForkTool \/ WaitTool \/ PrintTimes

(* mytime is gone: the only way the line ends *)
Over == /\ mat = "ended" \/ ~Alive
        /\ UNCHANGED vars

Next ==
    \/ MyTimeStep
    \/ (MyTimeout \/ RunCommand) /\ UNCHANGED <<walkVars, mytimeVars>>
    \/ (Walker \/ Others) /\ UNCHANGED <<now, cpu, timeoutVars, mytimeVars>>
    \/ Tick /\ UNCHANGED <<walkVars, mytimeVars>>
    \/ Over

(* Each process is scheduled and time passes.  Commands need not end, and  *)
(* nobody has to change a file.                                            *)
Fairness ==
    /\ WF_vars(MyTimeStep)
    /\ WF_vars(MyTimeout /\ UNCHANGED <<walkVars, mytimeVars>>)
    /\ WF_vars(Walker /\ UNCHANGED <<now, cpu, timeoutVars, mytimeVars>>)
    /\ WF_vars(Tick /\ UNCHANGED <<walkVars, mytimeVars>>)

Spec == Init /\ [][Next]_vars /\ Fairness
----------------------------------------------------------------------------
(* Properties *)

TypeOK ==
    /\ TimeoutType /\ WalkType
    /\ mat \in {"args", "fork", "wait", "print", "ended"} /\ tool \in Tools
    /\ begun \in Nat /\ shown \in [sec : Int, usec : Int, user : Nat]

Printed == mat = "ended" /\ shown # NoTimes

(* The two times that mytime prints are of one run.  All that the command   *)
(* of mytimeout has used is shown when mytimeout has waited for it, and     *)
(* none of it when the alarm has ended it: the handler exits                *)
(* (mytimeout.c:15), and nobody waits.  After an alarm the seconds shown    *)
(* are no fewer than it was set to, though the fraction is not carried      *)
(* (mytime.c:38).  And what is shown as used fits into what is shown as     *)
(* elapsed, on all processors, since the clock is read before the fork and  *)
(* after the wait (22, 36): the two numbers together, the second of which   *)
(* may be below zero.                                                       *)
TimesAreOfTheRun ==
    Printed =>
        /\ cmd = "reaped" => shown.user = cpu
        /\ "command" \in victims => shown.user = 0
        /\ victims # {} => shown.sec >= secs
        /\ shown.user <= Processors * (shown.sec * Unit + shown.usec)

(* mytime ends with every tool: the walks because the tree is finite,       *)
(* mytimeout because of its alarm, also with a command that never ends.  It *)
(* does not when mytimeout kills it with all others.                        *)
ToolEnds == (mat = "args") ~> (mat = "ended" \/ ~Alive)
============================================================================

------------------------------- MODULE Shell -------------------------------
(***************************************************************************)
(* The shell of Project2: it reads a line, opens the files of its          *)
(* redirections or makes the pipes of its pipeline, and runs the commands  *)
(* ONE AFTER THE OTHER, each to its end, since waitpid is called before    *)
(* the next fork.  What goes through a pipe or a file is counted in        *)
(* chunks.  A descriptor other than 0 and 1 is named by what it refers to: *)
(* the shell's descriptors are fdo, fdi and the ends `rd' and `wr' of the  *)
(* pipes, numbered from 0 as in p_fds.                                     *)
(*                                                                         *)
(* The programs: `gen' writes some chunks and `mypwd' one, `filter' copies *)
(* its input to its output, `head' copies one chunk and ends, and every    *)
(* other name is not found.  They ignore their arguments.  The terminal is *)
(* at its end of file for them.  Directories are left out.                 *)
(***************************************************************************)
EXTENDS Integers, FiniteSets, SequencesExt

CONSTANTS Lines,     \* the lines a user may type, as sequences of tokens
          Files,     \* the names that can be opened (`>' creates them)
          Capacity,  \* chunks a pipe holds
          MaxOut,    \* the most chunks that gen writes
          MaxLeak    \* bound: no line is read once so many descriptors are lost

ASSUME ShellAssumption ==
    /\ Lines \subseteq Seq(STRING) /\ Files \subseteq STRING /\ "none" \notin Files
    /\ Capacity \in Nat \ {0} /\ MaxOut \in Nat /\ MaxLeak \in Nat

VARIABLES
    at,         \* where the shell is
    raw,        \* ghost: the line as typed
    cmds,       \* the commands of the line, token lists
    cmdIndex, pipeIndex,
    fdo, fdi,   \* the files of the redirections, None for -1
    rd, wr,     \* the pipes whose read (write) end the shell has open
    lost,       \* descriptors that no variable of the shell names any more
    buf,        \* chunks in each pipe
    files,      \* chunks in each file, Absent when there is none
    child,      \* the child the shell forked last
    emitted,    \* ghost: chunks the first command of the line has written
    shown       \* ghost: chunks the last command has written to a file or terminal

shell == <<at, raw, cmds, cmdIndex, pipeIndex, fdo, fdi, rd, wr, lost>>
world == <<buf, files, emitted, shown>>
vars  == <<shell, world, child>>

None     == "none"
Absent   == -1
Tty      == <<"tty">>
Closed   == <<"closed">>
Pipe(i)  == <<"pipe", i>>
File(f)  == <<"file", f>>
Builtins == {"myexit", "mycd"}
Writers  == {"gen", "mypwd"}
Readers  == {"filter", "head"}

(* token_present: the position of the first such token, 0 for -1 *)
Where(ts, t) == SelectInSeq(ts, LAMBDA x : x = t)

(* The token behind position i, None for the NULL at the end *)
After(ts, i) == IF i < Len(ts) THEN ts[i + 1] ELSE None

\* Mutant: the mark stays in the list.
WithoutName(ts, mark, name) == RemoveFirst(ts, name)

(* remove_tokens: for either token, the first that is EQUAL to it goes *)
Without(ts, mark, name) == RemoveFirst(RemoveFirst(ts, mark), name)

Bars(ts) == {i \in DOMAIN ts : ts[i] = "|"}

(* The k-th bar, as if there were one before and one behind the line *)
Bar(ts, k) ==
    CASE k = 0 -> 0
      [] k \in 1 .. Cardinality(Bars(ts)) ->
             CHOOSE i \in Bars(ts) : Cardinality({j \in Bars(ts) : j <= i}) = k
      [] OTHER -> Len(ts) + 1

(* executePiping: the lists between the bars *)
Split(ts) == [k \in 1 .. Cardinality(Bars(ts)) + 1 |->
                 SubSeq(ts, Bar(ts, k - 1) + 1, Bar(ts, k) - 1)]

Redirected(ts) == Where(ts, ">") # 0 \/ Where(ts, "<") # 0

NoChild == [pc |-> "none", argv |-> <<>>, pi |-> 0, in |-> Closed, out |-> Closed,
            left |-> 0, hand |-> 0, pos |-> 0, rd |-> {}, wr |-> {}]

Init ==
    /\ at = "prompt" /\ raw = <<>> /\ cmds = <<>> /\ cmdIndex = 0 /\ pipeIndex = 0
    /\ fdo = None /\ fdi = None /\ rd = {} /\ wr = {} /\ lost = 0
    /\ buf = <<>> /\ files = [f \in Files |-> Absent]
    /\ child = NoChild /\ emitted = 0 /\ shown = 0

----------------------------------------------------------------------------
(* The shell.  The local variables end with the call: what a redirection   *)
(* or a pipeline still has open then stays open, and nothing names it.     *)

StillOpen == (IF fdo = None THEN 0 ELSE 1) + (IF fdi = None THEN 0 ELSE 1)
             + Cardinality(rd) + Cardinality(wr)

BackToMain ==
    /\ at' = "prompt" /\ lost' = lost + StillOpen
    /\ fdo' = None /\ fdi' = None /\ rd' = {} /\ wr' = {}

(* process_command: builtins first (mypwd is one that is executed), then   *)
(* redirections, then pipes; a redirected line is one command, bars and all *)
ReadLine(l) ==
    /\ at = "prompt" /\ lost < MaxLeak /\ l # <<>>
    /\ raw' = l /\ cmdIndex' = 0 /\ pipeIndex' = 0 /\ emitted' = 0 /\ shown' = 0
    /\ at' = IF l[1] \in Builtins THEN l[1]
             ELSE IF l[1] # "mypwd" /\ Redirected(l) THEN "out" ELSE "fork"
    /\ LET piped == l[1] \notin Builtins \union {"mypwd"} /\ ~Redirected(l)
           n == IF piped THEN Cardinality(Bars(l)) ELSE 0
       IN /\ cmds' = IF piped THEN Split(l) ELSE <<l>>
          /\ rd' = 0 .. n - 1 /\ wr' = 0 .. n - 1
          /\ buf' = [p \in 0 .. n - 1 |-> 0]
    /\ UNCHANGED <<fdo, fdi, lost, files, child>>

(* execute_exit finds no child to wait for; end of file at the prompt exits too *)
Exit ==
    /\ at \in {"myexit", "prompt"} /\ at' = "gone"
    /\ UNCHANGED <<raw, cmds, cmdIndex, pipeIndex, fdo, fdi, rd, wr, lost, world, child>>

(* execute_cd returns, whatever became of the directory *)
ChangeDir ==
    /\ at = "mycd" /\ BackToMain
    /\ UNCHANGED <<raw, cmds, cmdIndex, pipeIndex, world, child>>

(* execute_io_redirect_command, `>': the file is created or emptied *)
OpenOut ==
    /\ at = "out"
    /\ LET i == Where(cmds[1], ">")
           f == After(cmds[1], i)
       IN \/ i = 0 /\ at' = "in" /\ UNCHANGED <<cmds, fdo, fdi, rd, wr, lost, files>>
          \/ /\ i # 0 /\ f \in Files
             /\ at' = "in" /\ fdo' = f /\ files' = [files EXCEPT ![f] = 0]
             /\ cmds' = <<Without(cmds[1], ">", f)>>
             /\ UNCHANGED <<fdi, rd, wr, lost>>
          \/ i # 0 /\ f \notin Files /\ BackToMain /\ UNCHANGED <<cmds, files>>
    /\ UNCHANGED <<raw, cmdIndex, pipeIndex, buf, child, emitted, shown>>

(* `<': the return at 58 leaves fdo open *)
OpenIn ==
    /\ at = "in"
    /\ LET i == Where(cmds[1], "<")
           f == After(cmds[1], i)
           there == f \in Files /\ files[f] # Absent
       IN \/ i = 0 /\ at' = "fork" /\ UNCHANGED <<cmds, fdo, fdi, rd, wr, lost>>
          \/ /\ i # 0 /\ there
             /\ at' = "fork" /\ fdi' = f /\ cmds' = <<Without(cmds[1], "<", f)>>
             /\ UNCHANGED <<fdo, rd, wr, lost>>
          \/ i # 0 /\ ~there /\ BackToMain /\ UNCHANGED cmds
    /\ UNCHANGED <<raw, cmdIndex, pipeIndex, world, child>>

LastOne == Len(cmds) - 1
Even == cmdIndex % 2 = 0

(* fork: the child has what the shell has open, and its own pipeIndex; a  *)
(* redirection becomes its descriptors 0 and 1, which are the terminal     *)
(* otherwise                                                               *)
Fork ==
    /\ at = "fork" /\ at' = "close"
    /\ child' = [NoChild EXCEPT !.pc = "born", !.argv = cmds[cmdIndex + 1],
                                !.pi = pipeIndex, !.rd = rd, !.wr = wr,
                                !.in  = IF fdi = None THEN Tty ELSE File(fdi),
                                !.out = IF fdo = None THEN Tty ELSE File(fdo)]
    /\ UNCHANGED <<raw, cmds, cmdIndex, pipeIndex, fdo, fdi, rd, wr, lost, world>>

\* Mutants: the write end of the first pipe, or every read end, stays open.
ShellKeepsWriteEnd ==
    [rd |-> IF ~Even \/ cmdIndex # 0 THEN rd \ {pipeIndex} ELSE rd,
     wr |-> IF cmdIndex = 0 THEN wr ELSE wr \ {pipeIndex + 1}]

ShellKeepsReadEnd ==
    [rd |-> rd, wr |-> IF Even THEN wr \ {pipeIndex} ELSE wr \ {pipeIndex + 1}]

(* What the parent has open after the closes before its wait *)
ShellKeeps ==
    IF Even
    THEN [rd |-> IF cmdIndex # 0 THEN rd \ {pipeIndex} ELSE rd, wr |-> wr \ {pipeIndex}]
    ELSE [rd |-> rd \ {pipeIndex},
          wr |-> IF cmdIndex # LastOne THEN wr \ {pipeIndex + 1} ELSE wr]

\* Mutant: the index advances with every command.
AdvancesAlways == TRUE

(* When pipeIndex advances: once for the first two commands *)
Advances == IF Even THEN cmdIndex # 0 ELSE cmdIndex # LastOne

CloseEnds ==
    /\ at = "close" /\ at' = "wait" /\ fdo' = None /\ fdi' = None
    /\ rd' = ShellKeeps.rd /\ wr' = ShellKeeps.wr
    /\ pipeIndex' = IF Advances THEN pipeIndex + 1 ELSE pipeIndex
    /\ UNCHANGED <<raw, cmds, cmdIndex, lost, world, child>>

(* waitpid returns; the next command of the pipeline, or the next line *)
Wait ==
    /\ at = "wait" /\ child.pc = "ended" /\ child' = NoChild
    /\ \/ /\ cmdIndex < LastOne /\ at' = "fork" /\ cmdIndex' = cmdIndex + 1
          /\ UNCHANGED <<fdo, fdi, rd, wr, lost>>
       \/ cmdIndex = LastOne /\ BackToMain /\ UNCHANGED cmdIndex
    /\ UNCHANGED <<raw, cmds, pipeIndex, world>>

----------------------------------------------------------------------------
(* The child.  dup2 of an end that is not open fails, and the descriptor   *)
(* that was closed before it stays closed.                                 *)

Dup(open, i) == IF i \in open THEN Pipe(i) ELSE Closed

Program(argv) == IF argv = <<>> THEN None ELSE argv[1]

\* Mutant: an odd command writes to the pipe that it reads from.
NextPipeSame(c) == c.pi

(* The pipe that a command which is not the last writes to *)
NextPipe(c) == IF Even THEN c.pi ELSE c.pi + 1

(* Input from the pipe of the command before, output to the next: dup2, and *)
(* both ends are closed                                                    *)
WireInput(c) ==
    IF cmdIndex = 0 THEN c
    ELSE [c EXCEPT !.in = Dup(c.rd, c.pi), !.rd = @ \ {c.pi}, !.wr = @ \ {c.pi}]

WireOutput(c) ==
    IF cmdIndex = LastOne THEN c
    ELSE [c EXCEPT !.out = Dup(c.wr, NextPipe(c)),
                   !.rd = @ \ {NextPipe(c)}, !.wr = @ \ {NextPipe(c)}]

(* In the order of the code: an even command wires its output first, with  *)
(* the SAME index                                                          *)
Wired(c) == IF Even THEN WireInput(WireOutput(c)) ELSE WireOutput(WireInput(c))

Ended(c) == [NoChild EXCEPT !.pc = "ended", !.argv = c.argv]

(* execvp, with what gen is going to write; a name that is not found ends  *)
(* the child                                                               *)
Exec ==
    /\ child.pc = "born"
    /\ LET p == Program(child.argv)
       IN IF p \notin Writers \union Readers THEN child' = Ended(child)
          ELSE \E n \in CASE p = "gen" -> 0 .. MaxOut [] p = "mypwd" -> {1} [] OTHER -> {0} :
                 child' = [Wired(child) EXCEPT !.pc = "runs", !.left = n]
    /\ UNCHANGED <<shell, world>>

(* A read: of a pipe it waits for a chunk or for the last write end to be   *)
(* closed, the shell's and the child's own included                        *)
Read ==
    /\ child.pc = "runs" /\ Program(child.argv) \in Readers /\ child.hand = 0
    /\ LET i == child.in
       IN \/ /\ i[1] = "pipe" /\ buf[i[2]] > 0
             /\ buf' = [buf EXCEPT ![i[2]] = @ - 1] /\ child' = [child EXCEPT !.hand = 1]
          \/ /\ i[1] = "pipe" /\ buf[i[2]] = 0
             /\ i[2] \notin wr \union child.wr /\ child.out # i
             /\ child' = Ended(child) /\ UNCHANGED buf
          \/ /\ i[1] = "file" /\ child.pos < files[i[2]]
             /\ child' = [child EXCEPT !.hand = 1, !.pos = @ + 1] /\ UNCHANGED buf
          \/ /\ i[1] = "file" /\ child.pos >= files[i[2]]
             /\ child' = Ended(child) /\ UNCHANGED buf
          \/ i \in {Tty, Closed} /\ child' = Ended(child) /\ UNCHANGED buf
    /\ UNCHANGED <<shell, files, emitted, shown>>

(* The child after a chunk is out of its hands *)
Wrote(c) == CASE Program(c.argv) \in Writers -> [c EXCEPT !.left = @ - 1]
              [] Program(c.argv) = "filter"  -> [c EXCEPT !.hand = 0]
              [] Program(c.argv) = "head"    -> Ended(c)

HasReader(p) == p \in rd \union child.rd \/ child.in = Pipe(p)

(* A write: it waits for room in a pipe; without a reader (SIGPIPE) or a    *)
(* descriptor the child ends                                               *)
Write ==
    /\ child.pc = "runs" /\ child.left + child.hand > 0
    /\ LET o == child.out
           broken == o = Closed \/ (o[1] = "pipe" /\ ~HasReader(o[2]))
       IN \/ broken /\ child' = Ended(child) /\ UNCHANGED <<buf, files, emitted, shown>>
          \/ /\ ~broken
             /\ o[1] = "pipe" => buf[o[2]] < Capacity
             /\ child' = Wrote(child)
             /\ buf' = IF o[1] = "pipe" THEN [buf EXCEPT ![o[2]] = @ + 1] ELSE buf
             /\ files' = IF o[1] = "file" THEN [files EXCEPT ![o[2]] = @ + 1] ELSE files
             /\ emitted' = IF cmdIndex = 0 THEN emitted + 1 ELSE emitted
             /\ shown' = IF o[1] # "pipe" THEN shown + 1 ELSE shown
    /\ UNCHANGED shell

(* A writer has written everything *)
Finish ==
    /\ child.pc = "runs" /\ Program(child.argv) \in Writers /\ child.left = 0
    /\ child' = Ended(child)
    /\ UNCHANGED <<shell, world>>

ShellStep == ChangeDir \/ OpenOut \/ OpenIn \/ Fork \/ CloseEnds \/ Wait
ChildStep == Exec \/ Read \/ Write \/ Finish

Next == \/ \E l \in Lines : ReadLine(l)
        \/ Exit \/ ShellStep \/ ChildStep

(* The kernel runs both processes; nobody has to type a line *)
Fairness == WF_vars(ShellStep \/ (at = "myexit" /\ Exit)) /\ WF_vars(ChildStep)

Spec == Init /\ [][Next]_vars /\ Fairness

----------------------------------------------------------------------------
(* Properties *)

Ends == 0 .. Len(cmds) - 2
Stream == {Tty, Closed} \union {Pipe(i) : i \in Ends} \union {File(f) : f \in Files}

Child == [pc : {"none", "born", "runs", "ended"},
          argv : {<<>>} \union {cmds[k] : k \in DOMAIN cmds}, pi : Nat,
          in : Stream, out : Stream,
          left : (0 .. MaxOut) \union {1}, hand : {0, 1}, pos : Nat,
          rd : SUBSET Ends, wr : SUBSET Ends]

(* Everything has its type; a pipe never holds more than its capacity, and *)
(* pipeIndex (executor.c:121) never leaves p_fds.                          *)
TypeOK ==
    /\ at \in {"prompt", "myexit", "mycd", "out", "in", "fork", "close", "wait", "gone"}
    /\ raw \in Lines \union {<<>>}
    /\ cmdIndex \in 0 .. (IF cmds = <<>> THEN 0 ELSE LastOne)
    /\ at \in {"fork", "close"} => pipeIndex \in 0 .. (IF LastOne = 0 THEN 0 ELSE LastOne - 1)
    /\ {fdo, fdi} \subseteq Files \union {None}
    /\ rd \subseteq Ends /\ wr \subseteq Ends /\ lost \in Nat
    /\ buf \in [Ends -> 0 .. Capacity] /\ files \in [Files -> {Absent} \union Nat]
    /\ child \in Child
    /\ emitted \in Nat /\ shown \in Nat

(* A chain of filters loses and doubles nothing: when the shell is back at *)
(* its prompt, what the first command wrote has reached the terminal, or   *)
(* the file of `>', for as many pipes as the README of the project allows. *)
(* It needs every descriptor of executor.c:127-177 in its place: one end   *)
(* too few and a command reads or writes nothing.                          *)
EverythingArrives ==
    (/\ at = "prompt" /\ cmds # <<>> /\ Len(cmds) <= 3
     /\ \A i \in 2 .. Len(cmds) : cmds[i] # <<>> /\ cmds[i][1] = "filter")
        => shown = emitted

(* The shell loses a descriptor only where it is known to: when `<' cannot *)
(* be opened after `>' was (executor.c:58), and in a pipeline of more than *)
(* the two pipes the README allows.                                        *)
LosesKnownOnes ==
    [][lost' # lost => (at = "in" /\ fdo # None) \/ Len(cmds) > 3]_vars

(* No command ever waits for input that nobody can send: with at most two  *)
(* pipes, the pipe a command reads from has no write end open but those of *)
(* commands that have ended, neither in the shell (executor.c:166, 174)    *)
(* nor in the command itself (141, 150).                                   *)
NobodyHoldsTheEnd ==
    (/\ child.pc = "runs" /\ at = "wait" /\ Len(cmds) <= 3 /\ child.in[1] = "pipe")
        => child.in[2] \notin wr \union child.wr

(* A redirected command gets the words of its line in their order without  *)
(* the redirections, provided each file's name occurs once in the line and *)
(* is no mark itself (util.c:86 removes the first token that is equal).    *)
Marks == {i \in DOMAIN raw : raw[i] \in {"<", ">"}}
Kept  == {i \in DOMAIN raw : i \notin Marks /\ i - 1 \notin Marks}
NamesOccurOnce ==
    /\ \A i, j \in Marks : i # j => raw[i] # raw[j] /\ i + 1 # j
    /\ \A i \in Marks, j \in DOMAIN raw : i + 1 # j /\ i < Len(raw) => raw[i + 1] # raw[j]

\* ts is the line's tokens at the positions S, in their order.
Selects(ts, S) ==
    \E g \in [DOMAIN ts -> S] :
        /\ \A k, l \in DOMAIN ts : k < l => g[k] < g[l]
        /\ \A i \in S : \E k \in DOMAIN ts : g[k] = i
        /\ \A k \in DOMAIN ts : ts[k] = raw[g[k]]

ArgumentsKept ==
    (child.pc = "runs" /\ raw[1] # "mypwd" /\ Marks # {} /\ NamesOccurOnce)
        => Selects(child.argv, Kept)

(* The command writes to a pipe that is full; its reader does not exist yet *)
Clogged == /\ child.pc = "runs" /\ child.left + child.hand > 0
           /\ child.out[1] = "pipe" /\ buf[child.out[2]] = Capacity

(* The user gets the prompt back from every line with at most two pipes,   *)
(* unless a command writes more into a pipe than the pipe holds: the shell *)
(* waits for it (executor.c:179) before it starts the reader.              *)
PromptReturns ==
    (at # "prompt" /\ Len(cmds) <= 3) ~> (at \in {"prompt", "gone"} \/ Clogged)
============================================================================

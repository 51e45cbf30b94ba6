---------------------------- MODULE ShellProofs -----------------------------
(***************************************************************************)
(* The shell for all lines, all files, every capacity of a pipe and every  *)
(* amount of output: its types, for a line of at most two pipes which       *)
(* process has which end open and that nothing is lost on the way, and for  *)
(* a redirected line which of its words the command gets.                   *)
(***************************************************************************)
EXTENDS Shell, FiniteSetTheorems, SequenceTheorems, WellFoundedInduction, TLAPS

Short == Len(cmds) <= 3

\* Where the shell has a child; elsewhere it has no command under way either.
Running == at \in {"close", "wait"}

\* The list of commands, and where its indices and descriptors are used.
Lists ==
  /\ Len(cmds) \in Nat /\ DOMAIN cmds = 1 .. Len(cmds)
  /\ cmds # <<>> \/ at \in {"prompt", "gone"}
  /\ at \in {"fork", "close"} => pipeIndex = IF cmdIndex = 0 THEN 0 ELSE cmdIndex - 1
  /\ at = "wait" /\ cmdIndex < LastOne => pipeIndex = cmdIndex
  /\ at \in {"out", "in"} => Len(cmds) = 1 /\ cmdIndex = 0 /\ pipeIndex = 0 /\ fdi = None
  /\ at \notin {"in", "fork", "close"} => fdo = None
  /\ at \notin {"fork", "close"} => fdi = None
  /\ fdo # None \/ fdi # None => Len(cmds) = 1
  /\ at \notin {"fork", "close", "wait"} => rd = {} /\ wr = {}

\* A child is a command of the line that is under way.  It reads and writes what
\* is not a pipe until it is wired.
Children ==
  /\ ~Running => child = NoChild
  /\ Running => child.pc # "none" /\ child.argv = cmds[cmdIndex + 1]
  /\ child.pc = "born" => /\ child.in[1] # "pipe" /\ child.out[1] # "pipe"
                          /\ child.out # Closed
                          /\ child.left = 0
                          /\ child.pi = IF cmdIndex = 0 THEN 0 ELSE cmdIndex - 1
  /\ child.pc = "runs" => Program(child.argv) \in Writers \union Readers
  /\ Program(child.argv) \in Writers => child.hand = 0
  /\ Program(child.argv) \in Readers => child.left = 0
  /\ child.pc # "runs" => child.hand = 0

\* The pipes that are numbered from i on.
From(i) == {p \in Ends : p >= i}

\* Who has which end open.
Wiring == Short =>
  /\ at \in {"fork", "close"} => rd = From(cmdIndex - 1) /\ wr = From(cmdIndex)
  /\ at = "wait" => rd = From(cmdIndex) /\ wr = From(cmdIndex + 1)
  /\ child.pc = "born" => child.rd = From(cmdIndex - 1) /\ child.wr = From(cmdIndex)
  /\ child.pc = "runs" =>
       /\ child.rd = From(cmdIndex + 1) /\ child.wr = From(cmdIndex + 1)
       /\ IF cmdIndex = 0 THEN child.in[1] # "pipe" ELSE child.in = Pipe(cmdIndex - 1)
       /\ IF cmdIndex = LastOne THEN child.out[1] # "pipe" /\ child.out # Closed
                                ELSE child.out = Pipe(cmdIndex)

\* All commands but the first copy their input.
Filters == Short /\ \A i \in 2 .. Len(cmds) : cmds[i] # <<>> /\ cmds[i][1] = "filter"

In(p) == IF p \in Ends THEN buf[p] ELSE 0

\* What the first command wrote is in a pipe, in a filter's hand, or through;
\* and the pipes that the commands before have read are empty.
Flow == Filters =>
  /\ at \in {"out", "in", "myexit", "mycd"} => emitted = 0 /\ shown = 0
  /\ at = "prompt" => emitted = shown
  /\ at \in {"fork", "close", "wait"} =>
       /\ emitted = In(0) + In(1) + (IF cmdIndex = 0 THEN 0 ELSE child.hand) + shown
       /\ \A p \in Ends : p < cmdIndex - 1 => buf[p] = 0
       /\ child.pc = "ended" /\ cmdIndex # 0 => buf[cmdIndex - 1] = 0

ShellInv == TypeOK /\ Lists /\ Children /\ Wiring /\ Flow

\* A list of tokens of the line, at the positions S.
TokenList(ts, S) == ts \in Seq(STRING) /\ Selects(ts, S)

\* The positions that redirections by the marks T leave.
Rest(T) == {i \in DOMAIN raw : \A j \in Marks : raw[j] \in T => i # j /\ i # j + 1}

Redirection == raw[1] # "mypwd" /\ Marks # {} /\ NamesOccurOnce

\* A redirected line is one command; each redirection that is done has taken its mark
\* and its name out of it, and nothing else.
Arguments == Redirection =>
  /\ at = "out" => Len(cmds) = 1 /\ TokenList(cmds[1], Rest({}))
  /\ at = "in" => Len(cmds) = 1 /\ TokenList(cmds[1], Rest({">"}))
  /\ at \in {"fork", "close", "wait"} => Len(cmds) = 1 /\ TokenList(cmds[1], Rest({"<", ">"}))

-----------------------------------------------------------------------------
(* Lists of commands, numbers of pipes                                     *)

LEMMA SplitLength ==
  ASSUME NEW ts \in Seq(STRING)
  PROVE  /\ Cardinality(Bars(ts)) \in Nat
         /\ DOMAIN Split(ts) = 1 .. Cardinality(Bars(ts)) + 1
         /\ Len(Split(ts)) = Cardinality(Bars(ts)) + 1
<1>1. IsFiniteSet(1 .. Len(ts)) /\ Len(ts) \in Nat
  BY FS_Interval
<1>2. Bars(ts) \subseteq 1 .. Len(ts)
  BY DEF Bars
<1>3. Cardinality(Bars(ts)) \in Nat
  BY <1>1, <1>2, FS_Subset, FS_CardinalityType
<1>4. DOMAIN Split(ts) = 1 .. Cardinality(Bars(ts)) + 1
  BY DEF Split
<1> QED
  BY <1>3, <1>4

\* The pipes are numbered by the length of the list alone.
LEMMA SameEnds ==
  ASSUME Len(cmds)' = Len(cmds)
  PROVE  Ends' = Ends /\ Stream' = Stream /\ LastOne' = LastOne /\ (Short' <=> Short)
         /\ \A i : From(i)' = From(i)
BY DEF Ends, Stream, LastOne, Short, From

LEMMA SameCommands ==
  ASSUME UNCHANGED cmds
  PROVE  /\ Ends' = Ends /\ Stream' = Stream /\ LastOne' = LastOne /\ Child' = Child
         /\ (Short' <=> Short) /\ (Filters' <=> Filters) /\ \A i : From(i)' = From(i)
BY SameEnds DEF Ends, Stream, LastOne, Child, Short, Filters, From

LEMMA NoChildType == NoChild \in Child /\ NoChild \in Child'
BY ShellAssumption DEF NoChild, Child, Stream

LEMMA ListFacts ==
  ASSUME TypeOK, Lists, at \in {"out", "in", "fork", "close", "wait"}
  PROVE  /\ cmds # <<>> /\ Len(cmds) \in Nat \ {0} /\ LastOne \in Nat
         /\ cmdIndex \in 0 .. LastOne /\ DOMAIN cmds = 1 .. Len(cmds)
         /\ LastOne = Len(cmds) - 1 /\ Ends = 0 .. LastOne - 1
         /\ cmdIndex + 1 \in DOMAIN cmds
<1>1. /\ cmds # <<>> /\ Len(cmds) \in Nat /\ DOMAIN cmds = 1 .. Len(cmds)
      /\ cmdIndex \in 0 .. LastOne
  BY DEF TypeOK, Lists
<1> QED
  BY <1>1 DEF LastOne, Ends

-----------------------------------------------------------------------------
(* The steps of the shell                                                  *)

LEMMA InitInv ==
  ASSUME Init
  PROVE  ShellInv
<1>1. Ends = {} /\ Len(cmds) = 0 /\ DOMAIN cmds = {}
  BY DEF Init, Ends
<1>2. TypeOK
  BY <1>1, NoChildType, ShellAssumption DEF Init, TypeOK
<1>3. Lists
  BY <1>1 DEF Init, Lists
<1>4. Children
  BY DEF Init, Children, Running, NoChild, Program, Writers, Readers, None
<1>5. Wiring
  BY DEF Init, Wiring, NoChild
<1>6. Flow
  BY DEF Init, Flow
<1> QED
  BY <1>2, <1>3, <1>4, <1>5, <1>6 DEF ShellInv

LEMMA ReadLineInv ==
  ASSUME ShellInv, NEW l \in Lines, ReadLine(l)
  PROVE  ShellInv'
<1>1. /\ at = "prompt" /\ child = NoChild /\ child' = NoChild /\ fdo' = None /\ fdi' = None
      /\ UNCHANGED <<lost, files>>
  BY DEF ShellInv, ReadLine, Lists, Children, Running
<1>2. PICK n \in Nat :
        /\ Len(cmds') = n + 1 /\ DOMAIN cmds' = 1 .. n + 1
        /\ rd' = 0 .. n - 1 /\ wr' = 0 .. n - 1 /\ buf' = [p \in 0 .. n - 1 |-> 0]
        /\ at' \in {"fork", "out", "myexit", "mycd"} /\ (at' # "fork" => n = 0)
  <2> DEFINE piped == l[1] \notin Builtins \union {"mypwd"} /\ ~Redirected(l)
  <2>1. CASE piped
    <3>1. l \in Seq(STRING)
      BY ShellAssumption
    <3>2. at' = "fork" /\ cmds' = Split(l) /\ rd' = 0 .. Cardinality(Bars(l)) - 1
          /\ wr' = 0 .. Cardinality(Bars(l)) - 1
          /\ buf' = [p \in 0 .. Cardinality(Bars(l)) - 1 |-> 0]
      BY <2>1 DEF ReadLine
    <3> QED
      BY <3>1, <3>2, SplitLength
  <2>2. CASE ~piped
    <3>1. cmds' = <<l>> /\ rd' = 0 .. 0 - 1 /\ wr' = 0 .. 0 - 1
          /\ buf' = [p \in 0 .. 0 - 1 |-> 0]
      BY <2>2 DEF ReadLine
    <3>2. at' \in {"fork", "out", "myexit", "mycd"}
      BY <2>2 DEF ReadLine, Builtins
    <3>3. Len(cmds') = 1 /\ DOMAIN cmds' = 1 .. 1
      BY <3>1
    <3> QED
      BY <3>1, <3>2, <3>3
  <2> QED
    BY <2>1, <2>2
<1>3. /\ raw' = l /\ cmdIndex' = 0 /\ pipeIndex' = 0 /\ emitted' = 0 /\ shown' = 0
  BY DEF ReadLine
<1>4. Ends' = 0 .. n - 1 /\ LastOne' = n /\ cmds' # <<>>
  BY <1>2 DEF Ends, LastOne
<1>5. TypeOK'
  BY <1>1, <1>2, <1>3, <1>4, NoChildType, ShellAssumption DEF ShellInv, TypeOK
<1>6. Lists'
  BY <1>1, <1>2, <1>3, <1>4 DEF Lists
<1>7. Children'
  BY <1>1, <1>2 DEF Children, Running, NoChild, Program, Writers, Readers, None
<1>8. Wiring'
  <2>1. From(0 - 1)' = 0 .. n - 1 /\ From(0)' = 0 .. n - 1
    BY <1>4 DEF From
  <2> QED
    BY <1>1, <1>2, <1>3, <2>1 DEF Wiring, NoChild
<1>9. Flow'
  <2>1. In(0)' = 0 /\ In(1)' = 0
    BY <1>2, <1>4 DEF In
  <2> QED
    BY <1>1, <1>2, <1>3, <1>4, <2>1 DEF Flow, NoChild
<1> QED
  BY <1>5, <1>6, <1>7, <1>8, <1>9 DEF ShellInv

\* A call that ends leaves nothing of its descriptors.
LEMMA BackFacts ==
  ASSUME BackToMain
  PROVE  at' = "prompt" /\ fdo' = None /\ fdi' = None /\ rd' = {} /\ wr' = {}
         /\ lost' = lost + StillOpen
BY DEF BackToMain

LEMMA StillOpenType ==
  ASSUME TypeOK, Lists
  PROVE  StillOpen \in Nat
<1>1. Len(cmds) \in Nat /\ rd \subseteq Ends /\ wr \subseteq Ends
  BY DEF TypeOK, Lists
<1>2. IsFiniteSet(Ends)
  BY <1>1, FS_Interval DEF Ends
<1>3. Cardinality(rd) \in Nat /\ Cardinality(wr) \in Nat
  BY <1>1, <1>2, FS_Subset, FS_CardinalityType
<1> QED
  BY <1>3 DEF StillOpen

\* Builtins, and calls that give up before the first command, keep all but the
\* list of tokens and what is open; none of them has a child.
LEMMA QuietInv ==
  ASSUME ShellInv, ~Running, at # "fork",
         Len(cmds') = Len(cmds), DOMAIN cmds' = DOMAIN cmds, cmds' = <<>> <=> cmds = <<>>,
         cmds' = cmds \/ Len(cmds) = 1,
         UNCHANGED <<raw, cmdIndex, pipeIndex, buf, child, emitted, shown>>,
         files' \in [Files -> {Absent} \union Nat], lost' \in Nat,
         {fdo', fdi'} \subseteq Files \union {None},
         UNCHANGED <<rd, wr>> \/ (rd' = {} /\ wr' = {}),
         \/ at' \in {"prompt", "gone"} /\ at \in {"prompt", "out", "in", "myexit", "mycd"}
            /\ fdo' = None /\ fdi' = None
         \/ at' = "in" /\ at = "out" /\ fdi' = None
         \/ at' = "fork" /\ at = "in"
  PROVE  ShellInv'
<1> USE DEF ShellInv
<1>1. /\ child = NoChild /\ child' = NoChild /\ rd = {} /\ wr = {} /\ rd' = {} /\ wr' = {}
      /\ Ends' = Ends /\ LastOne' = LastOne /\ (Short' <=> Short)
      /\ at # "wait" /\ at # "close"
  BY SameEnds DEF Lists, Children, Running
<1>2. at \in {"out", "in"} => Len(cmds) = 1 /\ cmdIndex = 0 /\ Ends = {}
  BY DEF Lists, Ends
<1>3. TypeOK'
  <2>1. cmdIndex \in 0 .. (IF cmds = <<>> THEN 0 ELSE LastOne)
    BY DEF TypeOK
  <2>2. cmdIndex' \in 0 .. (IF cmds' = <<>> THEN 0 ELSE LastOne')
    BY <1>1, <2>1
  <2>3. ASSUME at' \in {"fork", "close"} PROVE pipeIndex' \in 0 .. (IF LastOne' = 0 THEN 0 ELSE LastOne' - 1)
    <3>1. at = "in"
      BY <2>3
    <3>2. Len(cmds) = 1 /\ pipeIndex = 0
      BY <3>1 DEF Lists
    <3>3. LastOne' = 0 /\ pipeIndex' = 0
      BY <3>2 DEF LastOne
    <3> QED
      BY <3>3
  <2>4. at' \in {"prompt", "gone", "in", "fork"}
    OBVIOUS
  <2>5. raw' \in Lines \union {<<>>} /\ buf' \in [Ends' -> 0 .. Capacity]
        /\ emitted' \in Nat /\ shown' \in Nat
    BY <1>1 DEF TypeOK
  <2> HIDE DEF ShellInv
  <2> QED
    BY <1>1, <2>2, <2>3, <2>4, <2>5, NoChildType DEF TypeOK
<1>4. Lists'
  BY <1>1, <1>2 DEF Lists
<1>5. Children'
  BY <1>1 DEF Children, Running, NoChild, Program, Writers, Readers, None
<1>6. Wiring'
  BY <1>1, <1>2 DEF Wiring, NoChild, From
<1>7. Flow'
  <2>1. Filters' => Filters
    BY <1>1 DEF Filters, Short
  <2>2. at' = "fork" => In(0)' = 0 /\ In(1)' = 0 /\ Ends' = {}
    BY <1>1, <1>2 DEF In
  <2>3. emitted \in Nat /\ shown \in Nat
    BY DEF TypeOK
  <2> QED
    BY <1>1, <1>2, <2>1, <2>2, <2>3 DEF Flow, NoChild
<1> QED
  BY <1>3, <1>4, <1>5, <1>6, <1>7

LEMMA BuiltinInv ==
  ASSUME ShellInv, Exit \/ ChangeDir
  PROVE  ShellInv'
<1>1. CASE Exit
  <2>1. /\ ~Running /\ at # "fork" /\ fdo' = None /\ fdi' = None /\ None \in Files \union {None}
        /\ files' \in [Files -> {Absent} \union Nat] /\ lost' \in Nat
    BY <1>1 DEF Exit, ShellInv, TypeOK, Lists, Running, world
  <2>2. /\ UNCHANGED <<raw, cmds, cmdIndex, pipeIndex, buf, child, emitted, shown, rd, wr>>
        /\ at' = "gone" /\ at \in {"prompt", "myexit"}
    BY <1>1 DEF Exit, world
  <2> QED
    BY <2>1, <2>2, QuietInv
<1>2. CASE ChangeDir
  <2>1. StillOpen \in Nat /\ lost \in Nat
    BY StillOpenType DEF ShellInv, TypeOK
  <2>2. /\ ~Running /\ at = "mycd" /\ at' = "prompt" /\ fdo' = None /\ fdi' = None
        /\ files' \in [Files -> {Absent} \union Nat] /\ lost' \in Nat
        /\ rd' = {} /\ wr' = {}
    BY <1>2, <2>1, BackFacts DEF ChangeDir, ShellInv, TypeOK, Running, world
  <2>3. UNCHANGED <<raw, cmds, cmdIndex, pipeIndex, buf, child, emitted, shown>>
    BY <1>2 DEF ChangeDir, world
  <2> QED
    BY <2>2, <2>3, QuietInv
<1> QED
  BY <1>1, <1>2

LEMMA OpenOutInv ==
  ASSUME ShellInv, OpenOut
  PROVE  ShellInv'
<1> USE DEF ShellInv
<1>1. /\ ~Running /\ at = "out" /\ fdi = None /\ fdo = None /\ Len(cmds) = 1 /\ cmds # <<>>
      /\ DOMAIN cmds = 1 .. 1 /\ lost \in Nat /\ files \in [Files -> {Absent} \union Nat]
      /\ UNCHANGED <<raw, cmdIndex, pipeIndex, buf, child, emitted, shown>>
  BY DEF OpenOut, Lists, Running, TypeOK
<1>2. CASE cmds' = cmds /\ at' = "in" /\ UNCHANGED <<fdo, fdi, rd, wr, lost, files>>
  BY <1>1, <1>2, QuietInv
<1>3. ASSUME NEW f \in Files, NEW s, cmds' = <<s>>, at' = "in", fdo' = f,
             files' = [files EXCEPT ![f] = 0], UNCHANGED <<fdi, rd, wr, lost>>
      PROVE  ShellInv'
  <2>1. Len(cmds') = 1 /\ DOMAIN cmds' = 1 .. 1 /\ cmds' # <<>>
    BY <1>3
  <2>2. files' \in [Files -> {Absent} \union Nat]
    BY <1>1, <1>3
  <2> QED
    BY <1>1, <1>3, <2>1, <2>2, QuietInv
<1>4. CASE BackToMain /\ UNCHANGED <<cmds, files>>
  <2>1. StillOpen \in Nat
    BY StillOpenType
  <2>2. lost' \in Nat
    BY <1>1, <1>4, <2>1, BackFacts
  <2> QED
    BY <1>1, <1>4, <2>2, BackFacts, QuietInv
<1> QED
  BY <1>2, <1>3, <1>4 DEF OpenOut

LEMMA OpenInInv ==
  ASSUME ShellInv, OpenIn
  PROVE  ShellInv'
<1> USE DEF ShellInv
<1>1. /\ ~Running /\ at = "in" /\ fdi = None /\ Len(cmds) = 1 /\ cmds # <<>>
      /\ DOMAIN cmds = 1 .. 1 /\ lost \in Nat /\ files \in [Files -> {Absent} \union Nat]
      /\ {fdo, fdi} \subseteq Files \union {None}
      /\ UNCHANGED <<raw, cmdIndex, pipeIndex, buf, files, child, emitted, shown>>
  BY DEF OpenIn, Lists, Running, TypeOK, world
<1>2. CASE cmds' = cmds /\ at' = "fork" /\ UNCHANGED <<fdo, fdi, rd, wr, lost>>
  BY <1>1, <1>2, QuietInv
<1>3. ASSUME NEW f \in Files, NEW s, cmds' = <<s>>, at' = "fork", fdi' = f,
             UNCHANGED <<fdo, rd, wr, lost>>
      PROVE  ShellInv'
  <2>1. Len(cmds') = 1 /\ DOMAIN cmds' = 1 .. 1 /\ cmds' # <<>>
    BY <1>3
  <2>2. {fdo', fdi'} \subseteq Files \union {None}
    BY <1>1, <1>3
  <2> QED
    BY <1>1, <1>3, <2>1, <2>2, QuietInv
<1>4. CASE BackToMain /\ UNCHANGED cmds
  <2>1. StillOpen \in Nat
    BY StillOpenType
  <2>2. lost' \in Nat
    BY <1>1, <1>4, <2>1, BackFacts
  <2> QED
    BY <1>1, <1>4, <2>2, BackFacts, QuietInv
<1> QED
  BY <1>2, <1>3, <1>4 DEF OpenIn

LEMMA ForkInv ==
  ASSUME ShellInv, Fork
  PROVE  ShellInv'
<1> DEFINE in  == IF fdi = None THEN Tty ELSE File(fdi)
           out == IF fdo = None THEN Tty ELSE File(fdo)
<1>1. /\ at = "fork" /\ at' = "close"
      /\ UNCHANGED <<raw, cmds, cmdIndex, pipeIndex, fdo, fdi, rd, wr, lost, world>>
  BY DEF Fork
<1>2. child' = [pc |-> "born", argv |-> cmds[cmdIndex + 1], pi |-> pipeIndex, in |-> in,
                out |-> out, left |-> 0, hand |-> 0, pos |-> 0, rd |-> rd, wr |-> wr]
  BY DEF Fork, NoChild
<1>3. /\ child = NoChild /\ {fdo, fdi} \subseteq Files \union {None}
      /\ pipeIndex = (IF cmdIndex = 0 THEN 0 ELSE cmdIndex - 1)
      /\ cmdIndex \in 0 .. LastOne /\ LastOne \in Nat /\ cmdIndex + 1 \in DOMAIN cmds
      /\ rd \subseteq Ends /\ wr \subseteq Ends
  BY <1>1, ListFacts DEF ShellInv, Lists, Children, Running, TypeOK
<1>4. /\ in \in Stream /\ out \in Stream /\ in[1] # "pipe" /\ out[1] # "pipe"
      /\ out # Closed
  <2>1. ASSUME NEW f \in Files \union {None}, NEW x, x = IF f = None THEN Tty ELSE File(f)
        PROVE  x \in Stream /\ x[1] # "pipe" /\ x # Closed
    <3>1. CASE f = None
      BY <2>1, <3>1 DEF Stream, Tty, Closed
    <3>2. CASE f # None
      <4>1. f \in Files /\ x = <<"file", f>> /\ x[1] = "file"
        BY <2>1, <3>2 DEF File
      <4> QED
        BY <4>1 DEF Stream, File, Closed
    <3> QED
      BY <3>1, <3>2
  <2> QED
    BY <1>3, <2>1
<1> HIDE DEF in, out
<1>5. child' \in Child
  BY <1>2, <1>3, <1>4, ShellAssumption DEF Child
<1>6. TypeOK'
  BY <1>1, <1>3, <1>5, SameCommands DEF ShellInv, TypeOK, world
<1>7. Lists'
  BY <1>1, SameCommands DEF ShellInv, Lists
<1>8. Children'
  BY <1>1, <1>2, <1>3, <1>4 DEF Children, Running, Program
<1>9. Wiring'
  BY <1>1, <1>2, SameCommands DEF ShellInv, Wiring
<1>10. Flow'
  <2>1. In(0)' = In(0) /\ In(1)' = In(1) /\ child.hand = 0 /\ child'.hand = 0
    BY <1>1, <1>2, <1>3, SameCommands DEF In, world, NoChild
  <2> QED
    BY <1>1, <1>2, <2>1, SameCommands DEF ShellInv, Flow, world
<1> QED
  BY <1>6, <1>7, <1>8, <1>9, <1>10 DEF ShellInv

\* What is open after the closes: the read end of the pipe that the next command
\* reads from, and both ends of those that come behind it.
LEMMA KeepsTheNext ==
  ASSUME ShellInv, at = "close", Short
  PROVE  ShellKeeps = [rd |-> From(cmdIndex), wr |-> From(cmdIndex + 1)]
<1>1. /\ rd = From(cmdIndex - 1) /\ wr = From(cmdIndex)
      /\ pipeIndex = (IF cmdIndex = 0 THEN 0 ELSE cmdIndex - 1)
      /\ cmdIndex \in 0 .. LastOne /\ Ends = 0 .. LastOne - 1 /\ LastOne \in 0 .. 2
  <2>1. rd = From(cmdIndex - 1) /\ wr = From(cmdIndex)
    BY DEF ShellInv, Wiring
  <2>2. pipeIndex = (IF cmdIndex = 0 THEN 0 ELSE cmdIndex - 1)
    BY DEF ShellInv, Lists
  <2>3. cmdIndex \in 0 .. LastOne /\ Ends = 0 .. LastOne - 1
        /\ LastOne = Len(cmds) - 1 /\ Len(cmds) \in Nat \ {0}
    BY ListFacts DEF ShellInv
  <2> QED
    BY <2>1, <2>2, <2>3 DEF Short
<1>2. CASE cmdIndex = 0
  <2>1. rd = From(0) /\ wr \ {0} = From(1)
    BY <1>1, <1>2 DEF From
  <2> QED
    BY <1>1, <1>2, <2>1 DEF ShellKeeps, Even
<1>3. CASE cmdIndex = 1
  <2>1. rd \ {0} = From(1) /\ wr \ {1} = From(2) /\ (LastOne = 1 => wr = From(2))
    BY <1>1, <1>3 DEF From
  <2>2. ~Even /\ pipeIndex = 0
    BY <1>1, <1>3 DEF Even
  <2>3. rd \ {pipeIndex} = From(1)
        /\ (IF cmdIndex # LastOne THEN wr \ {pipeIndex + 1} ELSE wr) = From(2)
    BY <1>1, <1>3, <2>1, <2>2
  <2>4. ShellKeeps = [rd |-> From(1), wr |-> From(2)]
    BY <2>2, <2>3 DEF ShellKeeps
  <2> QED
    BY <1>3, <2>4
<1>4. CASE cmdIndex = 2
  <2>1. rd \ {1} = From(2) /\ wr \ {1} = From(3)
    BY <1>1, <1>4 DEF From
  <2> QED
    BY <1>1, <1>4, <2>1 DEF ShellKeeps, Even
<1> QED
  BY <1>1, <1>2, <1>3, <1>4

LEMMA CloseEndsInv ==
  ASSUME ShellInv, CloseEnds
  PROVE  ShellInv'
<1>1. /\ at = "close" /\ at' = "wait" /\ fdo' = None /\ fdi' = None
      /\ rd' = ShellKeeps.rd /\ wr' = ShellKeeps.wr
      /\ pipeIndex' = (IF Advances THEN pipeIndex + 1 ELSE pipeIndex)
      /\ UNCHANGED <<raw, cmds, cmdIndex, lost, child, buf, files, emitted, shown>>
  BY DEF CloseEnds, world
<1>2. /\ pipeIndex = (IF cmdIndex = 0 THEN 0 ELSE cmdIndex - 1)
      /\ cmdIndex \in 0 .. LastOne /\ LastOne \in Nat
      /\ rd \subseteq Ends /\ wr \subseteq Ends
  BY <1>1, ListFacts DEF ShellInv, Lists, TypeOK
<1>3. rd' \subseteq Ends /\ wr' \subseteq Ends
  BY <1>1, <1>2 DEF ShellKeeps
<1>4. cmdIndex < LastOne => pipeIndex' = cmdIndex
  BY <1>1, <1>2 DEF Advances, Even
<1>5. TypeOK'
  BY <1>1, <1>2, <1>3, SameCommands DEF ShellInv, TypeOK
<1>6. Lists'
  BY <1>1, <1>4, SameCommands DEF ShellInv, Lists
<1>7. Children'
  BY <1>1 DEF ShellInv, Children, Running
<1>8. Wiring'
  BY <1>1, KeepsTheNext, SameCommands DEF ShellInv, Wiring
<1>9. Flow'
  <2>1. In(0)' = In(0) /\ In(1)' = In(1)
    BY <1>1, SameCommands DEF In
  <2> QED
    BY <1>1, <2>1, SameCommands DEF ShellInv, Flow
<1> QED
  BY <1>5, <1>6, <1>7, <1>8, <1>9 DEF ShellInv

\* When the last command of a chain has ended, the pipes are empty.
LEMMA ChainIsThrough ==
  ASSUME ShellInv, at = "wait", child.pc = "ended", cmdIndex = LastOne, Filters
  PROVE  emitted = shown
<1>1. /\ cmdIndex \in 0 .. LastOne /\ Ends = 0 .. cmdIndex - 1
      /\ emitted = In(0) + In(1) + (IF cmdIndex = 0 THEN 0 ELSE child.hand) + shown
      /\ \A p \in Ends : p < cmdIndex - 1 => buf[p] = 0
      /\ cmdIndex # 0 => buf[cmdIndex - 1] = 0
      /\ child.hand = 0 /\ shown \in Nat
  BY ListFacts DEF ShellInv, Flow, Children, TypeOK
<1>2. \A p \in Ends : buf[p] = 0
  BY <1>1
<1>3. In(0) = 0 /\ In(1) = 0
  BY <1>2 DEF In
<1> QED
  BY <1>1, <1>3

LEMMA WaitInv ==
  ASSUME ShellInv, Wait
  PROVE  ShellInv'
<1>1. /\ at = "wait" /\ child.pc = "ended" /\ child' = NoChild
      /\ UNCHANGED <<raw, cmds, pipeIndex, buf, files, emitted, shown>>
  BY DEF Wait, world
<1>2. /\ cmds # <<>> /\ cmdIndex \in 0 .. LastOne /\ LastOne \in Nat
      /\ Len(cmds) \in Nat /\ DOMAIN cmds = 1 .. Len(cmds)
      /\ Ends = 0 .. LastOne - 1 /\ fdo = None /\ fdi = None /\ child.hand = 0
      /\ raw \in Lines \union {<<>>} /\ lost \in Nat /\ StillOpen \in Nat
      /\ rd \subseteq Ends /\ wr \subseteq Ends
  BY <1>1, ListFacts, StillOpenType DEF ShellInv, TypeOK, Lists, Children
<1>3. In(0)' = In(0) /\ In(1)' = In(1)
  BY <1>1, SameCommands DEF In
<1>4. CASE cmdIndex < LastOne /\ at' = "fork" /\ cmdIndex' = cmdIndex + 1
           /\ UNCHANGED <<fdo, fdi, rd, wr, lost>>
  <2>1. pipeIndex' = cmdIndex
    BY <1>1, <1>4 DEF ShellInv, Lists
  <2>2. TypeOK'
    BY <1>1, <1>2, <1>4, <2>1, SameCommands, NoChildType DEF ShellInv, TypeOK
  <2>3. Lists'
    BY <1>1, <1>2, <1>4, <2>1, SameCommands DEF Lists
  <2>4. Children'
    BY <1>1, <1>4 DEF Children, Running, NoChild, Program, Writers, Readers, None
  <2>5. Wiring'
    BY <1>1, <1>2, <1>4, SameCommands DEF ShellInv, Wiring, NoChild
  <2>6. Flow'
    BY <1>1, <1>2, <1>3, <1>4, SameCommands DEF ShellInv, Flow, NoChild
  <2> QED
    BY <2>2, <2>3, <2>4, <2>5, <2>6 DEF ShellInv
<1>5. CASE cmdIndex = LastOne /\ BackToMain /\ UNCHANGED cmdIndex
  <2>1. /\ at' = "prompt" /\ fdo' = None /\ fdi' = None /\ rd' = {} /\ wr' = {}
        /\ lost' \in Nat
    BY <1>2, <1>5, BackFacts
  <2>2. TypeOK'
    BY <1>1, <1>2, <1>5, <2>1, SameCommands, NoChildType DEF ShellInv, TypeOK
  <2>3. Lists'
    BY <1>1, <1>2, <1>5, <2>1, SameCommands DEF Lists
  <2>4. Children'
    BY <1>1, <2>1 DEF Children, Running, NoChild, Program, Writers, Readers, None
  <2>5. Wiring'
    BY <1>1, <2>1, SameCommands DEF Wiring, NoChild
  <2>6. Flow'
    BY <1>1, <1>5, <2>1, ChainIsThrough, SameCommands DEF Flow
  <2> QED
    BY <2>2, <2>3, <2>4, <2>5, <2>6 DEF ShellInv
<1> QED
  BY <1>4, <1>5 DEF Wait

-----------------------------------------------------------------------------
(* The steps of a child                                                    *)

LEMMA ChildFacts ==
  ASSUME ShellInv, child.pc # "none"
  PROVE  /\ at \in {"close", "wait"} /\ child \in Child /\ child.argv = cmds[cmdIndex + 1]
         /\ cmdIndex \in 0 .. LastOne /\ LastOne \in Nat /\ Ends = 0 .. LastOne - 1
         /\ Len(cmds) \in Nat /\ LastOne = Len(cmds) - 1 /\ cmdIndex + 1 \in 1 .. Len(cmds)
         /\ rd \subseteq Ends /\ wr \subseteq Ends /\ buf \in [Ends -> 0 .. Capacity]
         /\ files \in [Files -> {Absent} \union Nat] /\ emitted \in Nat /\ shown \in Nat
<1>1. at \in {"close", "wait"} /\ child.argv = cmds[cmdIndex + 1]
  BY DEF ShellInv, Children, Running, NoChild
<1> QED
  BY <1>1, ListFacts DEF ShellInv, TypeOK

\* A later command of a chain is a filter.
LEMMA FilterFacts ==
  ASSUME ShellInv, child.pc # "none", Filters, cmdIndex # 0
  PROVE  Program(child.argv) = "filter"
BY ChildFacts DEF Filters, Program

\* What a step of the child leaves alone.
LEMMA ChildFrame ==
  ASSUME ShellInv, child.pc # "none", UNCHANGED shell, child' \in Child,
         child'.argv = child.argv, child'.pc \in {"runs", "ended"},
         buf' \in [Ends -> 0 .. Capacity], files' \in [Files -> {Absent} \union Nat],
         emitted' \in Nat, shown' \in Nat
  PROVE  /\ TypeOK' /\ Lists' /\ Running /\ Running'
         /\ child'.argv = cmds'[cmdIndex' + 1]
         /\ cmdIndex' = cmdIndex /\ at' = at /\ rd' = rd /\ wr' = wr /\ cmds' = cmds
<1>1. UNCHANGED <<at, raw, cmds, cmdIndex, pipeIndex, fdo, fdi, rd, wr, lost>>
  BY DEF shell
<1>2. TypeOK'
  BY <1>1, SameCommands DEF ShellInv, TypeOK
<1>3. Lists'
  BY <1>1, SameCommands DEF ShellInv, Lists
<1> QED
  BY <1>1, <1>2, <1>3, ChildFacts DEF Running

LEMMA EndedFacts ==
  ASSUME child \in Child
  PROVE  /\ Ended(child) \in Child /\ Ended(child).pc = "ended"
         /\ Ended(child).argv = child.argv /\ Ended(child).hand = 0 /\ Ended(child).left = 0
<1>1. Closed \in Stream /\ 0 \in (0 .. MaxOut) \union {1}
  BY ShellAssumption DEF Stream
<1>2. child.argv \in {<<>>} \union {cmds[k] : k \in DOMAIN cmds}
  BY DEF Child
<1> QED
  BY <1>1, <1>2 DEF Ended, NoChild, Child

\* A child may end when it is the first of its chain, or when its hands and what it
\* reads from are empty.
LEMMA EndInv ==
  ASSUME ShellInv, child.pc # "none", UNCHANGED <<shell, world>>, child' = Ended(child),
         Filters /\ cmdIndex # 0 => child.hand = 0 /\ buf[cmdIndex - 1] = 0
  PROVE  ShellInv'
<1>1. /\ child' \in Child /\ child'.pc = "ended" /\ child'.argv = child.argv
      /\ child'.hand = 0 /\ child'.left = 0
  BY ChildFacts, EndedFacts
<1>2. UNCHANGED <<buf, files, emitted, shown>>
  BY DEF world
<1>3. /\ TypeOK' /\ Lists' /\ Running /\ Running' /\ child'.argv = cmds'[cmdIndex' + 1]
      /\ cmdIndex' = cmdIndex /\ at' = at /\ rd' = rd /\ wr' = wr /\ cmds' = cmds
  BY <1>1, <1>2, ChildFacts, ChildFrame
<1>4. Children'
  BY <1>1, <1>3 DEF Children
<1>5. Wiring'
  BY <1>1, <1>3, SameCommands DEF ShellInv, Wiring
<1>6. Flow'
  <2>1. In(0)' = In(0) /\ In(1)' = In(1)
    BY <1>2, <1>3, SameCommands DEF In
  <2>2. at' \in {"close", "wait"}
    BY <1>3, ChildFacts
  <2> QED
    BY <1>1, <1>2, <1>3, <2>1, <2>2, SameCommands DEF ShellInv, Flow
<1> QED
  BY <1>3, <1>4, <1>5, <1>6 DEF ShellInv

\* What dup2 and close make of the two streams, and of the ends a child has.
LEMMA WiredFacts ==
  ASSUME ShellInv, child.pc = "born"
  PROVE  LET c == Wired(child)
         IN /\ c \in Child /\ c.argv = child.argv /\ c.hand = child.hand
            /\ Short =>
                 /\ c.rd = From(cmdIndex + 1) /\ c.wr = From(cmdIndex + 1)
                 /\ IF cmdIndex = 0 THEN c.in[1] # "pipe" ELSE c.in = Pipe(cmdIndex - 1)
                 /\ IF cmdIndex = LastOne THEN c.out[1] # "pipe" /\ c.out # Closed
                                          ELSE c.out = Pipe(cmdIndex)
<1>1. Wired(child) = IF Even THEN WireInput(WireOutput(child)) ELSE WireOutput(WireInput(child))
  BY DEF Wired
<1>2. ASSUME NEW open \in SUBSET Ends, NEW i PROVE Dup(open, i) \in Stream
  BY <1>2 DEF Dup, Stream
<1>4. ASSUME NEW d \in Child
      PROVE  LET e == WireInput(d)
             IN /\ e \in Child /\ e.argv = d.argv /\ e.hand = d.hand
                /\ e.pi = d.pi /\ e.out = d.out
                /\ cmdIndex = 0 => e = d
                /\ cmdIndex # 0 => /\ e.in = Dup(d.rd, d.pi)
                                   /\ e.rd = d.rd \ {d.pi} /\ e.wr = d.wr \ {d.pi}
  <2>1. Dup(d.rd, d.pi) \in Stream
    BY <1>2 DEF Child
  <2> QED
    BY <2>1 DEF WireInput, Child
<1>5. ASSUME NEW d \in Child
      PROVE  LET e == WireOutput(d)
             IN /\ e \in Child /\ e.argv = d.argv /\ e.hand = d.hand
                /\ e.pi = d.pi /\ e.in = d.in
                /\ cmdIndex = LastOne => e = d
                /\ cmdIndex # LastOne =>
                     /\ e.out = Dup(d.wr, NextPipe(d))
                     /\ e.rd = d.rd \ {NextPipe(d)} /\ e.wr = d.wr \ {NextPipe(d)}
  <2>1. Dup(d.wr, NextPipe(d)) \in Stream
    BY <1>2 DEF Child
  <2> QED
    BY <2>1 DEF WireOutput, Child
<1>6. child \in Child
  BY ChildFacts
<1>7. /\ Wired(child) \in Child /\ Wired(child).argv = child.argv
      /\ Wired(child).hand = child.hand
  BY <1>1, <1>4, <1>5, <1>6
<1>8. ASSUME Short
      PROVE  /\ Wired(child).rd = From(cmdIndex + 1) /\ Wired(child).wr = From(cmdIndex + 1)
             /\ IF cmdIndex = 0 THEN Wired(child).in[1] # "pipe"
                                ELSE Wired(child).in = Pipe(cmdIndex - 1)
             /\ IF cmdIndex = LastOne
                THEN Wired(child).out[1] # "pipe" /\ Wired(child).out # Closed
                ELSE Wired(child).out = Pipe(cmdIndex)
  <2>1. /\ cmdIndex \in 0 .. LastOne /\ LastOne \in 0 .. 2 /\ Ends = 0 .. LastOne - 1
    <3>1. /\ cmdIndex \in 0 .. LastOne /\ LastOne \in Nat /\ Ends = 0 .. LastOne - 1
          /\ LastOne = Len(cmds) - 1 /\ Len(cmds) \in Nat
      BY ChildFacts
    <3> QED
      BY <1>8, <3>1 DEF Short
  <2>2. /\ child.in[1] # "pipe" /\ child.out[1] # "pipe" /\ child.out # Closed
        /\ child.pi = IF cmdIndex = 0 THEN 0 ELSE cmdIndex - 1
        /\ child.rd = From(cmdIndex - 1) /\ child.wr = From(cmdIndex)
    BY <1>8 DEF ShellInv, Children, Wiring
  <2>3. CASE cmdIndex = 0
    <3>1. Even /\ NextPipe(child) = 0 /\ Wired(child) = WireOutput(child)
      BY <1>1, <1>4, <1>5, <1>6, <2>2, <2>3 DEF Even, NextPipe
    <3>2. From(0 - 1) \ {0} = From(1) /\ From(0) \ {0} = From(1)
          /\ (LastOne = 0 => From(0 - 1) = From(1) /\ From(0) = From(1))
          /\ (LastOne # 0 => 0 \in From(0))
      BY <2>1 DEF From
    <3>3. child.rd = From(0 - 1) /\ child.wr = From(0)
      BY <2>2, <2>3
    <3>4. CASE LastOne = 0
      BY <1>5, <1>6, <2>2, <2>3, <3>1, <3>2, <3>3, <3>4
    <3>5. CASE LastOne # 0
      <4>1. WireOutput(child).out = Pipe(0) /\ WireOutput(child).in = child.in
        BY <1>5, <1>6, <2>3, <3>1, <3>2, <3>3, <3>5 DEF Dup
      <4>2. WireOutput(child).rd = From(1) /\ WireOutput(child).wr = From(1)
        BY <1>5, <1>6, <2>3, <3>1, <3>2, <3>3, <3>5
      <4> QED
        BY <2>2, <2>3, <3>1, <3>5, <4>1, <4>2
    <3> QED
      BY <3>4, <3>5
  <2>4. CASE cmdIndex = 1
    <3>1. ~Even /\ Wired(child) = WireOutput(WireInput(child)) /\ child.pi = 0
      BY <1>1, <2>2, <2>4 DEF Even
    <3>2. /\ From(0) \ {0} = From(1) /\ From(1) \ {0} = From(1) /\ 0 \in From(0)
          /\ From(1) \ {1} = From(2) /\ (LastOne = 1 => From(1) = From(2))
          /\ (LastOne # 1 => 1 \in From(1))
      BY <2>1, <2>4 DEF From
    <3>3. child.rd = From(0) /\ child.wr = From(1)
      BY <2>2, <2>4
    <3>4. /\ WireInput(child).in = Pipe(0) /\ WireInput(child).out = child.out
          /\ WireInput(child).rd = From(1) /\ WireInput(child).wr = From(1)
          /\ WireInput(child) \in Child /\ WireInput(child).pi = 0
      <4>1. Dup(child.rd, child.pi) = Pipe(0)
        BY <3>1, <3>2, <3>3 DEF Dup
      <4>2. child.rd \ {child.pi} = From(1) /\ child.wr \ {child.pi} = From(1)
        BY <3>1, <3>2, <3>3
      <4>3. /\ WireInput(child) \in Child /\ WireInput(child).pi = child.pi
            /\ WireInput(child).out = child.out
            /\ WireInput(child).in = Dup(child.rd, child.pi)
        BY <1>4, <1>6, <2>4
      <4>4. /\ WireInput(child).rd = child.rd \ {child.pi}
            /\ WireInput(child).wr = child.wr \ {child.pi}
        BY <1>4, <1>6, <2>4
      <4> QED
        BY <3>1, <4>1, <4>2, <4>3, <4>4
    <3>5. NextPipe(WireInput(child)) = 1
      BY <3>1, <3>4 DEF NextPipe
    <3>6. CASE LastOne = 1
      BY <1>5, <2>2, <2>4, <3>1, <3>2, <3>4, <3>6
    <3>7. CASE LastOne # 1
      <4>1. WireOutput(WireInput(child)).out = Pipe(1) /\ WireOutput(WireInput(child)).in = Pipe(0)
        BY <1>5, <2>4, <3>2, <3>4, <3>5, <3>7 DEF Dup
      <4>2. WireOutput(WireInput(child)).rd = From(2) /\ WireOutput(WireInput(child)).wr = From(2)
        BY <1>5, <2>4, <3>2, <3>4, <3>5, <3>7
      <4> QED
        BY <2>4, <3>1, <3>7, <4>1, <4>2
    <3> QED
      BY <3>6, <3>7
  <2>5. CASE cmdIndex = 2
    <3>1. Even /\ LastOne = 2 /\ Wired(child) = WireInput(child) /\ child.pi = 1
      BY <1>1, <1>5, <1>6, <2>1, <2>2, <2>5 DEF Even
    <3>2. From(1) \ {1} = From(3) /\ From(2) \ {1} = From(3) /\ 1 \in From(1)
      BY <2>1, <2>5, <3>1 DEF From
    <3>3. child.rd = From(1) /\ child.wr = From(2)
      BY <2>2, <2>5
    <3>4. /\ WireInput(child).in = Pipe(1) /\ WireInput(child).out = child.out
          /\ WireInput(child).rd = From(3) /\ WireInput(child).wr = From(3)
      BY <1>4, <1>6, <2>5, <3>1, <3>2, <3>3 DEF Dup
    <3> QED
      BY <2>2, <2>5, <3>1, <3>4
  <2> QED
    BY <2>1, <2>3, <2>4, <2>5
<1> QED
  BY <1>7, <1>8

LEMMA ExecInv ==
  ASSUME ShellInv, Exec
  PROVE  ShellInv'
<1>1. child.pc = "born" /\ UNCHANGED <<shell, world>>
  BY DEF Exec
<1>2. child.hand = 0 /\ child \in Child
  BY <1>1, ChildFacts DEF ShellInv, Children
<1>3. CASE Program(child.argv) \notin Writers \union Readers
  <2>1. child' = Ended(child)
    BY <1>3 DEF Exec
  <2>2. ~(Filters /\ cmdIndex # 0)
    BY <1>1, <1>3, FilterFacts DEF Readers
  <2> QED
    BY <1>1, <1>2, <2>1, <2>2, EndInv
<1>4. CASE Program(child.argv) \in Writers \union Readers
  <2>1. PICK n \in (0 .. MaxOut) \union {1} :
          /\ child' = [Wired(child) EXCEPT !.pc = "runs", !.left = n]
          /\ Program(child.argv) \in Readers => n = 0
    <3> DEFINE p == Program(child.argv)
    <3>1. \E n \in CASE p = "gen" -> 0 .. MaxOut [] p = "mypwd" -> {1} [] OTHER -> {0} :
            child' = [Wired(child) EXCEPT !.pc = "runs", !.left = n]
      BY <1>4 DEF Exec
    <3> HIDE DEF p
    <3>2. CASE p = "gen"
      BY <3>1, <3>2 DEF Readers, p
    <3>3. CASE p = "mypwd"
      BY <3>1, <3>3 DEF Readers, p
    <3>4. CASE p \notin {"gen", "mypwd"}
      <4>1. 0 \in 0 .. MaxOut
        BY ShellAssumption
      <4> QED
        BY <3>1, <3>4, <4>1
    <3> QED
      BY <3>2, <3>3, <3>4
  <2> DEFINE c == Wired(child)
  <2>2. /\ c \in Child /\ c.argv = child.argv /\ c.hand = child.hand
        /\ Short =>
                 /\ c.rd = From(cmdIndex + 1) /\ c.wr = From(cmdIndex + 1)
                 /\ IF cmdIndex = 0 THEN c.in[1] # "pipe" ELSE c.in = Pipe(cmdIndex - 1)
                 /\ IF cmdIndex = LastOne THEN c.out[1] # "pipe" /\ c.out # Closed
                                          ELSE c.out = Pipe(cmdIndex)
    BY <1>1, WiredFacts
  <2> HIDE DEF c
  <2>3. /\ child' \in Child /\ child'.pc = "runs" /\ child'.left = n
        /\ child'.argv = child.argv /\ child'.hand = 0
        /\ child'.rd = c.rd /\ child'.wr = c.wr /\ child'.in = c.in /\ child'.out = c.out
    <3>1. child' = [c EXCEPT !.pc = "runs", !.left = n]
      BY <2>1 DEF c
    <3> QED
      BY <1>2, <2>2, <3>1 DEF Child
  <2>4. UNCHANGED <<buf, files, emitted, shown>>
    BY <1>1 DEF world
  <2>5. /\ TypeOK' /\ Lists' /\ Running /\ Running' /\ child'.argv = cmds'[cmdIndex' + 1]
        /\ cmdIndex' = cmdIndex /\ at' = at /\ rd' = rd /\ wr' = wr /\ cmds' = cmds
    BY <1>1, <2>3, <2>4, ChildFacts, ChildFrame
  <2>6. Children'
    BY <1>4, <2>1, <2>3, <2>5 DEF Children
  <2>7. Wiring'
    BY <2>2, <2>3, <2>5, SameCommands DEF ShellInv, Wiring
  <2>8. Flow'
    <3>1. In(0)' = In(0) /\ In(1)' = In(1)
      BY <2>4, <2>5, SameCommands DEF In
    <3>2. at' \in {"close", "wait"}
      BY <1>1, <2>5, ChildFacts
    <3> QED
      BY <1>2, <2>3, <2>4, <2>5, <3>1, <3>2, SameCommands DEF ShellInv, Flow
  <2> QED
    BY <2>5, <2>6, <2>7, <2>8 DEF ShellInv
<1> QED
  BY <1>3, <1>4

LEMMA StreamFacts ==
  ASSUME NEW s \in Stream
  PROVE  /\ s[1] = "pipe" => s[2] \in Ends /\ s = Pipe(s[2])
         /\ s[1] = "file" => s[2] \in Files
<1>1. CASE s \in {Tty, Closed}
  BY <1>1 DEF Tty, Closed
<1>2. CASE \E i \in Ends : s = Pipe(i)
  BY <1>2 DEF Pipe
<1>3. CASE \E f \in Files : s = File(f)
  BY <1>3 DEF File
<1> QED
  BY <1>1, <1>2, <1>3 DEF Stream

\* What is in the pipes of a short line, when one pipe has changed.
LEMMA PipesSum ==
  ASSUME Ends \subseteq {0, 1}, UNCHANGED cmds, buf \in [Ends -> 0 .. Capacity],
         NEW p \in Ends, NEW n \in Nat, buf' = [buf EXCEPT ![p] = n]
  PROVE  /\ In(0) \in Nat /\ In(1) \in Nat /\ In(0)' \in Nat /\ In(1)' \in Nat
         /\ In(0)' + In(1)' = In(0) + In(1) + n - buf[p]
<1>1. /\ In(0) = (IF 0 \in Ends THEN buf[0] ELSE 0) /\ In(1) = (IF 1 \in Ends THEN buf[1] ELSE 0)
      /\ In(0)' = (IF 0 \in Ends THEN buf'[0] ELSE 0) /\ In(1)' = (IF 1 \in Ends THEN buf'[1] ELSE 0)
  BY SameCommands DEF In
<1>2. \A q \in Ends : buf[q] \in Nat /\ buf'[q] = IF q = p THEN n ELSE buf[q]
  BY ShellAssumption
<1>3. CASE p = 0
  BY <1>1, <1>2, <1>3
<1>4. CASE p = 1
  BY <1>1, <1>2, <1>4
<1> QED
  BY <1>3, <1>4

LEMMA ShortEnds ==
  ASSUME ShellInv, child.pc # "none", Short
  PROVE  Ends \subseteq {0, 1} /\ LastOne \in 0 .. 2
<1>1. Ends = 0 .. LastOne - 1 /\ LastOne = Len(cmds) - 1 /\ Len(cmds) \in Nat /\ LastOne \in Nat
  BY ChildFacts
<1> QED
  BY <1>1 DEF Short

\* A running child gets or gives a chunk.
LEMMA ChunkFrame ==
  ASSUME ShellInv, child.pc = "runs", UNCHANGED shell, child' \in Child,
         child'.pc = "runs", child'.argv = child.argv,
         child'.in = child.in, child'.out = child.out,
         child'.rd = child.rd, child'.wr = child.wr,
         Program(child.argv) \in Writers => child'.hand = 0,
         Program(child.argv) \in Readers => child'.left = 0,
         buf' \in [Ends -> 0 .. Capacity], files' \in [Files -> {Absent} \union Nat],
         emitted' \in Nat, shown' \in Nat
  PROVE  /\ TypeOK' /\ Lists' /\ Children' /\ Wiring'
         /\ cmdIndex' = cmdIndex /\ at' = at /\ cmds' = cmds
<1>1. /\ TypeOK' /\ Lists' /\ Running /\ Running' /\ child'.argv = cmds'[cmdIndex' + 1]
      /\ cmdIndex' = cmdIndex /\ at' = at /\ rd' = rd /\ wr' = wr /\ cmds' = cmds
  BY ChildFrame
<1>2. Children'
  BY <1>1 DEF ShellInv, Children
<1>3. Wiring'
  BY <1>1, SameCommands DEF ShellInv, Wiring
<1> QED
  BY <1>1, <1>2, <1>3

LEMMA ReadInv ==
  ASSUME ShellInv, Read
  PROVE  ShellInv'
<1> DEFINE i == child.in
<1>1. /\ child.pc = "runs" /\ Program(child.argv) \in Readers /\ child.hand = 0
      /\ UNCHANGED <<shell, files, emitted, shown>>
  BY DEF Read
<1>2. /\ child \in Child /\ i \in Stream /\ buf \in [Ends -> 0 .. Capacity]
      /\ files \in [Files -> {Absent} \union Nat] /\ emitted \in Nat /\ shown \in Nat
      /\ cmdIndex \in 0 .. LastOne
  BY <1>1, ChildFacts DEF Child
<1>3. child.left = 0 /\ Program(child.argv) \notin Writers
  BY <1>1 DEF ShellInv, Children, Writers, Readers
<1>4. Filters /\ cmdIndex # 0 => i = Pipe(cmdIndex - 1) /\ i[1] = "pipe" /\ i[2] = cmdIndex - 1
  BY <1>1 DEF ShellInv, Wiring, Filters, Pipe
<1>5. Filters /\ cmdIndex = 0 => i[1] # "pipe"
  BY <1>1 DEF ShellInv, Wiring, Filters
<1> HIDE DEF i
<1>6. CASE i[1] = "pipe" /\ buf[i[2]] > 0 /\ buf' = [buf EXCEPT ![i[2]] = @ - 1]
           /\ child' = [child EXCEPT !.hand = 1]
  <2>1. i[2] \in Ends /\ buf[i[2]] \in 1 .. Capacity
    BY <1>2, <1>6, StreamFacts, ShellAssumption
  <2>2. buf' = [buf EXCEPT ![i[2]] = buf[i[2]] - 1] /\ buf' \in [Ends -> 0 .. Capacity]
    BY <1>2, <1>6, <2>1, ShellAssumption
  <2>3. /\ child' \in Child /\ child'.pc = "runs" /\ child'.argv = child.argv
        /\ child'.hand = 1 /\ child'.left = 0 /\ child'.in = child.in /\ child'.out = child.out
        /\ child'.rd = child.rd /\ child'.wr = child.wr
    BY <1>1, <1>2, <1>3, <1>6 DEF Child
  <2>4. /\ TypeOK' /\ Lists' /\ Children' /\ Wiring'
        /\ cmdIndex' = cmdIndex /\ at' = at /\ cmds' = cmds
    BY <1>1, <1>2, <1>3, <2>2, <2>3, ChunkFrame
  <2>5. Flow'
    <3> SUFFICES ASSUME Filters PROVE Flow'
      BY <2>4, SameCommands DEF Flow
    <3>1. cmdIndex # 0 /\ i[2] = cmdIndex - 1 /\ at \in {"close", "wait"}
      BY <1>1, <1>4, <1>5, <1>6, ChildFacts
    <3>2. In(0)' + In(1)' = In(0) + In(1) - 1 /\ In(0)' \in Nat /\ In(1)' \in Nat
          /\ In(0) \in Nat /\ In(1) \in Nat
      <4>1. Ends \subseteq {0, 1}
        BY <1>1, ShortEnds DEF Filters
      <4>2. buf[i[2]] \in Nat /\ buf[i[2]] - 1 \in Nat /\ cmds' = cmds
        BY <2>1, <2>4, ShellAssumption
      <4>3. /\ In(0) \in Nat /\ In(1) \in Nat /\ In(0)' \in Nat /\ In(1)' \in Nat
            /\ In(0)' + In(1)' = In(0) + In(1) + (buf[i[2]] - 1) - buf[i[2]]
        BY <1>2, <2>1, <2>2, <4>1, <4>2, PipesSum
      <4> QED
        BY <4>2, <4>3
    <3>3. emitted = In(0) + In(1) + 0 + shown /\ \A p \in Ends : p < cmdIndex - 1 => buf[p] = 0
      BY <1>1, <3>1 DEF ShellInv, Flow
    <3>4. emitted' = In(0)' + In(1)' + child'.hand + shown'
      BY <1>1, <1>2, <2>3, <3>2, <3>3
    <3>5. \A p \in Ends : p < cmdIndex - 1 => buf'[p] = 0
      BY <1>2, <2>2, <3>1, <3>3
    <3> QED
      BY <2>3, <2>4, <3>1, <3>4, <3>5, SameCommands DEF Flow
  <2> QED
    BY <2>4, <2>5 DEF ShellInv
<1>7. CASE i[1] = "file" /\ child' = [child EXCEPT !.hand = 1, !.pos = @ + 1] /\ UNCHANGED buf
  <2>1. /\ child' \in Child /\ child'.pc = "runs" /\ child'.argv = child.argv
        /\ child'.left = 0 /\ child'.in = child.in /\ child'.out = child.out
        /\ child'.rd = child.rd /\ child'.wr = child.wr /\ child'.hand = 1
    <3>1. child.pos + 1 \in Nat /\ 1 \in {0, 1}
      BY <1>2 DEF Child
    <3>2. child' = [[child EXCEPT !.hand = 1] EXCEPT !.pos = child.pos + 1]
      BY <1>7
    <3>3. [child EXCEPT !.hand = 1] \in Child
      BY <1>2, <3>1 DEF Child
    <3> DEFINE c == [child EXCEPT !.hand = 1]
    <3>4. /\ c.pc = "runs" /\ c.argv = child.argv /\ c.left = 0 /\ c.in = child.in
          /\ c.out = child.out /\ c.rd = child.rd /\ c.wr = child.wr /\ c.hand = 1
      BY <1>1, <1>2, <1>3 DEF Child
    <3> HIDE DEF c
    <3>5. c \in Child /\ child' = [c EXCEPT !.pos = child.pos + 1]
      BY <3>2, <3>3 DEF c
    <3>6. child' \in Child
      BY <3>1, <3>5 DEF Child
    <3> QED
      BY <3>4, <3>5, <3>6 DEF Child
  <2>2. /\ TypeOK' /\ Lists' /\ Children' /\ Wiring'
        /\ cmdIndex' = cmdIndex /\ at' = at /\ cmds' = cmds
    BY <1>1, <1>2, <1>3, <1>7, <2>1, ChunkFrame
  <2>3. Flow'
    <3> SUFFICES ASSUME Filters PROVE Flow'
      BY <2>2, SameCommands DEF Flow
    <3>1. cmdIndex = 0 /\ at \in {"close", "wait"}
      BY <1>1, <1>4, <1>7, ChildFacts
    <3>2. In(0)' = In(0) /\ In(1)' = In(1)
      BY <1>7, <2>2, SameCommands DEF In
    <3> QED
      BY <1>1, <1>7, <2>1, <2>2, <3>1, <3>2, SameCommands DEF ShellInv, Flow
  <2> QED
    BY <2>2, <2>3 DEF ShellInv
<1>8. CASE child' = Ended(child) /\ UNCHANGED buf /\ (i[1] = "pipe" => buf[i[2]] = 0)
  BY <1>1, <1>4, <1>8, EndInv DEF world
<1> QED
  <2>1. i \in {Tty, Closed} \/ i[1] = "file" => i[1] # "pipe"
    BY DEF Tty, Closed
  <2> QED
    BY <1>6, <1>7, <1>8, <2>1 DEF Read, i

LEMMA FinishInv ==
  ASSUME ShellInv, Finish
  PROVE  ShellInv'
<1>1. /\ child.pc = "runs" /\ Program(child.argv) \in Writers
      /\ child' = Ended(child) /\ UNCHANGED <<shell, world>>
  BY DEF Finish
<1>2. child.hand = 0
  BY <1>1 DEF ShellInv, Children
<1>3. ~(Filters /\ cmdIndex # 0)
  BY <1>1, FilterFacts DEF Writers
<1> QED
  BY <1>1, <1>2, <1>3, EndInv

\* A command of a chain that is not the first always has somebody to write to.
LEMMA NeverBroken ==
  ASSUME ShellInv, child.pc = "runs", Filters, cmdIndex # 0
  PROVE  ~(child.out = Closed \/ (child.out[1] = "pipe" /\ ~HasReader(child.out[2])))
<1>1. /\ cmdIndex \in 0 .. LastOne /\ LastOne \in Nat /\ Ends = 0 .. LastOne - 1
      /\ at \in {"close", "wait"}
  BY ChildFacts
<1>2. CASE cmdIndex = LastOne
  BY <1>2 DEF ShellInv, Wiring, Filters
<1>3. CASE cmdIndex # LastOne
  <2>1. child.out = Pipe(cmdIndex)
    BY <1>3 DEF ShellInv, Wiring, Filters
  <2>2. child.out[1] = "pipe" /\ child.out[2] = cmdIndex /\ Closed[1] = "closed"
    BY <2>1 DEF Pipe, Closed
  <2>3. rd = From(cmdIndex - 1) \/ rd = From(cmdIndex)
    BY <1>1 DEF ShellInv, Wiring, Filters
  <2>4. cmdIndex \in rd
    BY <1>1, <1>3, <2>3 DEF From
  <2> QED
    BY <2>2, <2>4 DEF HasReader
<1> QED
  BY <1>2, <1>3

\* The child after a write: a writer has one chunk less to write, a filter has its
\* hands free, head has ended.
LEMMA WroteFacts ==
  ASSUME ShellInv, child.pc = "runs", child.left + child.hand > 0, child' = Wrote(child)
  PROVE  /\ child' \in Child /\ child'.argv = child.argv /\ child'.hand = 0
         /\ \/ /\ child'.pc = "runs" /\ child'.in = child.in /\ child'.out = child.out
               /\ child'.rd = child.rd /\ child'.wr = child.wr
               /\ Program(child.argv) \in Readers =>
                    child'.left = 0 /\ child.hand = 1 /\ Program(child.argv) = "filter"
            \/ /\ child'.pc = "ended" /\ child'.left = 0 /\ Program(child.argv) = "head"
<1>1. child \in Child
  BY ChildFacts
<1>2. /\ Program(child.argv) \in Writers \union Readers
      /\ Program(child.argv) \in Writers => child.hand = 0
      /\ Program(child.argv) \in Readers => child.left = 0
  BY DEF ShellInv, Children
<1>3. child.left \in (0 .. MaxOut) \union {1} /\ child.hand \in {0, 1}
  BY <1>1 DEF Child
<1>4. CASE Program(child.argv) \in Writers
  <2>1. child' = [child EXCEPT !.left = child.left - 1]
    BY <1>4 DEF Wrote, Writers
  <2>2. child.hand = 0 /\ child.left - 1 \in (0 .. MaxOut) \union {1}
        /\ Program(child.argv) \notin Readers
    BY <1>2, <1>3, <1>4, ShellAssumption DEF Writers, Readers
  <2>3. child' \in Child
    BY <1>1, <2>1, <2>2 DEF Child
  <2>4. child'.argv = child.argv /\ child'.hand = 0 /\ child'.pc = "runs"
        /\ child'.in = child.in /\ child'.out = child.out /\ child'.rd = child.rd
        /\ child'.wr = child.wr
    BY <1>1, <2>1, <2>2 DEF Child
  <2> QED
    BY <2>2, <2>3, <2>4
<1>5. CASE Program(child.argv) = "filter"
  <2>1. child' = [child EXCEPT !.hand = 0]
    BY <1>5 DEF Wrote, Writers
  <2>2. child.left = 0 /\ child.hand = 1
    BY <1>2, <1>3, <1>5 DEF Readers
  <2>3. child' \in Child
    BY <1>1, <2>1 DEF Child
  <2>4. child'.argv = child.argv /\ child'.hand = 0 /\ child'.pc = "runs"
        /\ child'.in = child.in /\ child'.out = child.out /\ child'.rd = child.rd
        /\ child'.wr = child.wr /\ child'.left = child.left
    BY <1>1, <2>1 DEF Child
  <2> QED
    BY <1>5, <2>2, <2>3, <2>4
<1>6. CASE Program(child.argv) = "head"
  <2>1. child' = Ended(child)
    BY <1>6 DEF Wrote, Writers
  <2> QED
    BY <1>1, <1>6, <2>1, EndedFacts
<1> QED
  BY <1>2, <1>4, <1>5, <1>6 DEF Readers

LEMMA WriteInv ==
  ASSUME ShellInv, Write
  PROVE  ShellInv'
<1> DEFINE o == child.out
           broken == o = Closed \/ (o[1] = "pipe" /\ ~HasReader(o[2]))
<1>1. child.pc = "runs" /\ child.left + child.hand > 0 /\ UNCHANGED shell
  BY DEF Write
<1>2. /\ child \in Child /\ o \in Stream /\ buf \in [Ends -> 0 .. Capacity]
      /\ files \in [Files -> {Absent} \union Nat] /\ emitted \in Nat /\ shown \in Nat
      /\ cmdIndex \in 0 .. LastOne /\ at \in {"close", "wait"}
  BY <1>1, ChildFacts DEF Child
<1>3. CASE broken /\ child' = Ended(child) /\ UNCHANGED <<buf, files, emitted, shown>>
  <2>1. ~(Filters /\ cmdIndex # 0)
    BY <1>1, <1>3, NeverBroken
  <2> QED
    BY <1>1, <1>3, <2>1, EndInv DEF world
<1>4. CASE /\ ~broken /\ (o[1] = "pipe" => buf[o[2]] < Capacity) /\ child' = Wrote(child)
           /\ buf' = (IF o[1] = "pipe" THEN [buf EXCEPT ![o[2]] = @ + 1] ELSE buf)
           /\ files' = (IF o[1] = "file" THEN [files EXCEPT ![o[2]] = @ + 1] ELSE files)
           /\ emitted' = (IF cmdIndex = 0 THEN emitted + 1 ELSE emitted)
           /\ shown' = (IF o[1] # "pipe" THEN shown + 1 ELSE shown)
  <2> DEFINE goes == Program(child.argv) \in Readers =>
                       child'.left = 0 /\ child.hand = 1 /\ Program(child.argv) = "filter"
  <2>1. /\ child' \in Child /\ child'.argv = child.argv /\ child'.hand = 0
        /\ \/ /\ child'.pc = "runs" /\ child'.in = child.in /\ child'.out = child.out
              /\ child'.rd = child.rd /\ child'.wr = child.wr /\ goes
           \/ child'.pc = "ended" /\ child'.left = 0 /\ Program(child.argv) = "head"
    BY <1>1, <1>4, WroteFacts
  <2>2. /\ o[1] = "pipe" => o[2] \in Ends /\ buf[o[2]] \in Nat /\ buf[o[2]] + 1 \in 0 .. Capacity
        /\ o[1] = "file" => o[2] \in Files /\ files[o[2]] + 1 \in Nat
    <3>1. (o[1] = "pipe" => o[2] \in Ends) /\ (o[1] = "file" => o[2] \in Files)
      BY <1>2, StreamFacts
    <3>2. ASSUME o[1] = "pipe" PROVE buf[o[2]] \in 0 .. Capacity /\ buf[o[2]] < Capacity
      BY <1>2, <1>4, <3>1, <3>2
    <3>3. ASSUME o[1] = "file" PROVE files[o[2]] \in {-1} \union Nat
      BY <1>2, <3>1, <3>3 DEF Absent
    <3>4. Capacity \in Nat
      BY ShellAssumption
    <3> HIDE DEF o, broken
    <3>5. o[1] = "pipe" => buf[o[2]] \in Nat /\ buf[o[2]] + 1 \in 0 .. Capacity
      BY <3>2, <3>4
    <3>6. o[1] = "file" => files[o[2]] + 1 \in Nat
      BY <3>3
    <3> QED
      BY <3>1, <3>5, <3>6
  <2>3. buf' \in [Ends -> 0 .. Capacity] /\ files' \in [Files -> {Absent} \union Nat]
        /\ emitted' \in Nat /\ shown' \in Nat
    <3>1. buf' \in [Ends -> 0 .. Capacity]
      BY <1>2, <1>4, <2>2
    <3>2. files' \in [Files -> {Absent} \union Nat]
      BY <1>2, <1>4, <2>2
    <3> QED
      BY <1>2, <1>4, <3>1, <3>2
  <2> HIDE DEF goes
  <2>4. /\ TypeOK' /\ Lists' /\ Running /\ Running' /\ child'.argv = cmds'[cmdIndex' + 1]
        /\ cmdIndex' = cmdIndex /\ at' = at /\ rd' = rd /\ wr' = wr /\ cmds' = cmds
    BY <1>1, <2>1, <2>3, ChildFrame
  <2>5. Children' /\ Wiring'
    <3>1. CASE child'.pc = "runs"
      BY <1>1, <2>1, <2>3, <3>1, ChunkFrame DEF goes
    <3>2. CASE child'.pc = "ended"
      <4>1. Children'
        BY <2>1, <2>4, <3>2 DEF Children, Readers, Writers
      <4>2. Wiring'
        BY <2>4, <3>2, SameCommands DEF ShellInv, Wiring
      <4> QED
        BY <4>1, <4>2
    <3> QED
      BY <2>1, <3>1, <3>2
  <2>6. Flow'
    <3> SUFFICES ASSUME Filters PROVE Flow'
      BY <2>4, SameCommands DEF Flow
    <3>1. /\ emitted = In(0) + In(1) + (IF cmdIndex = 0 THEN 0 ELSE child.hand) + shown
          /\ \A p \in Ends : p < cmdIndex - 1 => buf[p] = 0
      BY <1>2 DEF ShellInv, Flow
    <3>2. cmdIndex # 0 => child'.pc = "runs" /\ child.hand = 1
      BY <1>1, <2>1, FilterFacts DEF goes, Readers
    <3>3. o[1] = "pipe" => o[2] = cmdIndex
      BY <1>1 DEF ShellInv, Wiring, Filters, Pipe
    <3>4. \A p \in Ends : p < cmdIndex - 1 => buf'[p] = 0
      BY <1>2, <1>4, <3>1, <3>3
    <3>5. /\ In(0) \in Nat /\ In(1) \in Nat /\ In(0)' \in Nat /\ In(1)' \in Nat
          /\ In(0)' + In(1)' + shown' = In(0) + In(1) + shown + 1
      <4>1. CASE o[1] = "pipe"
        <5>1. Ends \subseteq {0, 1}
          BY <1>1, ShortEnds DEF Filters
        <5>2. buf' = [buf EXCEPT ![o[2]] = buf[o[2]] + 1] /\ o[2] \in Ends
              /\ buf[o[2]] \in Nat /\ buf[o[2]] + 1 \in Nat /\ shown' = shown
          BY <1>4, <2>2, <4>1
        <5>3. /\ In(0) \in Nat /\ In(1) \in Nat /\ In(0)' \in Nat /\ In(1)' \in Nat
              /\ In(0)' + In(1)' = In(0) + In(1) + (buf[o[2]] + 1) - buf[o[2]]
          BY <1>2, <2>4, <5>1, <5>2, PipesSum
        <5> HIDE DEF o
        <5> QED
          BY <1>2, <5>2, <5>3
      <4>2. CASE o[1] # "pipe"
        <5>1. In(0)' = In(0) /\ In(1)' = In(1) /\ shown' = shown + 1
          BY <1>4, <2>4, <4>2, SameCommands DEF In
        <5>2. In(0) \in Nat /\ In(1) \in Nat
          BY <1>2, ShellAssumption DEF In
        <5> QED
          BY <1>2, <5>1, <5>2
      <4> QED
        BY <4>1, <4>2
    <3>6. emitted' = In(0)' + In(1)' + (IF cmdIndex = 0 THEN 0 ELSE child'.hand) + shown'
      <4>1. emitted' = IF cmdIndex = 0 THEN emitted + 1 ELSE emitted
        BY <1>4
      <4> HIDE DEF o, broken
      <4>2. CASE cmdIndex = 0
        BY <1>2, <2>3, <3>1, <3>5, <4>1, <4>2
      <4>3. CASE cmdIndex # 0
        BY <1>2, <2>1, <2>3, <3>1, <3>2, <3>5, <4>1, <4>3
      <4> QED
        BY <4>2, <4>3
    <3> QED
      BY <1>2, <2>4, <3>2, <3>4, <3>6, SameCommands DEF Flow
  <2> QED
    BY <2>4, <2>5, <2>6 DEF ShellInv
<1> QED
  BY <1>3, <1>4 DEF Write

-----------------------------------------------------------------------------
(* What is left of the line when its redirections have been taken out       *)

\* What Min means for numbers.
LEMMA MinFacts ==
  ASSUME NEW S \in SUBSET Nat, S # {}
  PROVE  Min(S) \in S /\ \A y \in S : Min(S) <= y
<1> DEFINE R == OpToRel(<, Nat)
<1>1. PICK x \in S : \A y \in S : ~(<<y, x>> \in R)
  <2> HIDE DEF R
  <2>1. IsWellFoundedOn(R, Nat)
    BY NatLessThanWellFounded DEF R
  <2> QED
    BY <2>1, WFMin
<1>2. \A y \in S : x <= y
  <2> TAKE y \in S
  <2>1. <<y, x>> \in R <=> y < x
    BY DEF OpToRel
  <2>2. x \in Nat /\ y \in Nat
    OBVIOUS
  <2> HIDE DEF R
  <2> QED
    BY <1>1, <2>1, <2>2
<1> QED
  BY <1>2 DEF Min

LEMMA WhereFacts ==
  ASSUME NEW ts \in Seq(STRING), NEW t
  PROVE  /\ Where(ts, t) \in 0 .. Len(ts)
         /\ Where(ts, t) = 0 => \A i \in 1 .. Len(ts) : ts[i] # t
         /\ Where(ts, t) # 0 => ts[Where(ts, t)] = t
<1> DEFINE I == {i \in 1 .. Len(ts) : ts[i] = t}
<1>1. Where(ts, t) = IF I # {} THEN Min(I) ELSE 0
  BY DEF Where, SelectInSeq
<1>2. I \in SUBSET Nat
  OBVIOUS
<1>3. I # {} => Min(I) \in I
  <2> HIDE DEF I
  <2> QED
    BY <1>2, MinFacts
<1>4. Len(ts) \in Nat
  OBVIOUS
<1> QED
  BY <1>1, <1>3, <1>4

LEMMA RemoveFacts ==
  ASSUME NEW ts \in Seq(STRING), NEW t
  PROVE  /\ (\A i \in 1 .. Len(ts) : ts[i] # t) => RemoveFirst(ts, t) = ts
         /\ (\E i \in 1 .. Len(ts) : ts[i] = t) => RemoveFirst(ts, t) = RemoveAt(ts, Where(ts, t))
BY DEF RemoveFirst, Where

\* The entries that are left when one goes.
LEMMA RemoveAtFacts ==
  ASSUME NEW ts \in Seq(STRING), NEW m \in 1 .. Len(ts)
  PROVE  /\ RemoveAt(ts, m) \in Seq(STRING) /\ Len(RemoveAt(ts, m)) = Len(ts) - 1
         /\ \A k \in 1 .. Len(ts) - 1 :
               RemoveAt(ts, m)[k] = IF k < m THEN ts[k] ELSE ts[k + 1]
<1> DEFINE a == SubSeq(ts, 1, m - 1)
           b == SubSeq(ts, m + 1, Len(ts))
<1>1. /\ Len(ts) \in Nat /\ m \in Nat /\ m >= 1 /\ m <= Len(ts)
      /\ \A i \in 1 .. Len(ts) : ts[i] \in STRING
  BY LenProperties, ElementOfSeq
<1>2. a \in Seq(STRING) /\ Len(a) = m - 1 /\ \A i \in 1 .. m - 1 : a[i] = ts[i]
  BY <1>1, SubSeqProperties
<1>3. /\ b \in Seq(STRING) /\ Len(b) = Len(ts) - m
      /\ \A i \in 1 .. Len(ts) - m : b[i] = ts[m + i]
  BY <1>1, SubSeqProperties
<1> HIDE DEF a, b
<1>4. /\ a \o b \in Seq(STRING) /\ Len(a \o b) = Len(ts) - 1
      /\ \A i \in 1 .. Len(ts) - 1 : (a \o b)[i] = IF i < m THEN a[i] ELSE b[i - m + 1]
  <2>1. Len(a) + Len(b) = Len(ts) - 1
    BY <1>1, <1>2, <1>3
  <2>2. /\ a \o b \in Seq(STRING) /\ Len(a \o b) = Len(a) + Len(b)
        /\ \A i \in 1 .. Len(a) + Len(b) :
              (a \o b)[i] = IF i <= Len(a) THEN a[i] ELSE b[i - Len(a)]
    BY <1>2, <1>3, ConcatProperties
  <2> QED
    BY <1>1, <1>2, <2>1, <2>2
<1>5. \A k \in 1 .. Len(ts) - 1 : (a \o b)[k] = IF k < m THEN ts[k] ELSE ts[k + 1]
  <2> TAKE k \in 1 .. Len(ts) - 1
  <2>1. CASE k < m
    BY <1>1, <1>2, <1>4, <2>1
  <2>2. CASE ~(k < m)
    <3>1. k - m + 1 \in 1 .. Len(ts) - m /\ m + (k - m + 1) = k + 1
      BY <1>1, <2>2
    <3> QED
      BY <1>3, <1>4, <2>2, <3>1
  <2> QED
    BY <2>1, <2>2
<1>6. RemoveAt(ts, m) = a \o b
  BY DEF RemoveAt, a, b
<1> QED
  BY <1>4, <1>5, <1>6

\* A token that occurs once among those selected is where it is in the line, and
\* removing it leaves the others.
LEMMA DropToken ==
  ASSUME raw \in Seq(STRING), NEW S \in SUBSET DOMAIN raw, NEW ts, TokenList(ts, S),
         NEW p \in S, \A j \in S : raw[j] = raw[p] => j = p
  PROVE  TokenList(RemoveFirst(ts, raw[p]), S \ {p})
<1>1. ts \in Seq(STRING) /\ DOMAIN ts = 1 .. Len(ts) /\ Len(ts) \in Nat
  BY DEF TokenList
<1>2. PICK g \in [DOMAIN ts -> S] :
        /\ \A k, l \in DOMAIN ts : k < l => g[k] < g[l]
        /\ \A i \in S : \E k \in DOMAIN ts : g[k] = i
        /\ \A k \in DOMAIN ts : ts[k] = raw[g[k]]
  BY DEF TokenList, Selects
<1>3. \E k \in 1 .. Len(ts) : ts[k] = raw[p]
  BY <1>1, <1>2
<1> DEFINE m == Where(ts, raw[p])
           us == RemoveAt(ts, m)
           h == [k \in 1 .. Len(ts) - 1 |-> IF k < m THEN g[k] ELSE g[k + 1]]
<1>4. m \in 1 .. Len(ts) /\ ts[m] = raw[p] /\ RemoveFirst(ts, raw[p]) = us
  <2>1. /\ m \in 0 .. Len(ts) /\ (m = 0 => \A i \in 1 .. Len(ts) : ts[i] # raw[p])
        /\ (m # 0 => ts[m] = raw[p])
    BY <1>1, WhereFacts
  <2>2. RemoveFirst(ts, raw[p]) = us
    BY <1>1, <1>3, RemoveFacts
  <2> QED
    BY <1>1, <1>3, <2>1, <2>2
<1> HIDE DEF m
<1>5. g[m] = p
  BY <1>1, <1>2, <1>4
<1>6. us \in Seq(STRING) /\ Len(us) = Len(ts) - 1
      /\ \A k \in 1 .. Len(us) : us[k] = IF k < m THEN ts[k] ELSE ts[k + 1]
  BY <1>1, <1>4, RemoveAtFacts
<1> HIDE DEF us
<1>7. DOMAIN us = 1 .. Len(ts) - 1
  BY <1>6
<1>8. S \subseteq Int
  <2>1. DOMAIN raw = 1 .. Len(raw)
    OBVIOUS
  <2> QED
    BY <2>1
<1>9. /\ h \in [DOMAIN us -> S \ {p}]
      /\ \A k, l \in DOMAIN us : k < l => h[k] < h[l]
      /\ \A k \in DOMAIN us : us[k] = raw[h[k]]
  <2>1. \A k \in 1 .. Len(ts) - 1 : /\ k \in 1 .. Len(ts) /\ k + 1 \in 1 .. Len(ts)
                                   /\ g[k] \in S /\ g[k + 1] \in S
    BY <1>1, <1>2
  <2>2. \A k \in 1 .. Len(ts) - 1 : h[k] \in S /\ h[k] # p
    <3> TAKE k \in 1 .. Len(ts) - 1
    <3>1. CASE k < m
      <4>1. g[k] < g[m] /\ g[k] \in S /\ h[k] = g[k]
        BY <1>1, <1>2, <1>4, <2>1, <3>1
      <4> QED
        BY <1>5, <1>8, <4>1
    <3>2. CASE ~(k < m)
      <4>1. g[m] < g[k + 1] /\ g[k + 1] \in S /\ h[k] = g[k + 1]
        BY <1>1, <1>2, <1>4, <2>1, <3>2
      <4> QED
        BY <1>5, <1>8, <4>1
    <3> QED
      BY <3>1, <3>2
  <2>3. h \in [DOMAIN us -> S \ {p}]
    BY <1>7, <2>2
  <2>4. \A k, l \in DOMAIN us : k < l => h[k] < h[l]
    <3> SUFFICES ASSUME NEW k \in 1 .. Len(ts) - 1, NEW l \in 1 .. Len(ts) - 1, k < l
                 PROVE  h[k] < h[l]
      BY <1>7
    <3>1. CASE l < m
      BY <1>1, <1>2, <1>4, <2>1, <3>1
    <3>2. CASE k < m /\ ~(l < m)
      <4>1. g[k] < g[l + 1]
        BY <1>1, <1>2, <2>1
      <4> QED
        BY <1>4, <3>2, <4>1
    <3>3. CASE ~(k < m)
      <4>1. k + 1 < l + 1 /\ k + 1 \in DOMAIN ts /\ l + 1 \in DOMAIN ts
        BY <1>1, <2>1
      <4>2. g[k + 1] < g[l + 1]
        BY <1>2, <4>1
      <4>3. ~(l < m)
        BY <1>4, <3>3
      <4> QED
        BY <3>3, <4>2, <4>3
    <3> QED
      BY <1>4, <3>1, <3>2, <3>3
  <2>5. \A k \in DOMAIN us : us[k] = raw[h[k]]
    <3> TAKE k \in DOMAIN us
    <3>1. us[k] = IF k < m THEN ts[k] ELSE ts[k + 1]
      BY <1>6, <1>7
    <3> QED
      BY <1>1, <1>2, <1>7, <2>1, <3>1
  <2> QED
    BY <2>3, <2>4, <2>5
<1>10. \A i \in S \ {p} : \E k \in DOMAIN us : h[k] = i
  <2> TAKE i \in S \ {p}
  <2>1. PICK k \in DOMAIN ts : g[k] = i
    BY <1>2
  <2>2. k # m
    BY <1>5, <2>1
  <2>3. CASE k < m
    <3>1. k \in 1 .. Len(ts) - 1 /\ h[k] = i
      BY <1>1, <1>4, <2>1, <2>3
    <3> QED
      BY <1>7, <3>1
  <2>4. CASE k > m
    <3>1. k - 1 \in 1 .. Len(ts) - 1 /\ ~(k - 1 < m) /\ k - 1 + 1 = k
      BY <1>1, <1>4, <2>4
    <3>2. h[k - 1] = i
      BY <2>1, <3>1
    <3> QED
      BY <1>7, <3>1, <3>2
  <2>5. k \in Int /\ m \in Int
    BY <1>1, <1>4
  <2>6. k < m \/ k > m
    BY <2>2, <2>5
  <2> QED
    BY <2>3, <2>4, <2>6
<1> HIDE DEF h
<1>11. Selects(us, S \ {p})
  BY <1>9, <1>10 DEF Selects
<1> QED
  BY <1>4, <1>6, <1>11 DEF TokenList

\* The token behind one that occurs once is the one behind it in the line, if that
\* has not been removed.
LEMMA NextToken ==
  ASSUME raw \in Seq(STRING), NEW S \in SUBSET DOMAIN raw, NEW ts, TokenList(ts, S),
         NEW p \in S, \A j \in S : raw[j] = raw[p] => j = p,
         p + 1 \in DOMAIN raw => p + 1 \in S,
         NEW k \in DOMAIN ts, ts[k] = raw[p], k < Len(ts)
  PROVE  p + 1 \in S /\ ts[k + 1] = raw[p + 1]
<1>1. ts \in Seq(STRING) /\ DOMAIN ts = 1 .. Len(ts) /\ Len(ts) \in Nat
  BY DEF TokenList
<1>2. PICK g \in [DOMAIN ts -> S] :
        /\ \A a, b \in DOMAIN ts : a < b => g[a] < g[b]
        /\ \A i \in S : \E a \in DOMAIN ts : g[a] = i
        /\ \A a \in DOMAIN ts : ts[a] = raw[g[a]]
  BY DEF TokenList, Selects
<1>3. DOMAIN raw = 1 .. Len(raw) /\ Len(raw) \in Nat /\ S \subseteq Int
  <2>1. DOMAIN raw = 1 .. Len(raw) /\ Len(raw) \in Nat
    OBVIOUS
  <2> QED
    BY <2>1
<1>4. g[k] = p /\ k + 1 \in DOMAIN ts /\ k \in Int
  BY <1>1, <1>2
<1>5. g[k + 1] \in S /\ p < g[k + 1]
  <2>1. g[k] < g[k + 1]
    BY <1>1, <1>2, <1>4
  <2> QED
    BY <1>2, <1>4, <2>1
<1>6. p + 1 \in S
  BY <1>3, <1>5
<1>7. PICK m \in DOMAIN ts : g[m] = p + 1
  BY <1>2, <1>6
<1>8. m = k + 1
  <2>1. m \in Int
    BY <1>1
  <2>2. ~(m < k) /\ m # k
    <3>1. m < k => g[m] < g[k]
      BY <1>2
    <3> QED
      BY <1>3, <1>4, <1>7, <3>1
  <2>3. ~(k + 1 < m)
    <3>1. k + 1 < m => g[k + 1] < g[m]
      BY <1>2, <1>4
    <3> QED
      BY <1>3, <1>5, <1>7, <3>1
  <2> QED
    BY <1>4, <2>1, <2>2, <2>3
<1> QED
  BY <1>2, <1>6, <1>7, <1>8

\* A mark and the name behind it are taken out of the line.
LEMMA OneRedirection ==
  ASSUME raw \in Seq(STRING), NamesOccurOnce, NEW T \in SUBSET {"<", ">"},
         NEW t \in {"<", ">"} \ T, NEW ts, TokenList(ts, Rest(T))
  PROVE  LET i == Where(ts, t)
             f == After(ts, i)
         IN /\ i = 0 => Rest(T \union {t}) = Rest(T)
            /\ i # 0 /\ f \in Files => TokenList(Without(ts, t, f), Rest(T \union {t}))
<1> DEFINE i == Where(ts, t)
           f == After(ts, i)
           S == Rest(T)
<1>1. ts \in Seq(STRING) /\ DOMAIN ts = 1 .. Len(ts) /\ Len(ts) \in Nat
      /\ DOMAIN raw = 1 .. Len(raw) /\ S \subseteq DOMAIN raw
  BY DEF TokenList, Rest
<1>2. /\ i \in 0 .. Len(ts) /\ (i = 0 => \A k \in 1 .. Len(ts) : ts[k] # t)
      /\ (i # 0 => ts[i] = t)
  BY <1>1, WhereFacts
<1>3. \A p \in Marks : raw[p] = t =>
        /\ p \in S /\ (p + 1 \in DOMAIN raw => p + 1 \in S)
        /\ \A j \in DOMAIN raw : raw[j] = t => j = p
        /\ Rest(T \union {t}) = (S \ {p}) \ {p + 1}
  <2> SUFFICES ASSUME NEW p \in Marks, raw[p] = t
               PROVE  /\ p \in S /\ (p + 1 \in DOMAIN raw => p + 1 \in S)
                      /\ \A j \in DOMAIN raw : raw[j] = t => j = p
                      /\ Rest(T \union {t}) = (S \ {p}) \ {p + 1}
    OBVIOUS
  <2>1. p \in DOMAIN raw /\ Marks \subseteq Int /\ DOMAIN raw \subseteq Int
    BY <1>1 DEF Marks
  <2>2. \A j \in Marks : raw[j] = raw[p] => j = p
    BY DEF NamesOccurOnce
  <2>3. \A j \in Marks : j # p => p # j + 1 /\ p + 1 # j
    BY DEF NamesOccurOnce
  <2>4. p \in S
    BY <2>1, <2>3 DEF Rest
  <2>5. p + 1 \in DOMAIN raw => p + 1 \in S
    <3>1. \A j \in Marks : raw[j] \in T => j # p /\ p + 1 # j /\ p + 1 # j + 1
      BY <2>1, <2>3
    <3> QED
      BY <3>1 DEF Rest
  <2>6. \A j \in DOMAIN raw : raw[j] = t => j \in Marks
    BY DEF Marks
  <2>7. Rest(T \union {t}) = (S \ {p}) \ {p + 1}
    BY <2>2 DEF Rest
  <2> QED
    BY <2>2, <2>4, <2>5, <2>6, <2>7
<1>4. ASSUME i = 0 PROVE Rest(T \union {t}) = S
  <2>1. \A p \in S : raw[p] # t
    BY <1>1, <1>2, <1>4 DEF TokenList, Selects
  <2>2. \A p \in Marks : raw[p] # t
    BY <1>3, <2>1
  <2> QED
    BY <2>2 DEF Rest
<1>5. ASSUME i # 0, f \in Files PROVE TokenList(Without(ts, t, f), Rest(T \union {t}))
  <2>1. i \in DOMAIN ts /\ i < Len(ts) /\ f = ts[i + 1] /\ ts[i] = t
    BY <1>1, <1>2, <1>5, ShellAssumption DEF After, None
  <2>2. PICK p \in S : raw[p] = t
    BY <1>1, <2>1 DEF TokenList, Selects
  <2>3. p \in Marks
    BY <1>1, <2>2 DEF Marks
  <2>4. /\ (p + 1 \in DOMAIN raw => p + 1 \in S)
        /\ \A j \in S : raw[j] = raw[p] => j = p
        /\ Rest(T \union {t}) = (S \ {p}) \ {p + 1}
    BY <1>1, <1>3, <2>2, <2>3
  <2> HIDE DEF i, f, S
  <2>5. p + 1 \in S /\ f = raw[p + 1]
    <3>1. TokenList(ts, S) /\ S \in SUBSET DOMAIN raw
      BY <1>1 DEF S
    <3>2. ts[i] = raw[p]
      BY <2>1, <2>2
    <3>3. p + 1 \in S /\ ts[i + 1] = raw[p + 1]
      BY <2>1, <2>2, <2>4, <3>1, <3>2, NextToken
    <3> QED
      BY <2>1, <3>3
  <2>6. TokenList(RemoveFirst(ts, t), S \ {p})
    BY <1>1, <2>2, <2>4, DropToken DEF S
  <2>7. \A j \in S : raw[j] = raw[p + 1] => j = p + 1
    <3>1. p < Len(raw)
      BY <1>1, <2>5
    <3> QED
      BY <1>1, <2>3, <3>1 DEF NamesOccurOnce
  <2>8. p \in Int
    BY <1>1
  <2>9. TokenList(RemoveFirst(RemoveFirst(ts, t), f), (S \ {p}) \ {p + 1})
    <3> DEFINE us == RemoveFirst(ts, t)
    <3>1. p + 1 \in S \ {p} /\ S \ {p} \in SUBSET DOMAIN raw
      BY <1>1, <2>5, <2>8 DEF S
    <3>2. \A j \in S \ {p} : raw[j] = raw[p + 1] => j = p + 1
      BY <2>7
    <3> HIDE DEF us
    <3>3. TokenList(us, S \ {p})
      BY <2>6 DEF us
    <3>4. TokenList(RemoveFirst(us, raw[p + 1]), (S \ {p}) \ {p + 1})
      BY <3>1, <3>2, <3>3, DropToken
    <3> QED
      BY <2>5, <3>4 DEF us
  <2> QED
    BY <2>4, <2>9 DEF Without
<1> QED
  BY <1>4, <1>5

\* Nothing has been taken out of a line that has just been read.
LEMMA WholeLine ==
  ASSUME NEW l \in Seq(STRING), raw' = l, cmds' = <<l>>
  PROVE  TokenList(cmds[1], Rest({}))'
<1>1. cmds'[1] = l /\ DOMAIN l = 1 .. Len(l)
  OBVIOUS
<1>2. Rest({})' = DOMAIN l
  BY DEF Rest
<1> DEFINE g == [i \in DOMAIN l |-> i]
<1>3. g \in [DOMAIN l -> DOMAIN l] /\ \A i \in DOMAIN l : g[i] = i
  OBVIOUS
<1> HIDE DEF g
<1>4. /\ \A k, m \in DOMAIN l : k < m => g[k] < g[m]
      /\ \A i \in DOMAIN l : \E k \in DOMAIN l : g[k] = i
      /\ \A k \in DOMAIN l : l[k] = l[g[k]]
  BY <1>3
<1>5. Selects(cmds[1], Rest({}))'
  BY <1>1, <1>2, <1>3, <1>4 DEF Selects
<1> QED
  BY <1>1, <1>5 DEF TokenList

LEMMA LineType ==
  ASSUME ShellInv
  PROVE  raw \in Seq(STRING)
<1>1. raw = <<>> \/ raw \in Lines
  BY DEF ShellInv, TypeOK
<1> QED
  BY <1>1, EmptySeq, ShellAssumption

LEMMA SameLine ==
  ASSUME UNCHANGED raw
  PROVE  /\ (Redirection' <=> Redirection) /\ (NamesOccurOnce' <=> NamesOccurOnce)
         /\ \A T : Rest(T)' = Rest(T)
         /\ \A ts, S : TokenList(ts, S)' <=> TokenList(ts, S)
<1>1. Marks' = Marks
  BY DEF Marks
<1>2. NamesOccurOnce' <=> NamesOccurOnce
  BY <1>1 DEF NamesOccurOnce
<1>3. \A T : Rest(T)' = Rest(T)
  BY <1>1 DEF Rest
<1>4. \A ts, S : TokenList(ts, S)' <=> TokenList(ts, S)
  BY DEF TokenList, Selects
<1> QED
  BY <1>1, <1>2, <1>3, <1>4 DEF Redirection

\* What has been selected does not change while the list of commands does not.
LEMMA ArgumentsFrame ==
  ASSUME Arguments, UNCHANGED <<raw, cmds>>,
         at' = at \/ at' \notin {"out", "in", "fork", "close", "wait"}
         \/ {at, at'} \subseteq {"fork", "close", "wait"}
  PROVE  Arguments'
BY SameLine DEF Arguments

LEMMA ReadLineArguments ==
  ASSUME NEW l \in Lines, ReadLine(l)
  PROVE  Arguments'
<1>1. l \in Seq(STRING) /\ raw' = l
  BY ShellAssumption DEF ReadLine
<1>2. CASE at' = "out"
  <2>1. cmds' = <<l>>
    BY <1>2 DEF ReadLine, Builtins
  <2>2. TokenList(cmds[1], Rest({}))'
    BY <1>1, <2>1, WholeLine
  <2> QED
    BY <1>2, <2>1, <2>2 DEF Arguments
<1>3. CASE at' = "fork"
  <2>1. l[1] = "mypwd" \/ ~Redirected(l)
    BY <1>3 DEF ReadLine, Builtins
  <2>2. CASE l[1] = "mypwd"
    BY <1>1, <2>2 DEF Arguments, Redirection
  <2>3. CASE ~Redirected(l)
    <3>1. \A i \in 1 .. Len(l) : l[i] # ">" /\ l[i] # "<"
      BY <1>1, <2>3, WhereFacts DEF Redirected
    <3>2. Marks' = {}
      BY <1>1, <3>1 DEF Marks
    <3> QED
      BY <3>2 DEF Arguments, Redirection
  <2> QED
    BY <2>1, <2>2, <2>3
<1>4. at' \in {"out", "fork", "myexit", "mycd"}
  BY DEF ReadLine, Builtins
<1> QED
  BY <1>2, <1>3, <1>4 DEF Arguments

LEMMA OpenOutArguments ==
  ASSUME ShellInv, Arguments, OpenOut
  PROVE  Arguments'
<1> SUFFICES ASSUME Redirection, at' = "in"
             PROVE  Len(cmds') = 1 /\ TokenList(cmds'[1], Rest({">"}))
  <2>1. UNCHANGED raw /\ at' \in {"in", "prompt"}
    BY BackFacts DEF OpenOut
  <2> QED
    BY <2>1, SameLine DEF Arguments
<1> DEFINE i == Where(cmds[1], ">")
           f == After(cmds[1], i)
<1>1. /\ at = "out" /\ raw \in Seq(STRING) /\ NamesOccurOnce
      /\ Len(cmds) = 1 /\ TokenList(cmds[1], Rest({}))
  BY LineType DEF OpenOut, Arguments, Redirection
<1>2. {} \union {">"} = {">"} /\ ">" \in {"<", ">"} \ {}
  OBVIOUS
<1>3. /\ i = 0 => Rest({">"}) = Rest({})
      /\ i # 0 /\ f \in Files => TokenList(Without(cmds[1], ">", f), Rest({">"}))
  <2> DEFINE T == {}
  <2>1. /\ i = 0 => Rest(T \union {">"}) = Rest(T)
        /\ i # 0 /\ f \in Files => TokenList(Without(cmds[1], ">", f), Rest(T \union {">"}))
    BY <1>1, <1>2, OneRedirection
  <2> QED
    BY <1>2, <2>1
<1>4. \/ i = 0 /\ cmds' = cmds
      \/ i # 0 /\ f \in Files /\ cmds' = <<Without(cmds[1], ">", f)>>
  BY BackFacts DEF OpenOut
<1> QED
  BY <1>1, <1>3, <1>4

LEMMA OpenInArguments ==
  ASSUME ShellInv, Arguments, OpenIn
  PROVE  Arguments'
<1> SUFFICES ASSUME Redirection, at' = "fork"
             PROVE  Len(cmds') = 1 /\ TokenList(cmds'[1], Rest({"<", ">"}))
  <2>1. UNCHANGED raw /\ at' \in {"fork", "prompt"}
    BY BackFacts DEF OpenIn
  <2> QED
    BY <2>1, SameLine DEF Arguments
<1> DEFINE i == Where(cmds[1], "<")
           f == After(cmds[1], i)
<1>1. /\ at = "in" /\ raw \in Seq(STRING) /\ NamesOccurOnce
      /\ Len(cmds) = 1 /\ TokenList(cmds[1], Rest({">"}))
  BY LineType DEF OpenIn, Arguments, Redirection
<1>2. {">"} \union {"<"} = {"<", ">"} /\ "<" \in {"<", ">"} \ {">"}
  OBVIOUS
<1>3. /\ i = 0 => Rest({"<", ">"}) = Rest({">"})
      /\ i # 0 /\ f \in Files => TokenList(Without(cmds[1], "<", f), Rest({"<", ">"}))
  <2> DEFINE T == {">"}
  <2>1. /\ i = 0 => Rest(T \union {"<"}) = Rest(T)
        /\ i # 0 /\ f \in Files => TokenList(Without(cmds[1], "<", f), Rest(T \union {"<"}))
    BY <1>1, <1>2, OneRedirection
  <2> QED
    BY <1>2, <2>1
<1>4. \/ i = 0 /\ cmds' = cmds
      \/ i # 0 /\ f \in Files /\ cmds' = <<Without(cmds[1], "<", f)>>
  BY BackFacts DEF OpenIn
<1> QED
  BY <1>1, <1>3, <1>4

LEMMA NextArguments ==
  ASSUME ShellInv, Arguments, [Next]_vars
  PROVE  Arguments'
<1>1. CASE \E l \in Lines : ReadLine(l)
  BY <1>1, ReadLineArguments
<1>2. CASE OpenOut \/ OpenIn
  BY <1>2, OpenOutArguments, OpenInArguments
<1>3. CASE Exit \/ ChangeDir \/ Fork \/ CloseEnds \/ Wait
  <2>1. UNCHANGED <<raw, cmds>>
    BY <1>3 DEF Exit, ChangeDir, Fork, CloseEnds, Wait
  <2>2. \/ at' \notin {"out", "in", "fork", "close", "wait"}
        \/ {at, at'} \subseteq {"fork", "close", "wait"}
    BY <1>3, BackFacts DEF Exit, ChangeDir, Fork, CloseEnds, Wait
  <2> QED
    BY <2>1, <2>2, ArgumentsFrame
<1>4. CASE ChildStep \/ UNCHANGED vars
  <2>1. UNCHANGED <<at, raw, cmds>>
    BY <1>4 DEF ChildStep, Exec, Read, Write, Finish, vars, shell
  <2> QED
    BY <2>1, ArgumentsFrame
<1> QED
  BY <1>1, <1>2, <1>3, <1>4 DEF Next, ShellStep

-----------------------------------------------------------------------------
(* No line keeps the shell busy for ever: every step takes something away  *)

\* What the shell has still to do for the line, step by step and command by command.
Ahead ==
  LET rest == 3 * (LastOne - cmdIndex)
  IN CASE at = "gone" -> 0 [] at = "prompt" -> 1 [] at \in {"mycd", "myexit"} -> 2
       [] at = "wait" -> rest + 2 [] at = "close" -> rest + 3 [] at = "fork" -> rest + 4
       [] at = "in" -> rest + 5 [] at = "out" -> rest + 6

ChildAhead == CASE child.pc = "born" -> 2 [] child.pc = "runs" -> 1 [] OTHER -> 0

\* What the child can still read, while nobody but itself runs.
Input == CASE child.in[1] = "pipe" -> buf[child.in[2]]
           [] child.in[1] = "file" -> files[child.in[2]] - child.pos
           [] OTHER -> 0

\* The chunks to move: one that is read is then in the hand.
WorkLeft == IF child.pc # "runs" THEN 0
            ELSE IF Program(child.argv) \in Readers THEN child.hand + 2 * Input
            ELSE child.left

Rank == <<Ahead, ChildAhead, WorkLeft>>

Below(r, s) == \/ r[1] < s[1]
               \/ r[1] = s[1] /\ r[2] < s[2]
               \/ r[1] = s[1] /\ r[2] = s[2] /\ r[3] < s[3]

\* Nobody reads what he writes: `>' empties the file before `<' opens it, and the two
\* wires of a child are different pipes.
Streams ==
  /\ fdi # None => files[fdi] # Absent
  /\ at \in {"in", "fork"} /\ fdo # None => files[fdo] = 0
  /\ child.pc = "born" => /\ child.pos = 0
                          /\ child.in[1] = "file" => files[child.in[2]] # Absent
                          /\ child.out[1] = "file" => files[child.out[2]] = 0
  /\ child.pc = "runs" =>
       /\ child.out[1] = "pipe" => child.in # child.out
       /\ Program(child.argv) \in Readers /\ child.in[1] = "file" =>
            /\ files[child.in[2]] # Absent /\ child.pos <= files[child.in[2]]
            /\ child.in = child.out => files[child.in[2]] = 0 /\ child.hand = 0

\* What the wiring leaves of the streams of a child.
LEMMA WiredStreams ==
  ASSUME ShellInv, child.pc = "born"
  PROVE  LET c == Wired(child)
         IN /\ c.pos = child.pos
            /\ c.in[1] = "file" => c.in = child.in
            /\ c.out[1] = "file" => c.out = child.out
            /\ c.out[1] = "pipe" => c.in # c.out
<1>1. /\ child \in Child /\ child.in[1] # "pipe" /\ child.out[1] # "pipe"
  BY ChildFacts DEF ShellInv, Children
<1>2. \A open, i : /\ Dup(open, i)[1] \in {"pipe", "closed"}
                   /\ i \notin open => Dup(open, i) = Closed
                   /\ \A j : Dup(open, i) = Pipe(j) => i = j
  BY DEF Dup, Pipe, Closed
<1>3. ASSUME NEW d \in Child
      PROVE  LET e == WireInput(d)
             IN /\ e \in Child /\ e.pos = d.pos /\ e.out = d.out /\ e.pi = d.pi
                /\ e.in = IF cmdIndex = 0 THEN d.in ELSE Dup(d.rd, d.pi)
  <2>1. Dup(d.rd, d.pi) \in Stream
    BY DEF Dup, Child, Stream
  <2> QED
    BY <2>1 DEF WireInput, Child
<1>4. ASSUME NEW d \in Child
      PROVE  LET e == WireOutput(d)
             IN /\ e \in Child /\ e.pos = d.pos /\ e.in = d.in /\ e.pi = d.pi
                /\ e.out = IF cmdIndex = LastOne THEN d.out ELSE Dup(d.wr, NextPipe(d))
                /\ cmdIndex # LastOne => e.rd = d.rd \ {NextPipe(d)}
  <2>1. Dup(d.wr, NextPipe(d)) \in Stream
    BY DEF Dup, Child, Stream
  <2> QED
    BY <2>1 DEF WireOutput, Child
<1>5. CASE Even
  <2> DEFINE d == WireOutput(child)
  <2>1. Wired(child) = WireInput(d) /\ NextPipe(child) = child.pi
    BY <1>5 DEF Wired, NextPipe
  <2>2. /\ d \in Child /\ d.pos = child.pos /\ d.in = child.in /\ d.pi = child.pi
        /\ d.out = IF cmdIndex = LastOne THEN child.out ELSE Dup(child.wr, child.pi)
        /\ cmdIndex # LastOne => d.rd = child.rd \ {child.pi}
    BY <1>1, <1>4, <2>1
  <2> HIDE DEF d
  <2>3. /\ WireInput(d).pos = child.pos /\ WireInput(d).out = d.out
        /\ WireInput(d).in = IF cmdIndex = 0 THEN child.in ELSE Dup(d.rd, child.pi)
    BY <1>3, <2>2
  <2>4. cmdIndex # LastOne => Dup(d.rd, child.pi) = Closed
    BY <1>2, <2>2
  <2> QED
    BY <1>1, <1>2, <2>1, <2>2, <2>3, <2>4 DEF Closed
<1>6. CASE ~Even
  <2> DEFINE d == WireInput(child)
  <2>1. Wired(child) = WireOutput(d) /\ NextPipe(d) = d.pi + 1
    BY <1>6 DEF Wired, NextPipe
  <2>2. /\ d \in Child /\ d.pos = child.pos /\ d.out = child.out /\ d.pi = child.pi
        /\ d.in = IF cmdIndex = 0 THEN child.in ELSE Dup(child.rd, child.pi)
    BY <1>1, <1>3
  <2> HIDE DEF d
  <2>3. /\ WireOutput(d).pos = child.pos /\ WireOutput(d).in = d.in
        /\ WireOutput(d).out = IF cmdIndex = LastOne THEN child.out
                               ELSE Dup(d.wr, child.pi + 1)
    BY <1>4, <2>1, <2>2
  <2>4. child.pi \in Nat /\ child.pi # child.pi + 1
    BY <1>1 DEF Child
  <2>5. ASSUME Dup(child.rd, child.pi) = Dup(d.wr, child.pi + 1)
        PROVE  Dup(d.wr, child.pi + 1) = Closed
    BY <2>4, <2>5 DEF Dup, Pipe, Closed
  <2> QED
    BY <1>1, <1>2, <2>1, <2>2, <2>3, <2>5 DEF Closed
<1> QED
  BY <1>5, <1>6

LEMMA InitStreams ==
  ASSUME Init
  PROVE  Streams
BY DEF Init, Streams, NoChild

\* The shell's own steps.
LEMMA ShellStepStreams ==
  ASSUME ShellInv, Streams, Exit \/ ShellStep \/ \E l \in Lines : ReadLine(l)
  PROVE  Streams'
<1>1. CASE \E l \in Lines : ReadLine(l)
  <2>1. /\ child' = NoChild /\ fdi' = None /\ fdo' = None
    BY <1>1 DEF ReadLine, ShellInv, Lists, Children, Running
  <2> QED
    BY <2>1 DEF Streams, NoChild
<1>2. CASE Exit \/ ChangeDir
  <2>1. /\ child' = NoChild /\ fdi' = None /\ fdo' = None
    BY <1>2, BackFacts DEF Exit, ChangeDir, ShellInv, Lists, Children, Running
  <2> QED
    BY <2>1 DEF Streams, NoChild
<1>3. CASE OpenOut
  <2>1. /\ child' = NoChild /\ fdi' = None
    BY <1>3, BackFacts DEF OpenOut, ShellInv, Lists, Children, Running
  <2>2. fdo = None /\ files \in [Files -> {Absent} \union Nat]
    BY <1>3 DEF OpenOut, ShellInv, Lists, TypeOK
  <2>3. fdo' # None => files'[fdo'] = 0
    BY <1>3, <2>2, BackFacts DEF OpenOut
  <2> QED
    BY <2>1, <2>3 DEF Streams, NoChild
<1>4. CASE OpenIn
  <2>1. /\ child' = NoChild /\ files' = files
    BY <1>4 DEF OpenIn, ShellInv, Children, Running, world
  <2>2. fdi' # None => files[fdi'] # Absent
    BY <1>4, BackFacts DEF OpenIn, Streams
  <2>3. fdo' # None => files[fdo'] = 0
    BY <1>4, BackFacts DEF OpenIn, Streams
  <2> QED
    BY <2>1, <2>2, <2>3 DEF Streams, NoChild
<1>5. CASE Fork
  <2>1. /\ at = "fork" /\ at' = "close" /\ UNCHANGED <<fdo, fdi, files>>
        /\ child'.pc = "born" /\ child'.pos = 0
        /\ child'.in = IF fdi = None THEN Tty ELSE File(fdi)
        /\ child'.out = IF fdo = None THEN Tty ELSE File(fdo)
    BY <1>5 DEF Fork, NoChild, world
  <2> QED
    BY <2>1 DEF Streams, Tty, File
<1>6. CASE CloseEnds
  <2>1. at' = "wait" /\ fdi' = None /\ UNCHANGED <<child, files>>
    BY <1>6 DEF CloseEnds, world
  <2> QED
    BY <2>1 DEF Streams
<1>7. CASE Wait
  <2>1. /\ child' = NoChild /\ fdi' = None /\ fdo' = None
    BY <1>7, BackFacts DEF Wait, ShellInv, Lists
  <2> QED
    BY <2>1 DEF Streams, NoChild
<1> QED
  BY <1>1, <1>2, <1>3, <1>4, <1>5, <1>6, <1>7 DEF ShellStep

LEMMA ChildTypes ==
  ASSUME ShellInv, child.pc = "runs"
  PROVE  /\ child \in Child /\ child.in \in Stream /\ child.out \in Stream
         /\ child.hand \in {0, 1} /\ child.left \in Nat /\ child.pos \in Nat
         /\ buf \in [Ends -> 0 .. Capacity] /\ files \in [Files -> {Absent} \union Nat]
         /\ Capacity \in Nat
<1>1. child \in Child /\ buf \in [Ends -> 0 .. Capacity] /\ files \in [Files -> {Absent} \union Nat]
  BY ChildFacts
<1> QED
  BY <1>1, ShellAssumption DEF Child

LEMMA ExecStreams ==
  ASSUME ShellInv, Streams, Exec
  PROVE  Streams'
<1>1. child.pc = "born" /\ UNCHANGED <<at, fdi, fdo, files>>
  BY DEF Exec, shell, world
<1>2. CASE child' = Ended(child)
  <2>1. child'.pc = "ended"
    BY <1>1, <1>2, ChildFacts, EndedFacts
  <2> QED
    BY <1>1, <2>1 DEF Streams
<1>3. ASSUME NEW n, child' = [Wired(child) EXCEPT !.pc = "runs", !.left = n]
      PROVE  Streams'
  <2> DEFINE c == Wired(child)
  <2>1. c \in Child /\ c.argv = child.argv /\ c.hand = child.hand
    BY <1>1, WiredFacts
  <2>2. /\ c.pos = child.pos
        /\ c.in[1] = "file" => c.in = child.in
        /\ c.out[1] = "file" => c.out = child.out
        /\ c.out[1] = "pipe" => c.in # c.out
    BY <1>1, WiredStreams
  <2>3. child' = [c EXCEPT !.pc = "runs", !.left = n]
    BY <1>3
  <2> HIDE DEF c
  <2>4. /\ child'.pc = "runs" /\ child'.in = c.in /\ child'.out = c.out
        /\ child'.pos = c.pos /\ child'.hand = c.hand
    BY <2>1, <2>3 DEF Child
  <2>5. child.hand = 0 /\ child.pos = 0
    BY <1>1 DEF ShellInv, Children, Streams
  <2>6. files \in [Files -> {Absent} \union Nat] /\ child.in \in Stream
    BY <1>1, ChildFacts DEF Child
  <2>7. ASSUME c.in[1] = "file"
        PROVE  /\ files[c.in[2]] # Absent /\ child'.pos <= files[c.in[2]]
               /\ c.in = c.out => files[c.in[2]] = 0
    <3>1. c.in = child.in /\ child.in[2] \in Files
      BY <2>2, <2>6, <2>7, StreamFacts
    <3>2. files[child.in[2]] # Absent /\ files[child.in[2]] \in Nat
      BY <1>1, <2>6, <2>7, <3>1 DEF Streams
    <3>3. c.in = c.out => files[c.in[2]] = 0
      BY <1>1, <2>2, <2>7, <3>1 DEF Streams
    <3> QED
      BY <2>2, <2>4, <2>5, <3>1, <3>2, <3>3
  <2>8. child'.in[1] = "file" =>
          /\ files'[child'.in[2]] # Absent /\ child'.pos <= files'[child'.in[2]]
          /\ child'.in = child'.out => files'[child'.in[2]] = 0 /\ child'.hand = 0
    BY <1>1, <2>1, <2>4, <2>5, <2>7
  <2>9. child'.out[1] = "pipe" => child'.in # child'.out
    BY <2>2, <2>4
  <2> QED
    BY <1>1, <2>4, <2>8, <2>9 DEF Streams
<1> QED
  BY <1>2, <1>3 DEF Exec

\* A chunk that is read has left the pipe or the rest of the file.
LEMMA ReadCounts ==
  ASSUME ShellInv, Streams, Read
  PROVE  /\ Streams'
         /\ \/ child'.pc = "ended"
            \/ child'.pc = "runs" /\ child'.argv = child.argv /\ WorkLeft' < WorkLeft
<1> DEFINE i == child.in
<1>1. /\ child.pc = "runs" /\ Program(child.argv) \in Readers /\ child.hand = 0
      /\ UNCHANGED <<at, fdi, fdo, files>>
  BY DEF Read, shell
<1>2. /\ child \in Child /\ i \in Stream /\ child.pos \in Nat
      /\ buf \in [Ends -> 0 .. Capacity] /\ files \in [Files -> {Absent} \union Nat]
      /\ Capacity \in Nat
  BY <1>1, ChildTypes
<1>3. WorkLeft = 0 + 2 * Input
  BY <1>1 DEF WorkLeft
<1>4. CASE child' = Ended(child)
  <2>1. child'.pc = "ended"
    BY <1>2, <1>4, EndedFacts
  <2> QED
    BY <1>1, <2>1 DEF Streams
<1> HIDE DEF i
<1>5. CASE i[1] = "pipe" /\ buf[i[2]] > 0 /\ buf' = [buf EXCEPT ![i[2]] = @ - 1]
           /\ child' = [child EXCEPT !.hand = 1]
  <2>1. i[2] \in Ends /\ buf[i[2]] \in Nat /\ buf'[i[2]] = buf[i[2]] - 1
    BY <1>2, <1>5, StreamFacts
  <2>2. /\ child'.pc = "runs" /\ child'.argv = child.argv /\ child'.in = i
        /\ child'.out = child.out /\ child'.hand = 1 /\ child'.pos = child.pos
    BY <1>1, <1>2, <1>5 DEF Child, i
  <2>3. Input = buf[i[2]] /\ Input' = buf[i[2]] - 1
    BY <1>5, <2>1, <2>2 DEF Input, i
  <2>4. WorkLeft' = 1 + 2 * Input'
    BY <1>1, <2>2 DEF WorkLeft
  <2>5. Streams'
    BY <1>1, <1>5, <2>2 DEF Streams, i
  <2> QED
    BY <1>3, <2>1, <2>2, <2>3, <2>4, <2>5
<1>6. CASE i[1] = "file" /\ child.pos < files[i[2]]
           /\ child' = [child EXCEPT !.hand = 1, !.pos = @ + 1]
  <2>1. i[2] \in Files /\ files[i[2]] \in Nat /\ i # child.out
    <3>1. i[2] \in Files
      BY <1>2, <1>6, StreamFacts
    <3>2. files[i[2]] # Absent /\ (i = child.out => files[i[2]] = 0)
      BY <1>1, <1>6 DEF Streams, i
    <3> QED
      BY <1>2, <1>6, <3>1, <3>2
  <2>2. /\ child'.pc = "runs" /\ child'.argv = child.argv /\ child'.in = i
        /\ child'.out = child.out /\ child'.hand = 1 /\ child'.pos = child.pos + 1
    <3>1. child' = [[child EXCEPT !.hand = 1] EXCEPT !.pos = child.pos + 1]
      BY <1>6
    <3> QED
      BY <1>1, <1>2, <3>1 DEF Child, i
  <2>3. Input = files[i[2]] - child.pos /\ Input' = files[i[2]] - (child.pos + 1)
    BY <1>1, <1>6, <2>2 DEF Input, i
  <2>4. WorkLeft' = 1 + 2 * Input'
    BY <1>1, <2>2 DEF WorkLeft
  <2>5. Streams'
    <3>1. child'.pos <= files'[child'.in[2]]
      BY <1>1, <1>2, <1>6, <2>1, <2>2
    <3> QED
      BY <1>1, <1>6, <2>1, <2>2, <3>1 DEF Streams, i
  <2> QED
    BY <1>2, <1>3, <2>1, <2>2, <2>3, <2>4, <2>5
<1> QED
  BY <1>4, <1>5, <1>6 DEF Read, i

\* A chunk that is written has left the hand of a filter, or what a writer has to write;
\* it never goes where the filter reads from.
LEMMA WriteCounts ==
  ASSUME ShellInv, Streams, Write
  PROVE  /\ Streams'
         /\ \/ child'.pc = "ended"
            \/ child'.pc = "runs" /\ child'.argv = child.argv /\ WorkLeft' < WorkLeft
<1> DEFINE o == child.out
           i == child.in
           p == Program(child.argv)
<1>1. /\ child.pc = "runs" /\ child.left + child.hand > 0 /\ UNCHANGED <<at, fdi, fdo>>
      /\ p \in Writers \union Readers
  BY DEF Write, shell, ShellInv, Children
<1>2. /\ child \in Child /\ i \in Stream /\ o \in Stream
      /\ child.hand \in {0, 1} /\ child.left \in Nat /\ child.pos \in Nat
      /\ buf \in [Ends -> 0 .. Capacity] /\ files \in [Files -> {Absent} \union Nat]
      /\ Capacity \in Nat
  BY <1>1, ChildTypes
<1>3. /\ p \in Writers => child.hand = 0 /\ p \notin Readers
      /\ p \in Readers => child.left = 0 /\ child.hand = 1 /\ p \notin Writers
  BY <1>1, <1>2 DEF ShellInv, Children, Writers, Readers
<1>4. /\ o[1] = "pipe" => o[2] \in Ends /\ o = Pipe(o[2])
      /\ o[1] = "file" => o[2] \in Files /\ o = File(o[2])
      /\ i[1] = "pipe" => i[2] \in Ends /\ i = Pipe(i[2])
      /\ i[1] = "file" => i[2] \in Files /\ i = File(i[2])
  <2> HIDE DEF o, i
  <2>1. \A s \in Stream : s[1] = "file" => s = File(s[2])
    BY DEF Stream, Tty, Closed, Pipe, File
  <2> QED
    BY <1>2, <2>1, StreamFacts
<1>5. /\ o[1] = "pipe" => i # o
      /\ p \in Readers /\ i[1] = "file" =>
           i # o /\ files[i[2]] # Absent /\ child.pos <= files[i[2]]
  BY <1>1, <1>3 DEF Streams
<1>6. CASE child' = Ended(child) /\ UNCHANGED files
  <2>1. child'.pc = "ended"
    BY <1>2, <1>6, EndedFacts
  <2> QED
    BY <1>1, <1>6, <2>1 DEF Streams
<1>7. CASE /\ child' = Wrote(child)
           /\ buf' = IF o[1] = "pipe" THEN [buf EXCEPT ![o[2]] = @ + 1] ELSE buf
           /\ files' = IF o[1] = "file" THEN [files EXCEPT ![o[2]] = @ + 1] ELSE files
  <2> HIDE DEF o, i, p
  <2>1. p \in Readers =>
          /\ i[1] = "pipe" => buf'[i[2]] = buf[i[2]]
          /\ i[1] = "file" => files'[i[2]] = files[i[2]]
    <3>1. i # o => (i[1] = "pipe" /\ o[1] = "pipe" => i[2] # o[2])
                   /\ (i[1] = "file" /\ o[1] = "file" => i[2] # o[2])
      BY <1>4
    <3> QED
      BY <1>2, <1>4, <1>5, <1>7, <3>1
  <2>2. fdi' # None => files'[fdi'] # Absent
    <3>1. fdi # None => files[fdi] # Absent /\ fdi \in Files
      BY DEF Streams, ShellInv, TypeOK
    <3> QED
      BY <1>1, <1>2, <1>4, <1>7, <3>1 DEF Absent
  <2>3. at' \in {"close", "wait"}
    BY <1>1, ChildFacts
  <2>4. CASE p \in Writers
    <3>1. child' = [child EXCEPT !.left = child.left - 1]
      BY <1>7, <2>4 DEF Wrote, Writers, p
    <3>2. /\ child'.pc = "runs" /\ child'.argv = child.argv /\ child'.in = i /\ child'.out = o
          /\ child'.left = child.left - 1
      BY <1>1, <1>2, <3>1 DEF Child, i, o
    <3>3. WorkLeft = child.left /\ WorkLeft' = child.left - 1
      BY <1>1, <1>3, <2>4, <3>2 DEF WorkLeft, p
    <3>4. Streams'
      BY <1>3, <1>5, <2>2, <2>3, <2>4, <3>2 DEF Streams, p
    <3> QED
      BY <1>2, <3>2, <3>3, <3>4
  <2>5. CASE p = "filter"
    <3>1. child' = [child EXCEPT !.hand = 0]
      BY <1>7, <2>5 DEF Wrote, Writers, p
    <3>2. /\ child'.pc = "runs" /\ child'.argv = child.argv /\ child'.in = i /\ child'.out = o
          /\ child'.hand = 0 /\ child'.pos = child.pos
      BY <1>1, <1>2, <3>1 DEF Child, i, o
    <3>3. p \in Readers
      BY <2>5 DEF Readers
    <3>4. Input' = Input /\ Input \in Int
      <4>1. Input = (CASE i[1] = "pipe" -> buf[i[2]] [] i[1] = "file" -> files[i[2]] - child.pos
                       [] OTHER -> 0)
        BY DEF Input, i
      <4>2. Input' = (CASE i[1] = "pipe" -> buf'[i[2]] [] i[1] = "file" -> files'[i[2]] - child.pos
                        [] OTHER -> 0)
        BY <3>2 DEF Input
      <4>3. /\ i[1] = "pipe" => buf[i[2]] \in Nat
            /\ i[1] = "file" => files[i[2]] \in Nat
        BY <1>2, <1>4, <1>5, <3>3
      <4>4. Input' = Input
        BY <2>1, <3>3, <4>1, <4>2
      <4> QED
        BY <1>2, <4>1, <4>3, <4>4
    <3>5. WorkLeft = 1 + 2 * Input /\ WorkLeft' = 0 + 2 * Input'
      BY <1>1, <1>3, <3>2, <3>3 DEF WorkLeft, p
    <3>6. Streams'
      BY <1>5, <2>1, <2>2, <2>3, <3>2, <3>3 DEF Streams
    <3> QED
      BY <3>2, <3>4, <3>5, <3>6
  <2>6. CASE p = "head"
    <3>1. child' = Ended(child)
      BY <1>7, <2>6 DEF Wrote, Writers, p
    <3>2. child'.pc = "ended"
      BY <1>2, <3>1, EndedFacts
    <3> QED
      BY <2>2, <2>3, <3>2 DEF Streams
  <2> QED
    BY <1>1, <2>4, <2>5, <2>6 DEF Readers
<1> QED
  BY <1>6, <1>7 DEF Write

LEMMA FinishStreams ==
  ASSUME ShellInv, Streams, Finish
  PROVE  Streams' /\ child'.pc = "ended"
<1>1. /\ child.pc = "runs" /\ child' = Ended(child) /\ UNCHANGED <<at, fdi, fdo, files>>
  BY DEF Finish, shell, world
<1>2. child'.pc = "ended"
  BY <1>1, ChildTypes, EndedFacts
<1> QED
  BY <1>1, <1>2 DEF Streams

LEMMA NextStreams ==
  ASSUME ShellInv, Streams, [Next]_vars
  PROVE  Streams'
<1>1. CASE UNCHANGED vars
  BY <1>1 DEF Streams, vars, shell, world
<1>2. CASE ChildStep
  BY <1>2, ExecStreams, ReadCounts, WriteCounts, FinishStreams DEF ChildStep
<1> QED
  BY <1>1, <1>2, ShellStepStreams DEF Next

\* The steps of the shell bring it forward.
LEMMA ShellStepCounts ==
  ASSUME ShellInv, ShellStep \/ Exit, at # "prompt"
  PROVE  Ahead' < Ahead
<1>1. at \in {"out", "in", "fork", "close", "wait"} =>
        LastOne \in Nat /\ cmdIndex \in 0 .. LastOne
  BY ListFacts DEF ShellInv
<1>2. CASE Exit \/ ChangeDir
  BY <1>2, BackFacts DEF Exit, ChangeDir, Ahead
<1>3. CASE OpenOut \/ OpenIn
  <2>1. at \in {"out", "in"} /\ Len(cmds) = 1 /\ cmdIndex = 0 /\ cmdIndex' = cmdIndex
    BY <1>3 DEF OpenOut, OpenIn, ShellInv, Lists
  <2>2. LastOne = 0
    BY <2>1 DEF LastOne
  <2>3. \/ at' = "prompt"
        \/ ((at = "out" /\ at' = "in") \/ (at = "in" /\ at' = "fork")) /\ Len(cmds') = 1
    BY <1>3, <2>1, BackFacts DEF OpenOut, OpenIn
  <2>4. CASE at' = "prompt"
    BY <2>1, <2>2, <2>4 DEF Ahead
  <2>5. CASE ((at = "out" /\ at' = "in") \/ (at = "in" /\ at' = "fork")) /\ Len(cmds') = 1
    <3>1. LastOne' = 0
      BY <2>5 DEF LastOne
    <3> QED
      BY <2>1, <2>2, <2>5, <3>1 DEF Ahead
  <2> QED
    BY <2>3, <2>4, <2>5
<1>4. CASE Fork \/ CloseEnds
  <2>1. UNCHANGED <<cmds, cmdIndex>>
        /\ ((at = "fork" /\ at' = "close") \/ (at = "close" /\ at' = "wait"))
    BY <1>4 DEF Fork, CloseEnds
  <2>2. LastOne' = LastOne
    BY <2>1 DEF LastOne
  <2> QED
    BY <1>1, <2>1, <2>2 DEF Ahead
<1>5. CASE Wait
  <2>1. at = "wait" /\ LastOne' = LastOne
    BY <1>5 DEF Wait, LastOne
  <2>2. \/ cmdIndex < LastOne /\ at' = "fork" /\ cmdIndex' = cmdIndex + 1
        \/ cmdIndex = LastOne /\ at' = "prompt"
    BY <1>5, BackFacts DEF Wait
  <2> QED
    BY <1>1, <2>1, <2>2 DEF Ahead
<1> QED
  BY <1>2, <1>3, <1>4, <1>5 DEF ShellStep

LEMMA ChildStepCounts ==
  ASSUME ShellInv, Streams, ChildStep
  PROVE  /\ Ahead' = Ahead
         /\ \/ ChildAhead' < ChildAhead
            \/ ChildAhead' = ChildAhead /\ WorkLeft' < WorkLeft
<1>1. UNCHANGED <<at, cmds, cmdIndex>>
  BY DEF ChildStep, Exec, Read, Write, Finish, shell
<1>2. Ahead' = Ahead
  BY <1>1 DEF Ahead, LastOne
<1>3. CASE Exec
  <2>1. child.pc = "born" /\ child'.pc \in {"runs", "ended"}
    <3>1. child.pc = "born"
      BY <1>3 DEF Exec
    <3>2. child' = Ended(child) => child'.pc = "ended"
      BY <3>1, ChildFacts, EndedFacts
    <3>3. ASSUME NEW n, child' = [Wired(child) EXCEPT !.pc = "runs", !.left = n]
          PROVE  child'.pc = "runs"
      BY <3>1, <3>3, WiredFacts DEF Child
    <3> QED
      BY <1>3, <3>1, <3>2, <3>3 DEF Exec
  <2> QED
    BY <1>2, <2>1 DEF ChildAhead
<1>4. CASE Read \/ Write
  <2>1. child.pc = "runs"
    BY <1>4 DEF Read, Write
  <2>2. child'.pc = "ended" \/ (child'.pc = "runs" /\ WorkLeft' < WorkLeft)
    BY <1>4, ReadCounts, WriteCounts
  <2> QED
    BY <1>2, <2>1, <2>2 DEF ChildAhead
<1>5. CASE Finish
  <2>1. child.pc = "runs" /\ child'.pc = "ended"
    BY <1>5, FinishStreams DEF Finish
  <2> QED
    BY <1>2, <2>1 DEF ChildAhead
<1> QED
  BY <1>3, <1>4, <1>5 DEF ChildStep

LEMMA RankType ==
  ASSUME ShellInv, Streams
  PROVE  Rank \in Nat \X Nat \X Nat
<1>1. at \in {"out", "in", "fork", "close", "wait"} =>
        LastOne \in Nat /\ cmdIndex \in 0 .. LastOne
  BY ListFacts DEF ShellInv
<1>2. at \in {"prompt", "myexit", "mycd", "out", "in", "fork", "close", "wait", "gone"}
  BY DEF ShellInv, TypeOK
<1>3. Ahead \in Nat
  BY <1>1, <1>2 DEF Ahead
<1>4. ChildAhead \in Nat
  BY DEF ChildAhead
<1>5. WorkLeft \in Nat
  <2> SUFFICES ASSUME child.pc = "runs" PROVE WorkLeft \in Nat
    BY DEF WorkLeft
  <2> DEFINE i == child.in
  <2>1. /\ child.hand \in Nat /\ child.left \in Nat /\ child.pos \in Nat /\ i \in Stream
        /\ buf \in [Ends -> 0 .. Capacity] /\ files \in [Files -> {Absent} \union Nat]
        /\ Capacity \in Nat
    BY ChildTypes
  <2> HIDE DEF i
  <2>2. /\ i[1] = "pipe" => i[2] \in Ends
        /\ i[1] = "file" => i[2] \in Files
    BY <2>1, StreamFacts
  <2>3. ASSUME Program(child.argv) \in Readers PROVE Input \in Nat
    <3>1. i[1] = "pipe" => buf[i[2]] \in Nat
      BY <2>1, <2>2
    <3>2. i[1] = "file" => files[i[2]] - child.pos \in Nat
      <4>1. i[1] = "file" => files[i[2]] # Absent /\ child.pos <= files[i[2]]
        BY <2>3 DEF Streams, i
      <4> QED
        BY <2>1, <2>2, <4>1
    <3> QED
      BY <3>1, <3>2 DEF Input, i
  <2> QED
    BY <2>1, <2>3 DEF WorkLeft
<1> QED
  BY <1>3, <1>4, <1>5 DEF Rank

-----------------------------------------------------------------------------
(* Theorems                                                                *)

LEMMA StutterInv ==
  ASSUME ShellInv, UNCHANGED vars
  PROVE  ShellInv'
<1>1. UNCHANGED <<at, raw, cmds, cmdIndex, pipeIndex, fdo, fdi, rd, wr, lost, buf, files,
                  emitted, shown, child>>
  BY DEF vars, shell, world
<1>2. TypeOK' /\ Lists' /\ Children' /\ Wiring'
  BY <1>1, SameCommands DEF ShellInv, TypeOK, Lists, Children, Wiring, Running
<1>3. Flow'
  BY <1>1, SameCommands DEF ShellInv, Flow, In
<1> QED
  BY <1>2, <1>3 DEF ShellInv

LEMMA NextShellInv ==
  ASSUME ShellInv, [Next]_vars
  PROVE  ShellInv'
<1>1. CASE \E l \in Lines : ReadLine(l)
  BY <1>1, ReadLineInv
<1>2. CASE Exit
  BY <1>2, BuiltinInv
<1>3. CASE ShellStep
  BY <1>3, BuiltinInv, OpenOutInv, OpenInInv, ForkInv, CloseEndsInv, WaitInv DEF ShellStep
<1>4. CASE ChildStep
  BY <1>4, ExecInv, ReadInv, WriteInv, FinishInv DEF ChildStep
<1>5. CASE UNCHANGED vars
  BY <1>5, StutterInv
<1> QED
  BY <1>1, <1>2, <1>3, <1>4, <1>5 DEF Next

LEMMA ShellInvariant == Spec => []ShellInv
<1>1. Init => ShellInv
  BY InitInv
<1>2. ShellInv /\ [Next]_vars => ShellInv'
  BY NextShellInv
<1> QED
  BY <1>1, <1>2, PTL DEF Spec

LEMMA StreamsInvariant == Spec => [](ShellInv /\ Streams)
<1>1. Init => ShellInv /\ Streams
  BY InitInv, InitStreams
<1>2. ShellInv /\ Streams /\ [Next]_vars => (ShellInv /\ Streams)'
  BY NextShellInv, NextStreams
<1> QED
  BY <1>1, <1>2, PTL DEF Spec

\* Every variable has its type, whatever is typed: no pipe ever holds more than its
\* capacity, and pipeIndex (executor.c:121) stays inside p_fds in a pipeline of any
\* length.
THEOREM ShellTypes == Spec => []TypeOK
<1>1. ShellInv => TypeOK
  BY DEF ShellInv
<1> QED
  BY <1>1, ShellInvariant, PTL

\* What the first command of a chain of filters wrote has arrived when the prompt is
\* back (executor.c:127-177): every chunk was in one of the two pipes or in the hand of
\* a filter until then.
THEOREM ArrivalTheorem == Spec => []EverythingArrives
<1>1. ShellInv => EverythingArrives
  <2> SUFFICES ASSUME ShellInv, at = "prompt", Len(cmds) <= 3,
                      \A i \in 2 .. Len(cmds) : cmds[i] # <<>> /\ cmds[i][1] = "filter"
               PROVE  shown = emitted
    BY DEF EverythingArrives
  <2> QED
    BY DEF ShellInv, Flow, Filters, Short
<1> QED
  BY <1>1, ShellInvariant, PTL

\* With at most two pipes nobody who is still alive holds the write end of the pipe
\* that the running command reads from (executor.c:166, 174, 141, 150).
THEOREM EndTheorem == Spec => []NobodyHoldsTheEnd
<1>1. ShellInv => NobodyHoldsTheEnd
  <2> SUFFICES ASSUME ShellInv, child.pc = "runs", at = "wait", Len(cmds) <= 3,
                      child.in[1] = "pipe"
               PROVE  child.in[2] \notin wr \union child.wr
    BY DEF NobodyHoldsTheEnd
  <2>1. /\ cmdIndex \in Nat /\ wr = From(cmdIndex + 1) /\ child.wr = From(cmdIndex + 1)
        /\ child.in = Pipe(cmdIndex - 1)
    BY ChildFacts DEF ShellInv, Wiring, Short
  <2>2. child.in[2] = cmdIndex - 1
    BY <2>1 DEF Pipe
  <2> QED
    BY <2>1, <2>2 DEF From
<1> QED
  BY <1>1, ShellInvariant, PTL

\* The only calls that come back with a descriptor open are a redirection whose `<'
\* cannot be opened behind a `>' that was (executor.c:58), and a pipeline of more than
\* two pipes: at most two are all closed by the parent (executor.c:127-177).
THEOREM LosesTheorem == Spec => LosesKnownOnes
<1> DEFINE Known == (at = "in" /\ fdo # None) \/ Len(cmds) > 3
<1>1. ASSUME ShellInv, BackToMain, at \in {"mycd", "out", "in", "wait"}, lost' # lost,
             at = "wait" => cmdIndex = LastOne
      PROVE  Known
  <2> SUFFICES ASSUME Short, at # "in" \/ fdo = None PROVE FALSE
    <3>1. Len(cmds) \in Nat
      BY <1>1 DEF ShellInv, Lists
    <3> QED
      BY <3>1 DEF Short
  <2>1. fdo = None /\ fdi = None
    BY <1>1 DEF ShellInv, Lists
  <2>2. rd = {} /\ wr = {}
    <3>1. CASE at = "wait"
      <4>1. rd = From(LastOne) /\ wr = From(LastOne + 1)
        BY <1>1, <3>1 DEF ShellInv, Wiring
      <4>2. Ends = 0 .. LastOne - 1 /\ LastOne \in Nat
        BY <1>1, <3>1, ListFacts DEF ShellInv
      <4> QED
        BY <4>1, <4>2 DEF From
    <3> QED
      BY <1>1, <3>1 DEF ShellInv, Lists
  <2>3. StillOpen = 0
    BY <2>1, <2>2, FS_EmptySet DEF StillOpen
  <2>4. lost \in Nat
    BY <1>1 DEF ShellInv, TypeOK
  <2> QED
    BY <1>1, <2>3, <2>4, BackFacts
<1>2. ASSUME ShellInv, [Next]_vars PROVE [lost' # lost => Known]_vars
  <2> SUFFICES ASSUME Next, lost' # lost PROVE Known
    BY <1>2
  <2>1. CASE \E l \in Lines : ReadLine(l)
    BY <2>1 DEF ReadLine
  <2>2. CASE Exit
    BY <2>2 DEF Exit
  <2>3. CASE ShellStep
    <3>1. CASE ChangeDir
      BY <1>1, <1>2, <3>1 DEF ChangeDir
    <3>2. CASE OpenOut
      BY <1>1, <1>2, <3>2 DEF OpenOut
    <3>3. CASE OpenIn
      BY <1>1, <1>2, <3>3 DEF OpenIn
    <3>4. CASE Fork \/ CloseEnds
      BY <3>4 DEF Fork, CloseEnds
    <3>5. CASE Wait
      BY <1>1, <1>2, <3>5 DEF Wait
    <3> QED
      BY <2>3, <3>1, <3>2, <3>3, <3>4, <3>5 DEF ShellStep
  <2>4. CASE ChildStep
    BY <2>4 DEF ChildStep, Exec, Read, Write, Finish, shell
  <2> QED
    BY <2>1, <2>2, <2>3, <2>4 DEF Next
<1>3. ShellInv /\ [Next]_vars => [lost' # lost => Known]_vars
  BY <1>2
<1>4. Spec => [][lost' # lost => Known]_vars
  BY <1>3, ShellInvariant, PTL DEF Spec
<1> QED
  BY <1>4 DEF LosesKnownOnes

\* A redirected command gets the words of its line that belong to no redirection, in
\* their order, though remove_tokens goes by equality (util.c:82-99): each of the names
\* occurs once, so the first token that is equal is the one behind the mark.
THEOREM ArgumentsTheorem == Spec => []ArgumentsKept
<1>1. Init => Arguments
  BY DEF Init, Arguments
<1>2. ShellInv /\ Arguments /\ [Next]_vars => Arguments'
  BY NextArguments
<1>3. ShellInv /\ Arguments => ArgumentsKept
  <2> SUFFICES ASSUME ShellInv, Arguments, child.pc = "runs", Redirection
               PROVE  Selects(child.argv, Kept)
    BY DEF ArgumentsKept, Redirection
  <2>1. at \in {"close", "wait"} /\ child.argv = cmds[cmdIndex + 1]
        /\ cmdIndex \in 0 .. LastOne /\ LastOne = Len(cmds) - 1
    BY ChildFacts
  <2>2. Len(cmds) = 1 /\ Selects(cmds[1], Rest({"<", ">"}))
    BY <2>1 DEF Arguments, TokenList
  <2>3. child.argv = cmds[1]
    BY <2>1, <2>2
  <2>4. Rest({"<", ">"}) = Kept
    <3>1. DOMAIN raw \subseteq Int
      BY LineType
    <3> QED
      BY <3>1 DEF Rest, Kept, Marks
  <2> QED
    BY <2>2, <2>3, <2>4
<1> QED
  BY <1>1, <1>2, <1>3, ShellInvariant, PTL DEF Spec

\* Between a line and the next prompt every step of the shell and of its child takes
\* something away.
LinesAreFinite == [][at # "prompt" => Below(Rank', Rank)]_vars

\* No line keeps the machine busy for ever, whatever its length, with pipes of any
\* capacity and files of any size (executor.c:117-182): each step lowers a triple of
\* naturals, which can be lowered finitely often only.  With weak fairness what remains
\* of PromptReturns is that a line does not get stuck.  The files need care: a filter
\* whose file is also the one it writes would never come to its end, had `>' not
\* emptied it before.
THEOREM FiniteTheorem == Spec => [](Rank \in Nat \X Nat \X Nat) /\ LinesAreFinite
<1>1. ShellInv /\ Streams => Rank \in Nat \X Nat \X Nat
  BY RankType
<1>2. ASSUME ShellInv, Streams, [Next]_vars
      PROVE  [at # "prompt" => Below(Rank', Rank)]_vars
  <2> SUFFICES ASSUME Next, at # "prompt" PROVE Below(Rank', Rank)
    BY <1>2
  <2>1. ShellStep \/ Exit \/ ChildStep
    BY DEF Next, ReadLine
  <2>2. CASE ShellStep \/ Exit
    BY <1>2, <2>2, ShellStepCounts DEF Rank, Below
  <2>3. CASE ChildStep
    BY <1>2, <2>3, ChildStepCounts DEF Rank, Below
  <2> QED
    BY <2>1, <2>2, <2>3
<1>3. ShellInv /\ Streams /\ [Next]_vars => [at # "prompt" => Below(Rank', Rank)]_vars
  BY <1>2
<1>4. Spec => [][at # "prompt" => Below(Rank', Rank)]_vars
  BY <1>3, StreamsInvariant, PTL DEF Spec
<1>5. Spec => [](Rank \in Nat \X Nat \X Nat)
  BY <1>1, StreamsInvariant, PTL
<1> QED
  BY <1>4, <1>5 DEF LinesAreFinite
=============================================================================

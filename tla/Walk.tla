-------------------------------- MODULE Walk --------------------------------
(***************************************************************************)
(* mytree and mymtimes of Project1: both walk a directory tree with        *)
(* readdir, mytree to print it and mymtimes to count the files modified in *)
(* each of the last hours, while others create, move, remove and modify    *)
(* files.  An open directory is held by its inode (`dir'), everything else *)
(* is found by path.                                                       *)
(*                                                                         *)
(* readdir returns what was in the directory at opendir and what is there  *)
(* now, each once and in any order; it may leave out what has come or gone *)
(* since, and may return what has gone.                                    *)
(***************************************************************************)
EXTENDS Clock, FiniteSets, SequencesExt

CONSTANTS Dirs, Files,      \* names below the path that is walked
          Root, Nowhere,    \* that path; where a name is when there is none
          Hidden,           \* the names that begin with a dot
          Locked,           \* the directories opendir refuses
          HR_IN_SECS, NUM_HOURS,
          Layouts, Stamps,  \* where the names are at first, and the mtimes
          MaxChanges        \* bound: what others change in a behaviour

Entries == Dirs \union Files
Places  == Dirs \union {Root, Nowhere}

(* A tree: no directory is above itself, and what is in a directory is so  *)
(* while the directory is somewhere                                        *)
IsTree(parent) ==
    /\ \A S \in SUBSET Dirs : S # {} => \E d \in S : parent[d] \notin S
    /\ \A e \in Entries : parent[e] \in Dirs => parent[parent[e]] # Nowhere

ASSUME WalkAssumption ==
    /\ Dirs \intersect Files = {} /\ {Root, Nowhere} \intersect Entries = {}
    /\ Hidden \subseteq Entries /\ Locked \subseteq Dirs /\ Root # Nowhere
    /\ HR_IN_SECS \in Nat \ {0} /\ NUM_HOURS \in Nat \ {0}
    /\ IsFiniteSet(Files)
    /\ \A layout \in Layouts : layout \in [Entries -> Places] /\ IsTree(layout)
    /\ Stamps \subseteq [Files -> Nat]
    /\ MaxChanges \in Nat

VARIABLES
    prog, wat,     \* which of the two programs runs, and where it is
    dirOf, mtime,  \* the file system
    stack,         \* the open directories
    current_time, mod_count,
    dirDepth, lines,          \* mytree's depth, and what it has printed
    moved, modified, changes  \* ghosts: what others have done during the walk

fileVars == <<dirOf, mtime, moved, modified, changes>>
walkVars == <<prog, wat, stack, current_time, mod_count, dirDepth, lines, fileVars>>

Children(d) == {e \in Entries : dirOf[e] = d}
Above[e \in Entries] ==
    IF dirOf[e] \in Dirs THEN {dirOf[e]} \union Above[dirOf[e]] ELSE {}

WalkInit ==
    /\ prog = "none" /\ wat = "off"
    /\ dirOf \in Layouts /\ mtime \in Stamps
    /\ stack = <<>> /\ current_time = 0 /\ mod_count = [n \in 0 .. NUM_HOURS - 1 |-> 0]
    /\ dirDepth = 0 /\ lines = <<>>
    /\ moved = {} /\ modified = {} /\ changes = 0

(* A path is the sequence of names below the root *)
Exists(path) ==
    \A i \in DOMAIN path : dirOf[path[i]] = (IF i = 1 THEN Root ELSE path[i - 1])
Opens(path) == Exists(path) /\ (path = <<>> \/ Last(path) \notin Locked)

Frame(path) ==
    LET dir == IF path = <<>> THEN Root ELSE Last(path)
    IN [path |-> path, dir |-> dir, start |-> Children(dir), returned |-> {}]

(* main: initVariables in mymtimes, then opendir of the root *)
BeginWalk ==
    /\ wat = "args" /\ wat' = "walk" /\ stack' = <<Frame(<<>>)>>
    /\ current_time' = tv_sec(now)
    /\ UNCHANGED <<prog, mod_count, dirDepth, lines, fileVars>>

Top == Last(stack)

(* What readdir may return next, and what it must have returned at its end *)
Returnable == (Top.start \union Children(Top.dir)) \ Top.returned
Returned(e) == [stack EXCEPT ![Len(stack)].returned = @ \union {e}]
Owed == (Top.start \intersect Children(Top.dir)) \ (Top.returned \union moved)

(* A directory: the recursive call opens it by its path; dirDepth is taken *)
(* back when it cannot be opened                                           *)
Descend(e) ==
    LET path == Append(Top.path, e)
    IN IF Opens(path)
       THEN stack' = Append(Returned(e), Frame(path)) /\ dirDepth' = dirDepth + 1
       ELSE stack' = Returned(e) /\ UNCHANGED dirDepth

(* The division of C truncates towards zero *)
Quotient(a, b) == IF a >= 0 THEN a \div b ELSE -((-a) \div b)

\* Mutant: the hours are rounded up.
HourUp(f) == (current_time - mtime[f] + HR_IN_SECS - 1) \div HR_IN_SECS

HourOf(f) == Quotient(current_time - mtime[f], HR_IN_SECS)

(* A file of mymtimes: stat finds it by its path or not *)
Count(e) ==
    LET n == HourOf(e)
    IN /\ mod_count' = IF Exists(Append(Top.path, e)) /\ n \in DOMAIN mod_count
                       THEN [mod_count EXCEPT ![n] = @ + 1] ELSE mod_count
       /\ stack' = Returned(e) /\ UNCHANGED dirDepth

(* One turn of the loop of mymtimes *)
CountEntry(e) ==
    /\ prog = "mymtimes"
    /\ IF e \in Dirs THEN Descend(e) /\ UNCHANGED mod_count ELSE Count(e)
    /\ UNCHANGED lines

(* One turn of the loop of mytree, which skips names with a dot *)
ShowEntry(e) ==
    /\ prog = "mytree"
    /\ IF e \in Hidden
       THEN stack' = Returned(e) /\ UNCHANGED <<lines, dirDepth>>
       ELSE /\ lines' = Append(lines, [depth |-> dirDepth, entry |-> e])
            /\ IF e \in Dirs THEN Descend(e) ELSE stack' = Returned(e) /\ UNCHANGED dirDepth
    /\ UNCHANGED mod_count

NextEntry ==
    /\ wat = "walk" /\ stack # <<>>
    /\ \E e \in Returnable : CountEntry(e) \/ ShowEntry(e)
    /\ UNCHANGED <<prog, wat, current_time, fileVars>>

\* Mutant: dirDepth is not taken back.
EndDirDeeper ==
    /\ wat = "walk" /\ stack # <<>> /\ Owed = {}
    /\ stack' = Front(stack)
    /\ UNCHANGED <<prog, wat, current_time, mod_count, lines, dirDepth, fileVars>>

(* readdir has returned NULL: closedir, and back in the caller *)
EndDir ==
    /\ wat = "walk" /\ stack # <<>> /\ Owed = {}
    /\ stack' = Front(stack)
    /\ dirDepth' = IF Len(stack) > 1 THEN dirDepth - 1 ELSE dirDepth
    /\ UNCHANGED <<prog, wat, current_time, mod_count, lines, fileVars>>

(* printModifiedCounts, and the end *)
EndWalk ==
    /\ wat = "walk" /\ stack = <<>> /\ wat' = "ended"
    /\ UNCHANGED <<prog, stack, current_time, mod_count, dirDepth, lines, fileVars>>

Walker == BeginWalk \/ NextEntry \/ EndDir \/ EndWalk

(* The others.  A directory that is removed is empty, none goes below      *)
(* itself; a file that comes anew is modified now.                         *)
MayMove(e, d) ==
    /\ d # dirOf[e] /\ (d \in Dirs => dirOf[d] # Nowhere)
    /\ e \in Dirs => /\ d # e /\ (d \in Dirs => e \notin Above[d])
                     /\ d = Nowhere => Children(e) = {}

Rename ==
    \E e \in Entries, d \in Places :
        /\ MayMove(e, d)
        /\ dirOf' = [dirOf EXCEPT ![e] = d] /\ moved' = moved \union {e}
        /\ mtime' = IF e \in Files /\ dirOf[e] = Nowhere
                    THEN [mtime EXCEPT ![e] = tv_sec(now)] ELSE mtime
        /\ UNCHANGED modified

Modify ==
    \E f \in Files :
        /\ dirOf[f] # Nowhere
        /\ mtime' = [mtime EXCEPT ![f] = tv_sec(now)] /\ modified' = modified \union {f}
        /\ UNCHANGED <<dirOf, moved>>

Others ==
    /\ wat = "walk" /\ changes < MaxChanges /\ changes' = changes + 1
    /\ Rename \/ Modify
    /\ UNCHANGED <<prog, wat, stack, current_time, mod_count, dirDepth, lines>>

WalkType ==
    /\ prog \in {"none", "mytree", "mymtimes"} /\ wat \in {"off", "args", "walk", "ended"}
    /\ dirOf \in [Entries -> Places] /\ mtime \in [Files -> Nat]
    /\ \A i \in DOMAIN stack : /\ stack[i].path \in Seq(Dirs)
                               /\ stack[i].start \subseteq Entries
                               /\ stack[i].returned \subseteq Entries
    /\ current_time \in Nat /\ mod_count \in [0 .. NUM_HOURS - 1 -> Nat]
    /\ dirDepth = (IF stack = <<>> THEN 0 ELSE Len(stack) - 1)
    /\ moved \subseteq Entries /\ modified \subseteq Files /\ changes \in 0 .. MaxChanges
----------------------------------------------------------------------------
(* Properties *)

Undisturbed(e) == e \notin moved /\ Above[e] \intersect moved = {} /\ dirOf[e] # Nowhere

(* past_hours, the labels of the counts *)
past_hours == [n \in 0 .. NUM_HOURS - 1 |-> current_time - (n + 1) * HR_IN_SECS]

(* The files that belong to the hour after a label.  To the last hour the  *)
(* truncating division (mymtimes.c:74) adds what is stamped up to an hour  *)
(* ahead of the clock.                                                     *)
Hour(n) ==
    {f \in Files :
        /\ Undisturbed(f) /\ f \notin modified /\ Above[f] \intersect Locked = {}
        /\ mtime[f] > past_hours[n]
        /\ \/ mtime[f] <= past_hours[n] + HR_IN_SECS
           \/ n = 0 /\ mtime[f] < current_time + HR_IN_SECS}

(* mymtimes counts every file that nobody touches during the walk in the   *)
(* hour it belongs to, and once; the others make any count larger by at    *)
(* most as often as they can be met again, which takes a change each.      *)
CountsAreRight ==
    wat = "ended" /\ prog = "mymtimes" =>
        \A n \in DOMAIN mod_count :
            mod_count[n] - Cardinality(Hour(n)) \in
                0 .. (changes + 1) * Cardinality({f \in Files : ~Undisturbed(f) \/ f \in modified})

Visible(e) == Undisturbed(e) /\ ({e} \union Above[e]) \intersect Hidden = {}
Shown(e) == {i \in DOMAIN lines : lines[i].entry = e}

(* mytree shows everything that is visible and stays in its place once, by *)
(* its depth below the directory it is in, and all it can open.            *)
ListingIsTheTree ==
    wat = "ended" /\ prog = "mytree" =>
        \A e \in {x \in Entries : Visible(x) /\ Above[x] \intersect Locked = {}} :
            \E i \in DOMAIN lines :
                /\ Shown(e) = {i} /\ lines[i].depth = Cardinality(Above[e])
                /\ dirOf[e] # Root =>
                       \E j \in 1 .. i - 1 :
                           /\ lines[j].entry = dirOf[e] /\ lines[j].depth = lines[i].depth - 1
                           /\ \A k \in j + 1 .. i - 1 : lines[k].depth >= lines[i].depth
============================================================================

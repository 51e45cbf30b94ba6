----------------------------- MODULE WalkProofs -----------------------------
(***************************************************************************)
(* The walks of mytree and mymtimes, for every finite tree and any number  *)
(* of changes that others make to it meanwhile: the files counted are      *)
(* those of their hour, and what is listed is the tree.                    *)
(*                                                                         *)
(* Both rest on what a walk has still to come by.  An entry is pending     *)
(* while the way down to it branches off at an open directory that is      *)
(* where it was opened, by a name that has not been returned there.        *)
(***************************************************************************)
EXTENDS Walk, SequenceTheorems, FunctionTheorems, FiniteSetTheorems, TLAPS

\* An open directory: its path, its inode, and what readdir is about.
OpenDir == [path : Seq(Dirs), dir : Places, start : SUBSET Entries, returned : SUBSET Entries]

WalkTypes ==
  /\ prog \in {"none", "mytree", "mymtimes"} /\ wat \in {"off", "args", "walk", "ended"}
  /\ dirOf \in [Entries -> Places] /\ mtime \in [Files -> Nat]
  /\ stack \in Seq(OpenDir) /\ (wat # "walk" => stack = <<>>)
  /\ current_time \in Nat /\ mod_count \in [0 .. NUM_HOURS - 1 -> Nat]
  /\ dirDepth = (IF stack = <<>> THEN 0 ELSE Len(stack) - 1)
  /\ moved \subseteq Entries /\ modified \subseteq Files /\ changes \in 0 .. MaxChanges

Chain(e) == {e} \cup Above[e]

\* The directory the k-th open one was; it is live while its path leads to it.
Opened(k) == stack[k].dir
Live(k) == \A i \in 2 .. k : dirOf[Opened(i)] = Opened(i - 1)

Pending(e) ==
  \E k \in 1 .. Len(stack), x \in Chain(e) :
    Live(k) /\ dirOf[x] = Opened(k) /\ x \notin stack[k].returned

-----------------------------------------------------------------------------
(* What is true of the open directories, by whichever program.             *)

\* Each was returned by the one before it, and the path is that of their names.
Spine ==
  stack # <<>> =>
    /\ Opened(1) = Root
    /\ \A k \in 1 .. Len(stack) : stack[k].path = [i \in 1 .. k - 1 |-> Opened(i + 1)]
    /\ \A k \in 2 .. Len(stack) : Opened(k) \in (Dirs \cap stack[k - 1].returned) \ Locked

\* What nobody has moved is in a directory now if it was when that was opened.
Starts ==
  \A k \in 1 .. Len(stack), e \in Entries \ moved :
    e \in stack[k].start <=> dirOf[e] = Opened(k)

\* A directory is cut off only by moving it or one above.
CutOffs == \A k \in 1 .. Len(stack) : ~Live(k) => Chain(Opened(k)) \cap moved # {}

\* Before a walk begins nothing has happened.
Fresh ==
  wat \in {"off", "args"} =>
    /\ moved = {} /\ modified = {} /\ changes = 0 /\ lines = <<>>
    /\ mod_count = [n \in 0 .. NUM_HOURS - 1 |-> 0]

-----------------------------------------------------------------------------
(* What the programs have done so far.                                     *)

Begun == wat \in {"walk", "ended"}

Disturbed == {f \in Files : ~Undisturbed(f) \/ f \in modified}
Waiting == {f \in Disturbed : Pending(f)}
Done(n) == {f \in Hour(n) : ~Pending(f)}

\* The count of an hour is that of the files that the walk has been past; each of
\* the others has been met at most once for every change, and once before.
Counts ==
  Begun /\ prog = "mymtimes" =>
    \A n \in DOMAIN mod_count :
      /\ Cardinality(Done(n)) <= mod_count[n]
      /\ mod_count[n] + Cardinality(Waiting)
           <= Cardinality(Done(n)) + (changes + 1) * Cardinality(Disturbed)

\* The line of an entry, the only one, below that of its directory.
Placed(e, i) ==
  /\ Shown(e) = {i} /\ lines[i].depth = Cardinality(Above[e])
  /\ dirOf[e] # Root =>
       \E j \in 1 .. i - 1 :
         /\ lines[j].entry = dirOf[e] /\ lines[j].depth = lines[i].depth - 1
         /\ \A k \in j + 1 .. i - 1 : lines[k].depth >= lines[i].depth

Expected(e) == Visible(e) /\ Above[e] \cap Locked = {}

Listing ==
  Begun /\ prog = "mytree" =>
    \A e \in Entries : Expected(e) =>
      IF Pending(e) THEN Shown(e) = {} ELSE \E i \in DOMAIN lines : Placed(e, i)

\* The line of an open directory, and what has come below it.
Branches ==
  Begun /\ prog = "mytree" =>
    \A k \in 2 .. Len(stack) :
      \E j \in DOMAIN lines :
        /\ lines[j].entry = Opened(k) /\ lines[j].depth = k - 2
        /\ \A m \in j + 1 .. Len(lines) : lines[m].depth >= k - 1

LineTypes == lines \in Seq([depth : Nat, entry : Entries])

WalkInv ==
  /\ WalkTypes /\ IsTree(dirOf) /\ LineTypes /\ Spine /\ Starts /\ CutOffs /\ Fresh
  /\ Counts /\ Listing /\ Branches

-----------------------------------------------------------------------------
(* Trees.  Above is the function that satisfies its equation; the equation *)
(* has a solution, and an induction over a tree goes by the directory that *)
(* is not below another of those in question.                              *)

Ups(parent) ==
  CHOOSE A : A = [e \in Entries |-> IF parent[e] \in Dirs
                                     THEN {parent[e]} \cup A[parent[e]] ELSE {}]

LEMMA AboveIsUps == Above = Ups(dirOf) /\ Above' = Ups(dirOf')
BY DEF Above, Ups

LEMMA UpsEquation ==
  ASSUME NEW parent \in [Entries -> Places], NEW e \in Entries
  PROVE  /\ parent[e] \in Dirs => Ups(parent)[e] = {parent[e]} \cup Ups(parent)[parent[e]]
         /\ parent[e] \notin Dirs => Ups(parent)[e] = {}
<1> DEFINE Holds(S, x) == /\ parent[x] \in Dirs => parent[x] \in S
                          /\ \A d \in S : parent[d] \in Dirs => parent[d] \in S
           F == [x \in Entries |-> {d \in Dirs : \A S \in SUBSET Dirs : Holds(S, x) => d \in S}]
           G(A) == [x \in Entries |-> IF parent[x] \in Dirs
                                       THEN {parent[x]} \cup A[parent[x]] ELSE {}]
<1>1. ASSUME NEW x \in Entries
      PROVE  F[x] = IF parent[x] \in Dirs THEN {parent[x]} \cup F[parent[x]] ELSE {}
  <2>1. CASE parent[x] \in Dirs
    <3> DEFINE up == {parent[x]} \cup F[parent[x]]
    <3>1. parent[x] \in Entries
      BY <2>1 DEF Entries
    <3>2. up \in SUBSET Dirs /\ Holds(up, x)
      BY <2>1, <3>1
    <3>3. ASSUME NEW S \in SUBSET Dirs, Holds(S, x)
          PROVE  up \subseteq S
      BY <2>1, <3>1, <3>3
    <3>4. F[x] = {d \in Dirs : \A S \in SUBSET Dirs : Holds(S, x) => d \in S}
      OBVIOUS
    <3>5. F[x] = up
      <4> HIDE DEF Holds, F, up
      <4> QED
        BY <3>2, <3>3, <3>4
    <3> QED
      BY <2>1, <3>5
  <2>2. CASE parent[x] \notin Dirs
    <3>1. Holds({}, x)
      BY <2>2
    <3> QED
      BY <2>2, <3>1
  <2> QED
    BY <2>1, <2>2
<1>2. F = G(F)
  <2> HIDE DEF Holds
  <2>1. \A x \in Entries : F[x] = G(F)[x]
    BY <1>1
  <2> QED
    BY <2>1
<1> HIDE DEF F
<1>3. Ups(parent) = G(Ups(parent))
  BY <1>2 DEF Ups
<1>4. Ups(parent)[e] = G(Ups(parent))[e]
  BY <1>3
<1> QED
  BY <1>4

LEMMA TreeInduction ==
  ASSUME NEW parent, IsTree(parent), NEW T,
         \A d \in Dirs : (parent[d] \in Dirs => parent[d] \in T) => d \in T
  PROVE  Dirs \subseteq T
<1> SUFFICES ASSUME Dirs \ T # {} PROVE FALSE
  OBVIOUS
<1>1. PICK d \in Dirs \ T : parent[d] \notin Dirs \ T
  BY DEF IsTree
<1> QED
  BY <1>1

LEMMA UpsAreDirs ==
  ASSUME NEW parent \in [Entries -> Places], IsTree(parent), NEW e \in Entries
  PROVE  Ups(parent)[e] \subseteq Dirs
<1> DEFINE T == {d \in Dirs : Ups(parent)[d] \subseteq Dirs}
<1>1. ASSUME NEW d \in Dirs, parent[d] \in Dirs => parent[d] \in T
      PROVE  d \in T
  <2>1. d \in Entries
    BY DEF Entries
  <2>2. CASE parent[d] \in Dirs
    BY <1>1, <2>1, <2>2, UpsEquation
  <2>3. CASE parent[d] \notin Dirs
    BY <2>1, <2>3, UpsEquation
  <2> QED
    BY <2>2, <2>3
<1>2. Dirs \subseteq T
  <2> HIDE DEF T
  <2> QED
    BY <1>1, TreeInduction
<1> QED
  BY <1>2, UpsEquation

\* Being above is transitive, and leads through the directory that it ends in.
LEMMA UpsCompose ==
  ASSUME NEW parent \in [Entries -> Places], IsTree(parent),
         NEW e \in Entries, NEW d \in Ups(parent)[e]
  PROVE  /\ d \in Dirs /\ Ups(parent)[d] \subseteq Ups(parent)[e]
         /\ \E x \in {e} \cup Ups(parent)[e] : parent[x] = d
<1> DEFINE Good(x) == \A y \in Ups(parent)[x] :
                        /\ Ups(parent)[y] \subseteq Ups(parent)[x]
                        /\ \E z \in {x} \cup Ups(parent)[x] : parent[z] = y
           T == {x \in Dirs : Good(x)}
<1>1. ASSUME NEW x \in Entries, parent[x] \in Dirs => Good(parent[x])
      PROVE  Good(x)
  <2>1. CASE parent[x] \in Dirs
    <3>1. Ups(parent)[x] = {parent[x]} \cup Ups(parent)[parent[x]]
      BY <2>1, UpsEquation
    <3> QED
      BY <1>1, <2>1, <3>1
  <2>2. CASE parent[x] \notin Dirs
    BY <2>2, UpsEquation
  <2> QED
    BY <2>1, <2>2
<1> HIDE DEF Good
<1>2. \A x \in Dirs : (parent[x] \in Dirs => parent[x] \in T) => x \in T
  BY <1>1 DEF Entries
<1>3. Dirs \subseteq T
  <2> HIDE DEF T
  <2> QED
    BY <1>2, TreeInduction
<1>4. Good(e)
  BY <1>1, <1>3
<1> QED
  BY <1>4, UpsAreDirs DEF Good

LEMMA UpsClosed ==
  ASSUME NEW parent \in [Entries -> Places], IsTree(parent), NEW e \in Entries,
         NEW x \in {e} \cup Ups(parent)[e], parent[x] \in Dirs
  PROVE  parent[x] \in Ups(parent)[e]
<1>1. x \in Entries
  BY UpsAreDirs DEF Entries
<1>2. parent[x] \in Ups(parent)[x]
  BY <1>1, UpsEquation
<1>3. Ups(parent)[x] \subseteq Ups(parent)[e]
  BY UpsCompose
<1> QED
  BY <1>2, <1>3

LEMMA NotAboveItself ==
  ASSUME NEW parent \in [Entries -> Places], IsTree(parent), NEW e \in Entries
  PROVE  e \notin Ups(parent)[e]
<1> DEFINE T == {d \in Dirs : d \notin Ups(parent)[d]}
<1>1. ASSUME NEW d \in Dirs, parent[d] \in Dirs => parent[d] \in T
      PROVE  d \in T
  <2> SUFFICES ASSUME d \in Ups(parent)[d] PROVE FALSE
    OBVIOUS
  <2>1. d \in Entries
    BY DEF Entries
  <2>2. parent[d] \in Dirs /\ Ups(parent)[d] = {parent[d]} \cup Ups(parent)[parent[d]]
    BY <2>1, UpsEquation
  <2>3. parent[d] \in Entries /\ parent[d] \notin Ups(parent)[parent[d]]
    BY <1>1, <2>2 DEF Entries
  <2>4. d \in Ups(parent)[parent[d]]
    BY <2>2, <2>3
  <2>5. Ups(parent)[d] \subseteq Ups(parent)[parent[d]]
    BY <2>3, <2>4, UpsCompose
  <2> QED
    BY <2>2, <2>3, <2>5
<1>2. Dirs \subseteq T
  <2> HIDE DEF T
  <2> QED
    BY <1>1, TreeInduction
<1> QED
  BY <1>2, UpsAreDirs

\* Only what is on the way up decides what the way up is.
LEMMA SameUps ==
  ASSUME NEW p \in [Entries -> Places], NEW q \in [Entries -> Places], IsTree(p),
         NEW e \in Entries, \A x \in {e} \cup Ups(p)[e] : q[x] = p[x]
  PROVE  Ups(q)[e] = Ups(p)[e]
<1> DEFINE Good(x) == (\A y \in {x} \cup Ups(p)[x] : q[y] = p[y]) => Ups(q)[x] = Ups(p)[x]
           T == {x \in Dirs : Good(x)}
<1>1. ASSUME NEW x \in Entries, p[x] \in Dirs => Good(p[x])
      PROVE  Good(x)
  <2>1. CASE p[x] \in Dirs
    <3>1. Ups(p)[x] = {p[x]} \cup Ups(p)[p[x]]
      BY <2>1, UpsEquation
    <3>2. q[x] = p[x] => Ups(q)[x] = {p[x]} \cup Ups(q)[p[x]]
      BY <2>1, UpsEquation
    <3> QED
      BY <1>1, <2>1, <3>1, <3>2
  <2>2. CASE p[x] \notin Dirs
    BY <2>2, UpsEquation
  <2> QED
    BY <2>1, <2>2
<1> HIDE DEF Good
<1>2. \A x \in Dirs : (p[x] \in Dirs => p[x] \in T) => x \in T
  BY <1>1 DEF Entries
<1>3. Dirs \subseteq T
  <2> HIDE DEF T
  <2> QED
    BY <1>2, TreeInduction
<1>4. Good(e)
  BY <1>1, <1>3
<1> QED
  BY <1>4 DEF Good

\* Who is above stays above when it is the one that is moved.
LEMMA StaysAbove ==
  ASSUME NEW p \in [Entries -> Places], IsTree(p), NEW e \in Entries, NEW d \in Places,
         NEW f \in Entries, e \in Ups(p)[f]
  PROVE  e \in Ups([p EXCEPT ![e] = d])[f]
<1> DEFINE q == [p EXCEPT ![e] = d]
           Good(x) == e \in Ups(p)[x] => e \in Ups(q)[x]
           T == {x \in Dirs : Good(x)}
<1>0. q \in [Entries -> Places] /\ \A x \in Entries \ {e} : q[x] = p[x]
  OBVIOUS
<1> HIDE DEF q
<1>1. ASSUME NEW x \in Entries, p[x] \in Dirs => Good(p[x])
      PROVE  Good(x)
  <2> SUFFICES ASSUME e \in Ups(p)[x] PROVE e \in Ups(q)[x]
    OBVIOUS
  <2>1. p[x] \in Dirs /\ Ups(p)[x] = {p[x]} \cup Ups(p)[p[x]]
    BY UpsEquation
  <2>2. q[x] = p[x]
    BY <1>0, NotAboveItself
  <2>3. Ups(q)[x] = {p[x]} \cup Ups(q)[p[x]]
    BY <1>0, <2>1, <2>2, UpsEquation
  <2> QED
    BY <1>1, <2>1, <2>3
<1> HIDE DEF Good
<1>2. \A x \in Dirs : (p[x] \in Dirs => p[x] \in T) => x \in T
  BY <1>1 DEF Entries
<1>3. Dirs \subseteq T
  <2> HIDE DEF T
  <2> QED
    BY <1>2, TreeInduction
<1>4. Good(f)
  BY <1>1, <1>3
<1> QED
  BY <1>4 DEF Good, q

\* What MayMove allows leaves a tree.
LEMMA StaysTree ==
  ASSUME NEW p \in [Entries -> Places], IsTree(p), NEW e \in Entries, NEW d \in Places,
         d \in Dirs => p[d] # Nowhere /\ d # e /\ e \notin Ups(p)[d],
         e \in Dirs /\ d = Nowhere => \A x \in Entries : p[x] # e
  PROVE  IsTree([p EXCEPT ![e] = d])
<1> DEFINE q == [p EXCEPT ![e] = d]
<1>0. q \in [Entries -> Places] /\ q[e] = d /\ \A x \in Entries \ {e} : q[x] = p[x]
  OBVIOUS
<1> HIDE DEF q
<1>1. ASSUME NEW S \in SUBSET Dirs, S # {}, \A x \in S : q[x] \in S
      PROVE  FALSE
  <2> DEFINE S2 == {x \in S : x # e /\ e \notin Ups(p)[x]}
  <2>1. \A x \in S2 : p[x] \in S2
    <3> SUFFICES ASSUME NEW x \in S2 PROVE p[x] \in S2
      OBVIOUS
    <3>1. x \in Entries /\ p[x] = q[x] /\ p[x] \in S /\ p[x] \in Dirs
      BY <1>0, <1>1 DEF Entries
    <3>2. Ups(p)[x] = {p[x]} \cup Ups(p)[p[x]]
      BY <3>1, UpsEquation
    <3> QED
      BY <3>1, <3>2
  <2>2. S2 = {}
    <3>1. S2 \in SUBSET Dirs
      OBVIOUS
    <3> HIDE DEF S2
    <3> QED
      BY <2>1, <3>1 DEF IsTree
  <2>3. e \notin S
    <3> SUFFICES ASSUME e \in S PROVE FALSE
      OBVIOUS
    <3>1. d \in S /\ d \in Dirs
      BY <1>0, <1>1
    <3> QED
      BY <2>2, <3>1
  <2>4. \A x \in S : p[x] = q[x]
    BY <1>0, <2>3 DEF Entries
  <2> QED
    BY <1>1, <2>4 DEF IsTree
<1>2. ASSUME NEW x \in Entries, q[x] \in Dirs
      PROVE  q[q[x]] # Nowhere
  <2>1. q[x] \in Entries
    BY <1>2 DEF Entries
  <2>2. CASE x = e
    BY <1>0, <1>2, <2>1, <2>2
  <2>3. CASE x # e
    BY <1>0, <1>2, <2>1, <2>3 DEF IsTree
  <2> QED
    BY <2>2, <2>3
<1>3. IsTree(q)
  BY <1>1, <1>2 DEF IsTree
<1> QED
  BY <1>3 DEF q

-----------------------------------------------------------------------------
(* Types                                                                   *)

LEMMA FrameType ==
  ASSUME NEW path \in Seq(Dirs)
  PROVE  Frame(path) \in OpenDir
<1>1. path # <<>> => Last(path) \in Dirs
  BY LenProperties, ElementOfSeq DEF Last
<1>2. (IF path = <<>> THEN Root ELSE Last(path)) \in Places
  BY <1>1 DEF Places
<1> QED
  BY <1>2 DEF Frame, OpenDir, Children

LEMMA StackFacts ==
  ASSUME stack \in Seq(OpenDir), stack # <<>>
  PROVE  /\ Len(stack) \in Nat \ {0} /\ Top \in OpenDir /\ Top = stack[Len(stack)]
         /\ Returnable \subseteq Entries
<1>1. Len(stack) \in Nat \ {0}
  BY EmptySeq
<1>2. Top \in OpenDir /\ Top = stack[Len(stack)]
  BY <1>1, ElementOfSeq DEF Top, Last
<1> QED
  BY <1>1, <1>2 DEF Returnable, OpenDir, Children

LEMMA ReturnedType ==
  ASSUME stack \in Seq(OpenDir), stack # <<>>, NEW e \in Entries
  PROVE  Returned(e) \in Seq(OpenDir) /\ Len(Returned(e)) = Len(stack) /\ Returned(e) # <<>>
<1> DEFINE top == [stack[Len(stack)] EXCEPT !.returned = @ \union {e}]
<1>1. Len(stack) \in Nat \ {0} /\ stack[Len(stack)] \in OpenDir
  BY StackFacts
<1>2. top \in OpenDir
  BY <1>1 DEF OpenDir
<1>3. Returned(e) = [stack EXCEPT ![Len(stack)] = top]
  BY DEF Returned
<1> HIDE DEF top
<1>4. Returned(e) \in Seq(OpenDir) /\ Len(Returned(e)) = Len(stack)
  BY <1>1, <1>2, <1>3, ExceptSeq
<1> QED
  BY <1>1, <1>4, EmptySeq

\* What a walk pushes is an open directory, and the depth counts what it pushes.
LEMMA DescendType ==
  ASSUME stack \in Seq(OpenDir), stack # <<>>, NEW e \in Dirs, Descend(e),
         dirDepth = Len(stack) - 1
  PROVE  /\ stack' \in Seq(OpenDir) /\ stack' # <<>> /\ dirDepth' = Len(stack') - 1
<1> DEFINE path == Append(Top.path, e)
<1>1. e \in Entries
  BY DEF Entries
<1>2. path \in Seq(Dirs)
  <2>1. Top.path \in Seq(Dirs)
    BY StackFacts DEF OpenDir
  <2> QED
    BY <2>1, AppendProperties
<1>3. Frame(path) \in OpenDir
  BY <1>2, FrameType
<1>4. \/ stack' = Append(Returned(e), Frame(path)) /\ dirDepth' = dirDepth + 1
      \/ stack' = Returned(e) /\ dirDepth' = dirDepth
  BY DEF Descend
<1> HIDE DEF path
<1>5. Returned(e) \in Seq(OpenDir) /\ Len(Returned(e)) = Len(stack) /\ Returned(e) # <<>>
      /\ Len(stack) \in Nat
  BY <1>1, ReturnedType, StackFacts
<1>6. CASE stack' = Append(Returned(e), Frame(path)) /\ dirDepth' = dirDepth + 1
  BY <1>3, <1>5, <1>6, AppendProperties
<1>7. CASE stack' = Returned(e) /\ dirDepth' = dirDepth
  BY <1>5, <1>7
<1> QED
  BY <1>4, <1>6, <1>7

LEMMA TimeFields ==
  ASSUME NEW t \in Nat
  PROVE  /\ tv_sec(t) \in Nat /\ tv_usec(t) \in 0 .. Unit - 1
         /\ t = tv_sec(t) * Unit + tv_usec(t)
BY ClockAssumption DEF tv_sec, tv_usec

LEMMA EntryTypes ==
  ASSUME WalkTypes, NextEntry
  PROVE  WalkTypes'
<1> USE DEF WalkTypes
<1>1. PICK e \in Returnable : CountEntry(e) \/ ShowEntry(e)
  BY DEF NextEntry
<1>2. /\ stack \in Seq(OpenDir) /\ stack # <<>> /\ wat = "walk" /\ dirDepth = Len(stack) - 1
      /\ mod_count \in [0 .. NUM_HOURS - 1 -> Nat]
      /\ UNCHANGED <<prog, wat, current_time, dirOf, mtime, moved, modified, changes>>
  BY DEF NextEntry, fileVars
<1>3. e \in Entries
  BY <1>2, StackFacts
<1>4. stack' \in Seq(OpenDir) /\ stack' # <<>> /\ dirDepth' = Len(stack') - 1
  <2>1. CASE e \in Dirs /\ Descend(e)
    BY <1>2, <2>1, DescendType
  <2>2. CASE stack' = Returned(e) /\ UNCHANGED dirDepth
    BY <1>2, <1>3, <2>2, ReturnedType
  <2> QED
    BY <1>1, <2>1, <2>2 DEF CountEntry, ShowEntry, Count
<1>5. mod_count' \in [0 .. NUM_HOURS - 1 -> Nat]
  <2>1. CASE UNCHANGED mod_count
    BY <1>2, <2>1
  <2>2. CASE \E n \in DOMAIN mod_count : mod_count' = [mod_count EXCEPT ![n] = @ + 1]
    BY <1>2, <2>2
  <2> QED
    BY <1>1, <2>1, <2>2 DEF CountEntry, ShowEntry, Count
<1> QED
  BY <1>2, <1>4, <1>5

\* EndDir closes the last directory on the stack, and dirDepth follows.
LEMMA EndDirTypes ==
  ASSUME stack \in Seq(OpenDir), dirDepth = (IF stack = <<>> THEN 0 ELSE Len(stack) - 1), EndDir
  PROVE  /\ stack' \in Seq(OpenDir)
         /\ dirDepth' = IF stack' = <<>> THEN 0 ELSE Len(stack') - 1
<1> DEFINE n == Len(stack)
           m == Len(stack')
<1>1. stack # <<>> /\ stack' = SubSeq(stack, 1, n - 1)
  BY DEF EndDir, Front
<1>2. n \in Nat \ {0}
  BY <1>1, StackFacts
<1>3. stack' \in Seq(OpenDir) /\ m = n - 1
  <2>1. \A i \in 1 .. n : stack[i] \in OpenDir
    BY <1>2, ElementOfSeq
  <2>2. n - 1 \in Nat
    BY <1>2
  <2>3. SubSeq(stack, 1, n - 1) \in Seq(OpenDir) /\ Len(SubSeq(stack, 1, n - 1)) = n - 1
    BY <1>2, <2>1, <2>2, SubSeqProperties
  <2> QED
    BY <1>1, <2>3
<1>4. stack' = <<>> <=> m = 0
  BY <1>3, EmptySeq
<1>5. dirDepth = n - 1 /\ dirDepth' = IF n > 1 THEN dirDepth - 1 ELSE dirDepth
  BY <1>1 DEF EndDir
<1>6. dirDepth' = IF m = 0 THEN 0 ELSE m - 1
  <2> HIDE DEF n, m
  <2> QED
    BY <1>2, <1>3, <1>5
<1> QED
  BY <1>3, <1>4, <1>6

LEMMA WalkerTypes ==
  ASSUME WalkTypes, now \in Nat, Walker
  PROVE  WalkTypes'
<1> USE DEF WalkTypes, fileVars
<1>1. CASE BeginWalk
  <2>1. stack' = <<Frame(<<>>)>> /\ stack = <<>> /\ wat' = "walk" /\ current_time' = tv_sec(now)
        /\ UNCHANGED <<prog, mod_count, dirDepth, dirOf, mtime, moved, modified, changes>>
    BY <1>1 DEF BeginWalk
  <2>2. Frame(<<>>) \in OpenDir /\ tv_sec(now) \in Nat
    <3>1. <<>> \in Seq(Dirs)
      OBVIOUS
    <3> QED
      BY <3>1, FrameType, TimeFields
  <2>3. stack' \in Seq(OpenDir) /\ stack' # <<>> /\ Len(stack') = 1
    BY <2>1, <2>2
  <2> QED
    BY <2>1, <2>2, <2>3
<1>2. CASE NextEntry
  BY <1>2, EntryTypes
<1>3. CASE EndDir
  <2>1. /\ stack # <<>> /\ wat' = "walk"
        /\ UNCHANGED <<prog, current_time, mod_count, dirOf, mtime, moved, modified, changes>>
    BY <1>3 DEF EndDir
  <2> QED
    BY <2>1, <1>3, EndDirTypes
<1>4. CASE EndWalk
  BY <1>4 DEF EndWalk
<1> QED
  BY <1>1, <1>2, <1>3, <1>4 DEF Walker

LEMMA OthersTypes ==
  ASSUME WalkTypes, now \in Nat, Others
  PROVE  WalkTypes'
<1> USE DEF WalkTypes
<1>1. changes' \in 0 .. MaxChanges
      /\ UNCHANGED <<prog, wat, stack, current_time, mod_count, dirDepth, lines>>
  BY WalkAssumption DEF Others
<1>2. tv_sec(now) \in Nat
  BY TimeFields
<1>3. CASE Rename
  <2>1. PICK e \in Entries, d \in Places :
          /\ dirOf' = [dirOf EXCEPT ![e] = d] /\ moved' = moved \union {e}
          /\ mtime' = (IF e \in Files /\ dirOf[e] = Nowhere
                       THEN [mtime EXCEPT ![e] = tv_sec(now)] ELSE mtime)
          /\ UNCHANGED modified
    BY <1>3 DEF Rename
  <2>2. mtime' \in [Files -> Nat]
    BY <1>2, <2>1
  <2> QED
    BY <1>1, <2>1, <2>2
<1>4. CASE Modify
  BY <1>1, <1>2, <1>4 DEF Modify
<1> QED
  BY <1>3, <1>4 DEF Others

-----------------------------------------------------------------------------
(* The way up, and the open directories that are on it                     *)

LEMMA ChainFacts ==
  ASSUME dirOf \in [Entries -> Places], IsTree(dirOf), NEW e \in Entries
  PROVE  /\ Above[e] \subseteq Dirs /\ Chain(e) \subseteq Entries /\ e \notin Above[e]
         /\ \A d \in Above[e] : Chain(d) \subseteq Above[e] /\ \E x \in Chain(e) : dirOf[x] = d
         /\ \A x \in Chain(e) : /\ Chain(x) \subseteq Chain(e)
                                /\ dirOf[x] \in Dirs => dirOf[x] \in Above[e]
         /\ dirOf[e] \in Dirs => Above[e] = Chain(dirOf[e])
         /\ dirOf[e] \notin Dirs => Above[e] = {}
<1>1. Above[e] \subseteq Dirs /\ e \notin Above[e]
  BY UpsAreDirs, NotAboveItself, AboveIsUps
<1>2. ASSUME NEW d \in Above[e]
      PROVE  Chain(d) \subseteq Above[e] /\ \E x \in Chain(e) : dirOf[x] = d
  BY UpsCompose, AboveIsUps DEF Chain
<1>3. ASSUME NEW x \in Chain(e)
      PROVE  Chain(x) \subseteq Chain(e) /\ (dirOf[x] \in Dirs => dirOf[x] \in Above[e])
  BY <1>2, UpsClosed, AboveIsUps DEF Chain
<1>4. /\ dirOf[e] \in Dirs => Above[e] = Chain(dirOf[e])
      /\ dirOf[e] \notin Dirs => Above[e] = {}
  BY UpsEquation, AboveIsUps DEF Chain
<1> QED
  BY <1>1, <1>2, <1>3, <1>4 DEF Chain, Entries

\* What is needed of the open directories wherever a path is compared with them.
Upright ==
  /\ dirOf \in [Entries -> Places] /\ IsTree(dirOf) /\ stack \in Seq(OpenDir) /\ stack # <<>>
  /\ Spine

\* Above a directory that is live are those that are open above it.
LEMMA LiveAbove ==
  ASSUME Upright, NEW k \in 2 .. Len(stack), Live(k)
  PROVE  Above[Opened(k)] = {Opened(i) : i \in 2 .. k - 1}
<1> DEFINE Good(d) == \A n \in 2 .. Len(stack) :
                        Live(n) /\ Opened(n) = d => Above[d] = {Opened(i) : i \in 2 .. n - 1}
           T == {d \in Dirs : Good(d)}
<1>0. Len(stack) \in Nat /\ Opened(1) = Root /\ \A n \in 2 .. Len(stack) : Opened(n) \in Dirs
  BY StackFacts DEF Upright, Spine
<1>1. ASSUME NEW d \in Dirs, dirOf[d] \in Dirs => dirOf[d] \in T
      PROVE  d \in T
  <2> SUFFICES ASSUME NEW n \in 2 .. Len(stack), Live(n), Opened(n) = d
               PROVE  Above[d] = {Opened(i) : i \in 2 .. n - 1}
    OBVIOUS
  <2>0. d \in Entries /\ n \in Nat /\ n >= 2
    BY <1>0 DEF Entries
  <2>1. dirOf[d] = Opened(n - 1)
    BY <2>0 DEF Live
  <2>2. CASE n = 2
    <3>1. dirOf[d] \notin Dirs
      BY <1>0, <2>1, <2>2, WalkAssumption DEF Entries
    <3>2. 2 .. n - 1 = {}
      BY <2>2
    <3> QED
      BY <2>0, <3>1, <3>2, ChainFacts DEF Upright
  <2>3. CASE n # 2
    <3>1. n - 1 \in 2 .. Len(stack)
      BY <1>0, <2>0, <2>3
    <3>2. Live(n - 1)
      <4>1. 2 .. n - 1 \subseteq 2 .. n
        BY <2>0
      <4> QED
        BY <4>1 DEF Live
    <3>3. dirOf[d] \in Dirs /\ Good(dirOf[d])
      BY <1>0, <1>1, <2>1, <3>1
    <3>4. Above[dirOf[d]] = {Opened(i) : i \in 2 .. (n - 1) - 1}
      BY <2>1, <3>1, <3>2, <3>3
    <3>5. Above[d] = {dirOf[d]} \cup Above[dirOf[d]]
      BY <2>0, <3>3, ChainFacts DEF Upright, Chain
    <3>6. 2 .. n - 1 = 2 .. (n - 1) - 1 \cup {n - 1}
      BY <2>0, <2>3
    <3> HIDE DEF T
    <3> QED
      BY <2>1, <3>4, <3>5, <3>6
  <2> QED
    BY <2>2, <2>3
<1>2. Dirs \subseteq T
  <2> HIDE DEF T
  <2> QED
    BY <1>1, TreeInduction DEF Upright
<1> QED
  BY <1>0, <1>2

LEMMA LiveBelow ==
  ASSUME NEW k \in Nat, NEW i \in 1 .. k, Live(k)
  PROVE  Live(i)
<1>1. 2 .. i \subseteq 2 .. k
  OBVIOUS
<1> QED
  BY <1>1 DEF Live

\* No directory is open twice while it is live.
LEMMA OpenedOnce ==
  ASSUME Upright, NEW k \in 1 .. Len(stack), Live(k), NEW i \in 1 .. k, NEW j \in 1 .. k,
         Opened(i) = Opened(j)
  PROVE  i = j
<1>0. Len(stack) \in Nat /\ Opened(1) = Root /\ \A n \in 2 .. Len(stack) : Opened(n) \in Dirs
  BY StackFacts DEF Upright, Spine
<1>1. ASSUME NEW a \in 1 .. k, NEW b \in 1 .. k, a < b
      PROVE  Opened(a) # Opened(b)
  <2>1. b \in 2 .. Len(stack) /\ Live(b) /\ Opened(b) \in Entries
    BY <1>0, <1>1, LiveBelow DEF Entries
  <2>2. CASE a = 1
    BY <1>0, <2>1, <2>2, WalkAssumption DEF Entries
  <2>3. CASE a # 1
    <3>1. a \in 2 .. b - 1
      BY <1>0, <1>1, <2>3
    <3>2. Opened(a) \in Above[Opened(b)]
      BY <2>1, <3>1, LiveAbove
    <3> QED
      BY <2>1, <3>2, ChainFacts DEF Upright
  <2> QED
    BY <2>2, <2>3
<1> QED
  BY <1>0, <1>1

\* What is in a live directory is as deep as that is.
LEMMA LiveDepth ==
  ASSUME Upright, NEW k \in 1 .. Len(stack), Live(k), NEW e \in Entries, dirOf[e] = Opened(k)
  PROVE  /\ Above[e] = {Opened(i) : i \in 2 .. k}
         /\ IsFiniteSet(Above[e]) /\ Cardinality(Above[e]) = k - 1
<1>0. Len(stack) \in Nat /\ k \in Nat /\ k >= 1 /\ Opened(1) = Root
      /\ \A n \in 2 .. Len(stack) : Opened(n) \in Dirs
  BY StackFacts DEF Upright, Spine
<1>1. Above[e] = {Opened(i) : i \in 2 .. k}
  <2>1. CASE k = 1
    <3>1. dirOf[e] \notin Dirs
      BY <1>0, <2>1, WalkAssumption DEF Entries
    <3>2. 2 .. k = {}
      BY <2>1
    <3> QED
      BY <3>1, <3>2, ChainFacts DEF Upright
  <2>2. CASE k # 1
    <3>1. k \in 2 .. Len(stack) /\ 2 .. k = 2 .. k - 1 \cup {k}
      BY <1>0, <2>2
    <3>2. Above[e] = {Opened(k)} \cup Above[Opened(k)]
      BY <1>0, <3>1, ChainFacts DEF Upright, Chain
    <3> QED
      BY <3>1, <3>2, LiveAbove
  <2> QED
    BY <2>1, <2>2
<1>2. IsFiniteSet(2 .. k) /\ Cardinality(2 .. k) = k - 1
  BY <1>0, FS_Interval
<1> DEFINE F == [i \in 2 .. k |-> Opened(i)]
<1>3. F \in Bijection(2 .. k, Above[e])
  <2>1. \A i, j \in 2 .. k : F[i] = F[j] => i = j
    BY <1>0, OpenedOnce
  <2>2. \A y \in Above[e] : \E i \in 2 .. k : F[i] = y
    BY <1>1
  <2>3. F \in [2 .. k -> Above[e]]
    BY <1>1
  <2> QED
    BY <2>1, <2>2, <2>3, Fun_IsBij
<1>4. IsFiniteSet(Above[e]) /\ Cardinality(Above[e]) = Cardinality(2 .. k)
  BY <1>2, <1>3, FS_Bijection DEF ExistsBijection
<1> QED
  BY <1>1, <1>2, <1>4

-----------------------------------------------------------------------------
(* One turn of the loops                                                   *)

Here == Len(stack)
There(e) == Live(Here) /\ dirOf[e] = Opened(Here)

LEMMA UprightFacts ==
  ASSUME Upright
  PROVE  /\ Here \in Nat /\ Here >= 1 /\ Here \in 1 .. Here /\ (Here # 1 => Here \in 2 .. Here)
         /\ Opened(1) = Root
         /\ \A k \in 1 .. Here :
              /\ stack[k].path = [i \in 1 .. k - 1 |-> Opened(i + 1)] /\ stack[k].path \in Seq(Dirs)
              /\ stack[k].start \subseteq Entries /\ stack[k].returned \subseteq Entries
         /\ \A k \in 2 .. Here : Opened(k) \in (Dirs \cap stack[k - 1].returned) \ Locked
<1>1. Here \in Nat /\ Here >= 1 /\ \A k \in 1 .. Here : stack[k] \in OpenDir
  BY StackFacts, ElementOfSeq, LenProperties DEF Upright, Here
<1>2. /\ Opened(1) = Root
      /\ \A k \in 1 .. Here : stack[k].path = [i \in 1 .. k - 1 |-> Opened(i + 1)]
      /\ \A k \in 2 .. Here : Opened(k) \in (Dirs \cap stack[k - 1].returned) \ Locked
  BY DEF Upright, Spine, Here
<1>3. ASSUME NEW k \in 1 .. Here
      PROVE  /\ stack[k].path \in Seq(Dirs)
             /\ stack[k].start \subseteq Entries /\ stack[k].returned \subseteq Entries
  BY <1>1 DEF OpenDir
<1>4. Here \in 1 .. Here /\ (Here # 1 => Here \in 2 .. Here)
  <2> DEFINE n == Here
  <2>1. n \in Nat /\ n >= 1
    BY <1>1
  <2> HIDE DEF n
  <2>2. n \in 1 .. n /\ (n # 1 => n \in 2 .. n)
    BY <2>1
  <2> QED
    BY <2>2 DEF n
<1> QED
  BY <1>1, <1>2, <1>3, <1>4

\* A path that exists is that of a live directory and of what is in it.
LEMMA ExistsIsThere ==
  ASSUME Upright, NEW e \in Entries
  PROVE  Exists(Append(Top.path, e)) <=> There(e)
<1> DEFINE path == Append(Top.path, e)
<1>1. /\ Here \in Nat /\ Here >= 1 /\ Opened(1) = Root
      /\ Top.path = [i \in 1 .. Here - 1 |-> Opened(i + 1)]
      /\ \A k \in 2 .. Here : Opened(k) \in Entries
  BY StackFacts DEF Upright, Spine, Here, Entries
<1>2. Top.path \in Seq(Entries) /\ Len(Top.path) = Here - 1
  <2>1. Here - 1 \in Nat /\ \A i \in 1 .. Here - 1 : Opened(i + 1) \in Entries
    BY <1>1
  <2> QED
    BY <1>1, <2>1, IsASeq
<1>3. /\ Len(path) = Here /\ DOMAIN path = 1 .. Here /\ path[Here] = e
      /\ \A i \in 1 .. Here - 1 : path[i] = Opened(i + 1)
  <2>1. /\ path \in Seq(Entries) /\ Len(path) = Here /\ path[Here] = e
        /\ \A i \in 1 .. Here - 1 : path[i] = Top.path[i]
    BY <1>1, <1>2, AppendProperties
  <2> HIDE DEF path
  <2> QED
    BY <1>1, <2>1, LenProperties
<1> HIDE DEF path
<1>4. ASSUME Exists(path)
      PROVE  There(e)
  <2>1. \A i \in 1 .. Here : dirOf[path[i]] = IF i = 1 THEN Root ELSE path[i - 1]
    BY <1>3, <1>4 DEF Exists
  <2>2. dirOf[e] = Opened(Here)
    <3>1. Here \in 1 .. Here /\ (Here # 1 => Here - 1 \in 1 .. Here - 1)
      BY <1>1
    <3> QED
      BY <1>1, <1>3, <2>1, <3>1
  <2>3. ASSUME NEW k \in 2 .. Here
        PROVE  dirOf[Opened(k)] = Opened(k - 1)
    <3>1. k - 1 \in 1 .. Here - 1 /\ k - 1 \in 1 .. Here /\ (k - 1) + 1 = k
      BY <1>1
    <3>2. path[k - 1] = Opened(k)
      BY <1>3, <3>1
    <3>3. CASE k - 1 = 1
      BY <1>1, <2>1, <3>1, <3>2, <3>3
    <3>4. CASE k - 1 # 1
      <4>1. k - 2 \in 1 .. Here - 1 /\ (k - 2) + 1 = k - 1 /\ (k - 1) - 1 = k - 2
        BY <1>1, <3>1, <3>4
      <4> QED
        BY <1>3, <2>1, <3>1, <3>2, <3>4, <4>1
    <3> QED
      BY <3>3, <3>4
  <2> QED
    BY <2>2, <2>3 DEF There, Live
<1>5. ASSUME There(e)
      PROVE  Exists(path)
  <2> SUFFICES ASSUME NEW i \in 1 .. Here
               PROVE  dirOf[path[i]] = IF i = 1 THEN Root ELSE path[i - 1]
    BY <1>3 DEF Exists
  <2>1. i - 1 # 0 => path[i - 1] = Opened(i)
    <3>1. i # 1 => i - 1 \in 1 .. Here - 1 /\ (i - 1) + 1 = i
      BY <1>1
    <3> QED
      BY <1>3, <3>1
  <2>2. dirOf[path[i]] = Opened(i)
    <3>1. CASE i = Here
      BY <1>3, <1>5, <3>1 DEF There
    <3>2. CASE i # Here
      <4>1. i \in 1 .. Here - 1 /\ i + 1 \in 2 .. Here /\ (i + 1) - 1 = i
        BY <1>1, <3>2
      <4> QED
        BY <1>3, <1>5, <4>1 DEF There, Live
    <3> QED
      BY <3>1, <3>2
  <2> QED
    BY <1>1, <2>1, <2>2
<1> QED
  BY <1>4, <1>5 DEF path

\* What a turn does to the open directories: e is returned, and opened or not.
Turn(e, opens) ==
  /\ e \in Entries \ stack[Here].returned
  /\ e \in stack[Here].start \/ dirOf[e] = Opened(Here)
  /\ Here' = Here + (IF opens THEN 1 ELSE 0)
  /\ \A k \in 1 .. Here :
       /\ UNCHANGED <<stack[k].path, Opened(k), stack[k].start>>
       /\ stack'[k].returned = stack[k].returned \cup (IF k = Here THEN {e} ELSE {})
  /\ opens => /\ e \in Dirs \ Locked /\ There(e)
              /\ stack'[Here + 1] = [path |-> Append(stack[Here].path, e), dir |-> e,
                                     start |-> Children(e), returned |-> {}]
  /\ UNCHANGED <<prog, wat, current_time, dirOf, mtime, moved, modified, changes>>

\* And what it counts or shows.
Meets(e, opens) ==
  \/ /\ prog = "mymtimes" /\ UNCHANGED lines
     /\ IF e \in Dirs
        THEN UNCHANGED mod_count /\ (opens <=> There(e) /\ e \notin Locked)
        ELSE /\ ~opens
             /\ mod_count' = IF There(e) /\ HourOf(e) \in DOMAIN mod_count
                             THEN [mod_count EXCEPT ![HourOf(e)] = @ + 1] ELSE mod_count
  \/ /\ prog = "mytree" /\ UNCHANGED mod_count
     /\ IF e \in Hidden
        THEN ~opens /\ UNCHANGED lines
        ELSE /\ lines' = Append(lines, [depth |-> Here - 1, entry |-> e])
             /\ opens <=> e \in Dirs \ Locked /\ There(e)

LEMMA ReturnedFrames ==
  ASSUME stack \in Seq(OpenDir), stack # <<>>, NEW e \in Entries
  PROVE  /\ Returned(e) \in Seq(OpenDir) /\ Len(Returned(e)) = Here
         /\ \A k \in 1 .. Here :
              /\ Returned(e)[k].path = stack[k].path /\ Returned(e)[k].dir = stack[k].dir
              /\ Returned(e)[k].start = stack[k].start
              /\ Returned(e)[k].returned = stack[k].returned \cup (IF k = Here THEN {e} ELSE {})
<1>1. /\ Here \in Nat \ {0} /\ DOMAIN stack = 1 .. Here
      /\ \A k \in 1 .. Here : stack[k] \in OpenDir
  BY StackFacts, LenProperties, ElementOfSeq DEF Here
<1> DEFINE top == [stack[Here] EXCEPT !.returned = @ \union {e}]
<1>2. Returned(e) = [stack EXCEPT ![Here] = top]
  BY DEF Returned, Here
<1>3. /\ top.path = stack[Here].path /\ top.dir = stack[Here].dir /\ top.start = stack[Here].start
      /\ top.returned = stack[Here].returned \cup {e}
  <2>1. stack[Here] \in OpenDir
    BY <1>1
  <2> QED
    BY <2>1 DEF OpenDir
<1> HIDE DEF top
<1>4. ASSUME NEW k \in 1 .. Here
      PROVE  Returned(e)[k] = IF k = Here THEN top ELSE stack[k]
  BY <1>1, <1>2
<1>5. Returned(e) \in Seq(OpenDir) /\ Len(Returned(e)) = Here
  BY ReturnedType DEF Here
<1> QED
  BY <1>3, <1>4, <1>5

LEMMA EntryStep ==
  ASSUME Upright, WalkTypes, NextEntry
  PROVE  \E e \in Entries, opens \in BOOLEAN : Turn(e, opens) /\ Meets(e, opens)
<1>1. PICK e \in Returnable : CountEntry(e) \/ ShowEntry(e)
  BY DEF NextEntry
<1>2. /\ UNCHANGED <<prog, wat, current_time, dirOf, mtime, moved, modified, changes>>
      /\ stack \in Seq(OpenDir) /\ stack # <<>> /\ dirDepth = Here - 1
      /\ Here \in Nat \ {0} /\ Top = stack[Here] /\ stack[Here] \in OpenDir
  BY StackFacts DEF NextEntry, fileVars, Upright, WalkTypes, Here
<1>3. /\ e \in Entries \ stack[Here].returned
      /\ e \in stack[Here].start \/ dirOf[e] = Opened(Here)
  BY <1>1, <1>2, StackFacts DEF Returnable, Children, Opened
<1> DEFINE frame == [path |-> Append(stack[Here].path, e), dir |-> e,
                     start |-> Children(e), returned |-> {}]
           opens == e \in Dirs \ Locked /\ There(e)
           Stays == stack' = Returned(e)
           Goes == stack' = Append(Returned(e), frame)
<1>4. Opens(Append(Top.path, e)) <=> There(e) /\ e \notin Locked
  <2>1. Last(Append(Top.path, e)) = e /\ Append(Top.path, e) # <<>>
    <3>1. Top.path \in Seq(Entries)
      BY <1>2 DEF OpenDir, Entries
    <3> QED
      BY <1>3, <3>1, AppendProperties DEF Last
  <2> QED
    BY <1>3, <2>1, ExistsIsThere DEF Opens
<1>5. Frame(Append(Top.path, e)) = frame
  <2>1. Last(Append(Top.path, e)) = e /\ Append(Top.path, e) # <<>>
    <3>1. Top.path \in Seq(Entries)
      BY <1>2 DEF OpenDir, Entries
    <3> QED
      BY <1>3, <3>1, AppendProperties DEF Last
  <2> QED
    BY <1>2, <2>1 DEF Frame
<1>6. /\ e \in Dirs /\ Descend(e) /\ opens => Goes
      /\ e \in Dirs /\ Descend(e) /\ ~opens => Stays
  BY <1>4, <1>5 DEF Descend
<1>7. ASSUME Stays
      PROVE  Turn(e, FALSE)
  BY <1>2, <1>3, <1>7, ReturnedFrames DEF Turn, Opened, Here
<1>8. ASSUME Goes, opens
      PROVE  Turn(e, TRUE)
  <2>1. /\ Here' = Here + 1 /\ stack'[Here + 1] = frame
        /\ \A k \in 1 .. Here : stack'[k] = Returned(e)[k]
    <3> HIDE DEF frame
    <3>1. Returned(e) \in Seq(OpenDir) /\ Len(Returned(e)) = Here
      BY <1>2, <1>3, ReturnedFrames
    <3>2. frame \in OpenDir
      <4>1. Append(Top.path, e) \in Seq(Dirs)
        BY <1>2, <1>8, AppendProperties DEF OpenDir
      <4> QED
        BY <1>5, <4>1, FrameType
    <3> QED
      BY <1>2, <1>8, <3>1, <3>2, AppendProperties DEF Here
  <2> QED
    BY <1>2, <1>3, <1>8, <2>1, ReturnedFrames DEF Turn, Opened
<1> HIDE DEF frame, Stays, Goes
<1>9. CASE CountEntry(e)
  <2>1. CASE e \in Dirs
    <3>1. Meets(e, opens)
      BY <1>9, <2>1 DEF CountEntry, Meets
    <3> QED
      BY <1>3, <1>6, <1>7, <1>8, <1>9, <2>1, <3>1 DEF CountEntry
  <2>2. CASE e \notin Dirs
    <3>1. Count(e) /\ prog = "mymtimes" /\ lines' = lines
      BY <1>9, <2>2 DEF CountEntry
    <3>2. Meets(e, FALSE)
      BY <1>3, <2>2, <3>1, ExistsIsThere DEF Meets, Count
    <3>3. Stays
      BY <3>1 DEF Count, Stays
    <3> QED
      BY <1>3, <1>7, <3>2, <3>3
  <2> QED
    BY <2>1, <2>2
<1>10. CASE ShowEntry(e)
  <2>1. CASE e \in Hidden
    <3>1. Meets(e, FALSE) /\ Stays
      BY <1>10, <2>1 DEF ShowEntry, Meets, Stays
    <3> QED
      BY <1>3, <1>7, <3>1
  <2>2. CASE e \notin Hidden
    <3>1. Meets(e, opens)
      BY <1>2, <1>10, <2>2 DEF ShowEntry, Meets
    <3>2. (e \in Dirs /\ Descend(e)) \/ (e \notin Dirs /\ Stays)
      BY <1>10, <2>2 DEF ShowEntry, Stays
    <3> QED
      BY <1>3, <1>6, <1>7, <1>8, <3>1, <3>2
  <2> QED
    BY <2>1, <2>2
<1> QED
  BY <1>1, <1>9, <1>10

LEMMA SameAbove ==
  ASSUME UNCHANGED dirOf
  PROVE  Above' = Above /\ \A e : Chain(e)' = Chain(e)
BY AboveIsUps DEF Chain

LEMMA TurnLives ==
  ASSUME Upright, NEW e, NEW opens \in BOOLEAN, Turn(e, opens)
  PROVE  /\ \A k \in 1 .. Here : Opened(k)' = Opened(k) /\ (Live(k)' <=> Live(k))
         /\ opens => \A k : k = Here + 1 => Opened(k)' = e /\ Live(k)'
<1>1. Here \in Nat /\ Here >= 1 /\ dirOf' = dirOf /\ \A k \in 1 .. Here : Opened(k)' = Opened(k)
  BY StackFacts DEF Upright, Turn, Here
<1>2. ASSUME NEW k \in 1 .. Here
      PROVE  Live(k)' <=> Live(k)
  BY <1>1 DEF Live
<1>3. ASSUME opens, NEW k, k = Here + 1
      PROVE  Opened(k)' = e /\ Live(k)'
  <2>1. Opened(k)' = e /\ There(e) /\ k - 1 = Here
    BY <1>1, <1>3 DEF Turn, Opened
  <2>2. \A i \in 2 .. k - 1 : dirOf'[Opened(i)'] = Opened(i - 1)'
    BY <1>1, <2>1 DEF There, Live
  <2>3. dirOf'[e] = Opened(k - 1)'
    BY <1>1, <2>1 DEF There
  <2>4. \A i \in 2 .. k : dirOf'[Opened(i)'] = Opened(i - 1)'
    BY <1>1, <1>3, <2>1, <2>2, <2>3
  <2> QED
    BY <2>1, <2>4 DEF Live
<1> QED
  BY <1>1, <1>2, <1>3

LEMMA TurnKeeps ==
  ASSUME Upright, Starts, CutOffs, NEW e, NEW opens \in BOOLEAN, Turn(e, opens),
         stack' \in Seq(OpenDir), stack' # <<>>
  PROVE  Upright' /\ Starts' /\ CutOffs'
<1>0. /\ Here \in Nat /\ Here >= 1 /\ Opened(1) = Root
      /\ \A k \in 1 .. Here : stack[k].path = [i \in 1 .. k - 1 |-> Opened(i + 1)]
      /\ \A k \in 2 .. Here : Opened(k) \in (Dirs \cap stack[k - 1].returned) \ Locked
  BY UprightFacts
<1>1. /\ dirOf' = dirOf /\ moved' = moved /\ e \in Entries
      /\ Here' = Here + (IF opens THEN 1 ELSE 0)
      /\ \A k \in 1 .. Here :
           /\ stack'[k].path = stack[k].path /\ stack'[k].start = stack[k].start
           /\ stack'[k].returned = stack[k].returned \cup (IF k = Here THEN {e} ELSE {})
      /\ opens => /\ e \in Dirs \ Locked
                  /\ stack'[Here + 1] = [path |-> Append(stack[Here].path, e), dir |-> e,
                                         start |-> Children(e), returned |-> {}]
  BY DEF Turn
<1>2. /\ \A k \in 1 .. Here : Opened(k)' = Opened(k) /\ (Live(k)' <=> Live(k))
      /\ opens => \A k : k = Here + 1 => Opened(k)' = e /\ Live(k)'
  BY TurnLives
<1>3. ASSUME opens
      PROVE  stack'[Here + 1].path = [i \in 1 .. Here |-> Opened(i + 1)']
  <2> DEFINE p == stack[Here].path
  <2>1. p \in Seq(Dirs) /\ p = [i \in 1 .. Here - 1 |-> Opened(i + 1)] /\ Len(p) = Here - 1
    <3>1. p \in Seq(Dirs) /\ p = [i \in 1 .. Here - 1 |-> Opened(i + 1)]
      BY UprightFacts
    <3> HIDE DEF p
    <3> QED
      BY <1>0, <1>1, <3>1, LenProperties
  <2>2. stack'[Here + 1].path = Append(p, e) /\ e \in Dirs
    BY <1>0, <1>1, <1>3
  <2> HIDE DEF p
  <2>3. /\ Append(p, e) \in Seq(Dirs) /\ Len(Append(p, e)) = Here /\ Append(p, e)[Here] = e
        /\ \A i \in 1 .. Here - 1 : Append(p, e)[i] = Opened(i + 1)
    BY <1>0, <1>1, <2>1, <2>2, AppendProperties
  <2>4. \A i \in 1 .. Here : Append(p, e)[i] = Opened(i + 1)'
    <3>1. \A i \in 1 .. Here - 1 : i + 1 \in 1 .. Here
      BY <1>0, <1>1
    <3> QED
      BY <1>0, <1>1, <1>2, <1>3, <2>3, <3>1
  <2>5. Append(p, e) = [i \in 1 .. Here |-> Append(p, e)[i]]
    BY <2>3, LenProperties
  <2> QED
    BY <2>2, <2>4, <2>5
<1>4. Spine'
  <2>1. Opened(1)' = Root
    BY <1>0, <1>1, <1>2
  <2>2. ASSUME NEW k \in 1 .. Here'
        PROVE  stack'[k].path = [i \in 1 .. k - 1 |-> Opened(i + 1)']
    <3>1. CASE k \in 1 .. Here
      <4>1. \A i \in 1 .. k - 1 : i + 1 \in 1 .. Here
        BY <1>0, <1>1, <3>1
      <4> QED
        BY <1>0, <1>1, <1>2, <3>1, <4>1
    <3>2. CASE k \notin 1 .. Here
      <4>1. k = Here + 1 /\ opens /\ k - 1 = Here
        BY <1>0, <1>1, <3>2
      <4> QED
        BY <1>3, <4>1
    <3> QED
      BY <3>1, <3>2
  <2>3. ASSUME NEW k \in 2 .. Here'
        PROVE  Opened(k)' \in (Dirs \cap stack'[k - 1].returned) \ Locked
    <3>1. CASE k \in 1 .. Here
      <4>1. k - 1 \in 1 .. Here /\ k \in 2 .. Here
        BY <1>0, <1>1, <3>1
      <4> QED
        BY <1>0, <1>1, <1>2, <3>1, <4>1
    <3>2. CASE k \notin 1 .. Here
      <4>1. k = Here + 1 /\ opens /\ k - 1 = Here /\ Here \in 1 .. Here
        BY <1>0, <1>1, <3>2
      <4> QED
        BY <1>0, <1>1, <1>2, <4>1
    <3> QED
      BY <3>1, <3>2
  <2> QED
    BY <2>1, <2>2, <2>3 DEF Spine, Here
<1>5. Upright'
  BY <1>0, <1>1, <1>4 DEF Upright
<1>6. Starts'
  <2> SUFFICES ASSUME NEW k \in 1 .. Here', NEW x \in Entries \ moved
               PROVE  x \in stack'[k].start <=> dirOf[x] = Opened(k)'
    BY <1>0, <1>1 DEF Starts, Here
  <2>1. CASE k \in 1 .. Here
    BY <1>0, <1>1, <1>2, <2>1 DEF Starts, Here
  <2>2. CASE k \notin 1 .. Here
    <3>1. k = Here + 1 /\ opens
      BY <1>0, <1>1, <2>2
    <3>2. Opened(k)' = e /\ stack'[k].start = Children(e)
      BY <1>0, <1>1, <1>2, <3>1
    <3> QED
      BY <3>2 DEF Children
  <2> QED
    BY <2>1, <2>2
<1>7. CutOffs'
  <2> SUFFICES ASSUME NEW k \in 1 .. Here', ~Live(k)'
               PROVE  Chain(Opened(k))' \cap moved # {}
    BY <1>0, <1>1 DEF CutOffs, Here
  <2>1. k \in 1 .. Here
    BY <1>0, <1>1, <1>2
  <2>2. Chain(Opened(k))' = Chain(Opened(k))
    BY <1>0, <1>1, <1>2, <2>1, SameAbove
  <2> QED
    BY <1>2, <2>1, <2>2 DEF CutOffs, Here
<1> QED
  BY <1>5, <1>6, <1>7

\* What nobody has disturbed is returned only where its path leads to it.
LEMMA UndisturbedThere ==
  ASSUME Upright, Starts, CutOffs, NEW e, NEW opens \in BOOLEAN, Turn(e, opens), Undisturbed(e)
  PROVE  There(e)
<1>1. e \in Entries /\ e \notin moved /\ Above[e] \cap moved = {} /\ Here \in 1 .. Here
  BY StackFacts DEF Upright, Turn, Undisturbed, Here
<1>2. dirOf[e] = Opened(Here)
  BY <1>1 DEF Turn, Starts, Here
<1>3. Live(Here)
  <2>1. CASE Here = 1
    BY <2>1 DEF Live
  <2>2. CASE Here # 1
    <3>1. Here \in 2 .. Here
      BY <2>2, UprightFacts
    <3>2. Opened(Here) \in Dirs
      BY <3>1 DEF Upright, Spine, Here
    <3>3. Above[e] = Chain(Opened(Here))
      BY <1>1, <1>2, <3>2, ChainFacts DEF Upright
    <3> QED
      BY <1>1, <3>3 DEF CutOffs, Here
  <2> QED
    BY <2>1, <2>2
<1> QED
  BY <1>2, <1>3 DEF There

-----------------------------------------------------------------------------
(* What is still to come                                                   *)

\* What a turn does to what is pending: only e, or what is below e when e is not
\* opened, ceases to be.
LEMMA TurnPending ==
  ASSUME Upright, NEW e, NEW opens \in BOOLEAN, Turn(e, opens)
  PROVE  /\ \A f \in Entries : Pending(f)' => Pending(f)
         /\ \A f \in Entries : Pending(f) /\ ~Pending(f)' =>
              There(e) /\ e \in Chain(f) /\ (opens => f = e)
         /\ There(e) => Pending(e) /\ ~Pending(e)'
<1>1. /\ Here \in Nat /\ Here >= 1 /\ Here \in 1 .. Here /\ Opened(1) = Root
      /\ \A k \in 2 .. Here : Opened(k) \in Dirs /\ Opened(k) \in stack[k - 1].returned
  BY UprightFacts
<1>2. /\ dirOf' = dirOf /\ e \in Entries \ stack[Here].returned
      /\ Here' = Here + (IF opens THEN 1 ELSE 0)
      /\ \A k \in 1 .. Here :
           stack'[k].returned = stack[k].returned \cup (IF k = Here THEN {e} ELSE {})
      /\ opens => e \in Dirs /\ There(e) /\ stack'[Here + 1].returned = {}
  BY DEF Turn
<1>3. /\ \A k \in 1 .. Here : Opened(k)' = Opened(k) /\ (Live(k)' <=> Live(k))
      /\ opens => \A k : k = Here + 1 => Opened(k)' = e /\ Live(k)'
  BY TurnLives
<1>4. \A f : Chain(f)' = Chain(f)
  BY <1>2, SameAbove
<1>5. /\ \A f \in Entries : Chain(f) \subseteq Entries /\ f \in Chain(f) /\ Chain(f) = {f} \cup Above[f]
      /\ \A f \in Entries : \A x \in Chain(f) : dirOf[x] \in Dirs => dirOf[x] \in Chain(f)
      /\ \A f \in Entries : \A x \in Above[f] : \E y \in Chain(f) : dirOf[y] = x
  BY ChainFacts DEF Upright, Chain
<1>6. \A f : Pending(f)' <=>
        \E k \in 1 .. Here', x \in Chain(f) :
          Live(k)' /\ dirOf[x] = Opened(k)' /\ x \notin stack'[k].returned
  BY <1>2, <1>4 DEF Pending, Here
<1>7. \A f : Pending(f) <=>
        \E k \in 1 .. Here, x \in Chain(f) :
          Live(k) /\ dirOf[x] = Opened(k) /\ x \notin stack[k].returned
  BY DEF Pending, Here
<1>8. ASSUME NEW f \in Entries, Pending(f)'
      PROVE  Pending(f)
  <2>1. PICK k \in 1 .. Here', x \in Chain(f) :
          Live(k)' /\ dirOf[x] = Opened(k)' /\ x \notin stack'[k].returned
    BY <1>6, <1>8
  <2>2. CASE k \in 1 .. Here
    BY <1>2, <1>3, <1>7, <2>1, <2>2
  <2>3. CASE k \notin 1 .. Here
    <3>1. k = Here + 1 /\ opens
      BY <1>1, <1>2, <2>3
    <3>2. dirOf[x] = e /\ e \in Dirs /\ There(e)
      BY <1>2, <1>3, <2>1, <3>1
    <3>3. e \in Chain(f)
      BY <1>5, <2>1, <3>2
    <3> QED
      BY <1>1, <1>2, <1>7, <3>2, <3>3 DEF There
  <2> QED
    BY <2>2, <2>3
<1>9. ASSUME NEW f \in Entries, Pending(f), ~Pending(f)'
      PROVE  There(e) /\ e \in Chain(f) /\ (opens => f = e)
  <2>1. PICK k \in 1 .. Here, x \in Chain(f) :
          Live(k) /\ dirOf[x] = Opened(k) /\ x \notin stack[k].returned
    BY <1>7, <1>9
  <2>2. k \in 1 .. Here'
    BY <1>1, <1>2
  <2>3. k = Here /\ x = e
    BY <1>2, <1>3, <1>6, <1>9, <2>1, <2>2
  <2>4. There(e) /\ e \in Chain(f)
    BY <2>1, <2>3 DEF There
  <2>5. ASSUME opens, f # e
        PROVE  FALSE
    <3>1. e \in Above[f]
      BY <1>5, <2>4, <2>5
    <3>2. PICK y \in Chain(f) : dirOf[y] = e
      BY <1>5, <3>1
    <3>3. PICK m : m = Here + 1
      OBVIOUS
    <3>4. m \in 1 .. Here' /\ Live(m)' /\ dirOf[y] = Opened(m)' /\ stack'[m].returned = {}
      BY <1>1, <1>2, <1>3, <2>5, <3>2, <3>3
    <3> QED
      BY <1>6, <1>9, <3>4
  <2> QED
    BY <2>4, <2>5
<1>10. ASSUME There(e)
       PROVE  Pending(e) /\ ~Pending(e)'
  <2>0. Live(Here) /\ dirOf[e] = Opened(Here) /\ e \in Entries
    BY <1>2, <1>10 DEF There
  <2>1. Pending(e)
    BY <1>1, <1>2, <1>5, <1>7, <2>0
  <2>2. ASSUME Pending(e)'
        PROVE  FALSE
    <3>1. PICK k \in 1 .. Here', x \in Chain(e) :
            Live(k)' /\ dirOf[x] = Opened(k)' /\ x \notin stack'[k].returned
      BY <1>6, <2>2
    <3>2. Above[e] = {Opened(i) : i \in 2 .. Here} /\ e \notin Above[e]
      BY <1>1, <2>0, LiveDepth, ChainFacts DEF Upright, Here
    <3>3. \A x1, x2 \in 1 .. Here : Opened(x1) = Opened(x2) => x1 = x2
      BY <1>1, <2>0, OpenedOnce DEF Here
    <3>4. CASE k \notin 1 .. Here
      <4>1. k = Here + 1 /\ opens
        BY <1>1, <1>2, <3>4
      <4>2. dirOf[x] = e /\ e \in Dirs
        BY <1>2, <1>3, <3>1, <4>1
      <4>3. e \in Above[e]
        BY <2>0, <3>1, <4>2, ChainFacts DEF Upright
      <4> QED
        BY <3>2, <4>3
    <3>5. CASE k \in 1 .. Here /\ x = e
      <4>1. k = Here
        BY <1>1, <1>3, <2>0, <3>1, <3>3, <3>5
      <4> QED
        BY <1>2, <3>1, <3>5, <4>1
    <3>6. CASE k \in 1 .. Here /\ x # e
      <4>1. PICK i \in 2 .. Here : x = Opened(i)
        BY <1>5, <2>0, <3>1, <3>2, <3>6
      <4>2. dirOf[x] = Opened(i - 1) /\ i - 1 \in 1 .. Here
        BY <1>1, <2>0, <4>1 DEF Live
      <4>3. k = i - 1
        BY <1>3, <3>1, <3>3, <3>6, <4>2
      <4>4. x \in stack[k].returned
        BY <1>1, <4>1, <4>3
      <4> QED
        BY <1>2, <3>1, <3>6, <4>4
    <3> QED
      BY <3>4, <3>5, <3>6
  <2> QED
    BY <2>1, <2>2
<1> QED
  BY <1>8, <1>9, <1>10

\* Closing a directory leaves the others, and what nobody has disturbed has been
\* returned by then.
LEMMA EndDirKeeps ==
  ASSUME Upright, Starts, CutOffs, EndDir
  PROVE  /\ Spine' /\ Starts' /\ CutOffs'
         /\ \A f : Pending(f)' => Pending(f)
         /\ \A f \in Entries : Undisturbed(f) /\ Pending(f) => Pending(f)'
         /\ Len(stack') = Here - 1 /\ \A k \in 1 .. Here - 1 : stack'[k] = stack[k]
<1>1. /\ Here \in Nat /\ Here >= 1 /\ Here \in 1 .. Here
      /\ \A k \in 1 .. Here : stack[k].start \subseteq Entries
  BY UprightFacts
<1>2. Len(stack') = Here - 1 /\ \A k \in 1 .. Here - 1 : stack'[k] = stack[k]
  <2>1. stack' = SubSeq(stack, 1, Here - 1)
    BY DEF EndDir, Front, Here
  <2>2. Here - 1 \in Nat /\ \A i \in 1 .. Here - 1 : stack[i] \in OpenDir
    BY <1>1, StackFacts, ElementOfSeq DEF Upright, Here
  <2> HIDE DEF Here
  <2> QED
    BY <1>1, <2>1, <2>2, SubSeqProperties
<1>3. /\ dirOf' = dirOf /\ moved' = moved
      /\ (Top.start \cap Children(Top.dir)) \ (Top.returned \cup moved) = {}
      /\ Top = stack[Here]
  BY StackFacts DEF EndDir, Owed, fileVars, Upright, Here
<1>4. /\ \A k \in 1 .. Here - 1 : Opened(k)' = Opened(k)
      /\ \A k \in 1 .. Here - 1 : Live(k)' <=> Live(k)
  <2>1. \A k \in 1 .. Here - 1 : Opened(k)' = Opened(k)
    BY <1>2 DEF Opened
  <2>2. ASSUME NEW k \in 1 .. Here - 1
        PROVE  Live(k)' <=> Live(k)
    BY <1>1, <1>3, <2>1 DEF Live
  <2> QED
    BY <2>1, <2>2
<1>5. \A f : Chain(f)' = Chain(f)
  BY <1>3, SameAbove
<1>6. Spine'
  <2> SUFFICES ASSUME stack' # <<>>
               PROVE  /\ Opened(1)' = Root
                      /\ \A k \in 1 .. Here - 1 :
                           stack'[k].path = [i \in 1 .. k - 1 |-> Opened(i + 1)']
                      /\ \A k \in 2 .. Here - 1 :
                           Opened(k)' \in (Dirs \cap stack'[k - 1].returned) \ Locked
    BY <1>2 DEF Spine
  <2>1. Here - 1 >= 1
    <3>1. stack' \in Seq(OpenDir)
      <4>1. stack' = SubSeq(stack, 1, Here - 1) /\ \A i \in 1 .. Here : stack[i] \in OpenDir
        BY StackFacts, ElementOfSeq DEF EndDir, Front, Upright, Here
      <4> QED
        BY <1>1, <4>1, SubSeqProperties
    <3> QED
      BY <1>1, <1>2, <3>1, EmptySeq
  <2>2. /\ Opened(1) = Root
        /\ \A k \in 1 .. Here : stack[k].path = [i \in 1 .. k - 1 |-> Opened(i + 1)]
        /\ \A k \in 2 .. Here : Opened(k) \in (Dirs \cap stack[k - 1].returned) \ Locked
    BY UprightFacts
  <2>3. ASSUME NEW k \in 1 .. Here - 1
        PROVE  stack'[k].path = [i \in 1 .. k - 1 |-> Opened(i + 1)']
    <3>1. \A i \in 1 .. k - 1 : i + 1 \in 1 .. Here - 1
      BY <1>1
    <3>2. \A i \in 1 .. k - 1 : Opened(i + 1)' = Opened(i + 1)
      BY <1>4, <3>1
    <3>3. stack'[k] = stack[k] /\ k \in 1 .. Here
      BY <1>1, <1>2
    <3>4. stack[k].path = [i \in 1 .. k - 1 |-> Opened(i + 1)]
      BY <2>2, <3>3
    <3> QED
      BY <3>2, <3>3, <3>4
  <2>4. ASSUME NEW k \in 2 .. Here - 1
        PROVE  Opened(k)' \in (Dirs \cap stack'[k - 1].returned) \ Locked
    <3>1. k - 1 \in 1 .. Here - 1 /\ k \in 1 .. Here - 1 /\ k \in 2 .. Here
      BY <1>1
    <3> QED
      BY <1>2, <1>4, <2>2, <3>1
  <2> QED
    BY <1>1, <1>4, <2>1, <2>2, <2>3, <2>4
<1>7. Starts'
  <2> SUFFICES ASSUME NEW k \in 1 .. Here - 1, NEW x \in Entries \ moved
               PROVE  x \in stack'[k].start <=> dirOf[x] = Opened(k)'
    BY <1>2, <1>3 DEF Starts
  <2> QED
    BY <1>1, <1>2, <1>4 DEF Starts, Here
<1>8. CutOffs'
  <2> SUFFICES ASSUME NEW k \in 1 .. Here - 1, ~Live(k)'
               PROVE  Chain(Opened(k))' \cap moved # {}
    BY <1>2, <1>3 DEF CutOffs
  <2> QED
    BY <1>1, <1>4, <1>5 DEF CutOffs, Here
<1>9. \A f : Pending(f)' <=>
        \E k \in 1 .. Here - 1, x \in Chain(f) :
          Live(k) /\ dirOf[x] = Opened(k) /\ x \notin stack[k].returned
  BY <1>1, <1>2, <1>3, <1>4, <1>5 DEF Pending
<1>10. \A f : Pending(f)' => Pending(f)
  BY <1>1, <1>9 DEF Pending, Here
<1>11. ASSUME NEW f \in Entries, Undisturbed(f), Pending(f)
       PROVE  Pending(f)'
  <2>1. PICK k \in 1 .. Here, x \in Chain(f) :
          Live(k) /\ dirOf[x] = Opened(k) /\ x \notin stack[k].returned
    BY <1>11 DEF Pending, Here
  <2>2. x \notin moved
    BY <1>11, <2>1 DEF Undisturbed, Chain
  <2>3. k # Here
    <3> SUFFICES ASSUME k = Here PROVE FALSE
      OBVIOUS
    <3>1. x \in Entries
      BY <2>1, ChainFacts DEF Upright
    <3>2. x \in stack[Here].start
      BY <1>1, <2>1, <2>2, <3>1 DEF Starts, Here
    <3>3. x \in Children(Top.dir)
      BY <1>3, <2>1, <3>1 DEF Children, Opened
    <3> QED
      BY <1>3, <2>1, <2>2, <3>2, <3>3
  <2>4. k \in 1 .. Here - 1
    BY <1>1, <2>3
  <2> QED
    BY <1>9, <2>1, <2>4
<1> QED
  BY <1>2, <1>6, <1>7, <1>8, <1>10, <1>11

\* The way up from what is somewhere ends at the root.
LEMMA UpToRoot ==
  ASSUME dirOf \in [Entries -> Places], IsTree(dirOf), NEW e \in Entries, dirOf[e] # Nowhere
  PROVE  \E x \in Chain(e) : dirOf[x] = Root
<1> DEFINE Good(y) == dirOf[y] # Nowhere => \E x \in Chain(y) : dirOf[x] = Root
           T == {y \in Dirs : Good(y)}
<1>1. ASSUME NEW y \in Entries, dirOf[y] \in Dirs => Good(dirOf[y])
      PROVE  Good(y)
  <2> SUFFICES ASSUME dirOf[y] # Nowhere PROVE \E x \in Chain(y) : dirOf[x] = Root
    OBVIOUS
  <2>1. CASE dirOf[y] \in Dirs
    <3>1. dirOf[dirOf[y]] # Nowhere
      BY <2>1 DEF IsTree
    <3>2. Chain(dirOf[y]) \subseteq Chain(y)
      BY <2>1, ChainFacts DEF Chain
    <3> QED
      BY <1>1, <2>1, <3>1, <3>2
  <2>2. CASE dirOf[y] \notin Dirs
    <3>1. dirOf[y] = Root
      BY <2>2 DEF Places
    <3> QED
      BY <3>1 DEF Chain
  <2> QED
    BY <2>1, <2>2
<1> HIDE DEF Good
<1>2. \A y \in Dirs : (dirOf[y] \in Dirs => dirOf[y] \in T) => y \in T
  BY <1>1 DEF Entries
<1>3. Dirs \subseteq T
  <2> HIDE DEF T
  <2> QED
    BY <1>2, TreeInduction
<1>4. Good(e)
  BY <1>1, <1>3
<1> QED
  BY <1>4 DEF Good

\* At first everything in the tree is pending.
LEMMA BeginKeeps ==
  ASSUME dirOf \in [Entries -> Places], IsTree(dirOf), BeginWalk
  PROVE  /\ Spine' /\ Starts' /\ CutOffs' /\ Len(stack') = 1
         /\ \A f \in Entries : Undisturbed(f) => Pending(f)'
<1> DEFINE first == [path |-> <<>>, dir |-> Root, start |-> Children(Root), returned |-> {}]
<1>1. stack' = <<first>> /\ dirOf' = dirOf /\ moved' = moved
  BY DEF BeginWalk, Frame, fileVars
<1>2. Len(stack') = 1 /\ stack'[1] = first
  BY <1>1
<1> HIDE DEF first
<1>3. /\ first.path = <<>> /\ first.dir = Root /\ first.start = Children(Root)
      /\ first.returned = {}
  BY DEF first
<1>4. \A k \in 1 .. 1 : k = 1
  OBVIOUS
<1>5. Opened(1)' = Root /\ Live(1)'
  <2>1. 2 .. 1 = {}
    OBVIOUS
  <2> QED
    BY <1>2, <1>3, <2>1 DEF Opened, Live
<1>6. Spine'
  <2>1. 2 .. 1 = {} /\ 1 .. 1 - 1 = {}
    OBVIOUS
  <2>2. <<>> = [i \in 1 .. 1 - 1 |-> Opened(i + 1)']
    BY <2>1
  <2> QED
    BY <1>2, <1>3, <1>4, <1>5, <2>1, <2>2 DEF Spine
<1>7. Starts'
  BY <1>1, <1>2, <1>3, <1>4, <1>5 DEF Starts, Children
<1>8. CutOffs'
  BY <1>2, <1>4, <1>5 DEF CutOffs
<1>9. ASSUME NEW f \in Entries, Undisturbed(f)
      PROVE  Pending(f)'
  <2>1. PICK x \in Chain(f) : dirOf[x] = Root
    BY <1>9, UpToRoot DEF Undisturbed
  <2>2. Chain(f)' = Chain(f)
    BY <1>1, SameAbove
  <2>3. 1 \in 1 .. Len(stack')
    BY <1>2
  <2> QED
    BY <1>1, <1>2, <1>3, <1>5, <2>1, <2>2, <2>3 DEF Pending
<1> QED
  BY <1>2, <1>6, <1>7, <1>8, <1>9

-----------------------------------------------------------------------------
(* The others                                                              *)

\* Moving an entry.
Moves(e, d) ==
  /\ e \in Entries /\ d \in Places /\ MayMove(e, d)
  /\ dirOf' = [dirOf EXCEPT ![e] = d] /\ moved' = moved \cup {e} /\ stack' = stack

LEMMA MovesTree ==
  ASSUME dirOf \in [Entries -> Places], IsTree(dirOf), NEW e, NEW d, Moves(e, d)
  PROVE  dirOf' \in [Entries -> Places] /\ IsTree(dirOf)'
<1>1. /\ e \in Entries /\ d \in Places /\ dirOf' = [dirOf EXCEPT ![e] = d]
      /\ d \in Dirs => dirOf[d] # Nowhere /\ d # e
      /\ d \in Dirs /\ e \in Dirs => e \notin Above[d]
      /\ e \in Dirs /\ d = Nowhere => \A x \in Entries : dirOf[x] # e
  BY WalkAssumption DEF Moves, MayMove, Children, Entries
<1>2. d \in Dirs => e \notin Ups(dirOf)[d]
  <2>1. d \in Dirs => Above[d] \subseteq Dirs
    BY ChainFacts DEF Entries
  <2> QED
    BY <1>1, <2>1, AboveIsUps
<1>3. IsTree([dirOf EXCEPT ![e] = d])
  BY <1>1, <1>2, StaysTree
<1> QED
  BY <1>1, <1>3

\* What is above or below the one that is moved is disturbed from then on; the way
\* up to everything else is as before.
LEMMA MovesChains ==
  ASSUME dirOf \in [Entries -> Places], IsTree(dirOf), NEW e, NEW d, Moves(e, d),
         NEW f \in Entries
  PROVE  /\ e \in Chain(f) => e \in Chain(f)'
         /\ e \notin Chain(f) => Above[f]' = Above[f] /\ Chain(f)' = Chain(f) /\ dirOf'[f] = dirOf[f]
<1>1. e \in Entries /\ d \in Places /\ dirOf' = [dirOf EXCEPT ![e] = d]
  BY DEF Moves
<1>2. ASSUME e \in Chain(f)
      PROVE  e \in Chain(f)'
  BY <1>1, <1>2, StaysAbove, AboveIsUps DEF Chain
<1>3. ASSUME e \notin Chain(f)
      PROVE  Above[f]' = Above[f] /\ Chain(f)' = Chain(f) /\ dirOf'[f] = dirOf[f]
  <2>1. Chain(f) = {f} \cup Ups(dirOf)[f] /\ Chain(f) \subseteq Entries
    BY ChainFacts, AboveIsUps DEF Chain
  <2>2. \A x \in {f} \cup Ups(dirOf)[f] : dirOf'[x] = dirOf[x]
    BY <1>1, <1>3, <2>1
  <2>3. dirOf' \in [Entries -> Places]
    BY <1>1
  <2>4. Ups(dirOf')[f] = Ups(dirOf)[f]
    BY <2>2, <2>3, SameUps
  <2> QED
    BY <2>2, <2>4, AboveIsUps DEF Chain
<1> QED
  BY <1>2, <1>3

LEMMA MovesKeep ==
  ASSUME WalkTypes, IsTree(dirOf), Spine, Starts, CutOffs, NEW e, NEW d, Moves(e, d)
  PROVE  /\ Spine' /\ Starts' /\ CutOffs'
         /\ \A f \in Entries : Undisturbed(f)' =>
              /\ Undisturbed(f) /\ Above[f]' = Above[f] /\ dirOf'[f] = dirOf[f]
              /\ Pending(f)' <=> Pending(f)
<1>1. /\ e \in Entries /\ d \in Places /\ dirOf' = [dirOf EXCEPT ![e] = d]
      /\ moved' = moved \cup {e} /\ stack' = stack
      /\ dirOf \in [Entries -> Places] /\ \A x \in Entries : x # e => dirOf'[x] = dirOf[x]
  BY DEF Moves, WalkTypes
<1>2. \A k : Opened(k)' = Opened(k)
  BY <1>1 DEF Opened
<1>3. Spine'
  BY <1>1, <1>2 DEF Spine
<1>4. Starts'
  BY <1>1, <1>2 DEF Starts
<1>5. \A f \in Entries : /\ e \in Chain(f) => e \in Chain(f)'
                         /\ e \notin Chain(f) => /\ Above[f]' = Above[f] /\ Chain(f)' = Chain(f)
                                                 /\ dirOf'[f] = dirOf[f]
  BY <1>1, MovesChains
<1>6. ASSUME NEW k \in 1 .. Len(stack), Live(k), ~Live(k)'
      PROVE  k \in 2 .. Len(stack) /\ e \in Chain(Opened(k))
  <2>1. PICK i \in 2 .. k : dirOf'[Opened(i)] # dirOf[Opened(i)]
    BY <1>2, <1>6 DEF Live
  <2>2. Len(stack) \in Nat /\ stack # <<>> /\ k \in 2 .. Len(stack) /\ i \in 2 .. Len(stack)
    <3>1. Len(stack) \in Nat
      BY LenProperties DEF WalkTypes
    <3>2. k \in 2 .. Len(stack) /\ i \in 2 .. Len(stack)
      BY <2>1, <3>1
    <3> QED
      BY <3>1, <3>2, EmptySeq DEF WalkTypes
  <2>3. Upright
    BY <1>1, <2>2 DEF Upright, WalkTypes
  <2>4. Opened(i) \in Entries
    BY <2>2 DEF Spine, Entries
  <2>5. Opened(i) = e
    BY <1>1, <2>1, <2>4
  <2>6. Above[Opened(k)] = {Opened(j) : j \in 2 .. k - 1}
    BY <1>6, <2>2, <2>3, LiveAbove
  <2>7. i = k \/ i \in 2 .. k - 1
    BY <2>1, <2>2
  <2> QED
    BY <2>2, <2>5, <2>6, <2>7 DEF Chain
<1>7. ASSUME NEW k \in 1 .. Len(stack)
      PROVE  k \in 2 .. Len(stack) => Opened(k) \in Entries
  <2>1. stack # <<>>
    BY LenProperties, EmptySeq DEF WalkTypes
  <2> QED
    BY <2>1 DEF Spine, Entries
<1>8. \A k \in 1 .. Len(stack) : ~Live(k) => k \in 2 .. Len(stack)
  <2> SUFFICES ASSUME NEW k \in 1 .. Len(stack), ~Live(k) PROVE k \in 2 .. Len(stack)
    OBVIOUS
  <2>1. k # 1 /\ Len(stack) \in Nat
    BY LenProperties DEF Live, WalkTypes
  <2> QED
    BY <2>1
<1>9. CutOffs'
  <2> SUFFICES ASSUME NEW k \in 1 .. Len(stack), ~Live(k)'
               PROVE  Chain(Opened(k))' \cap moved' # {}
    BY <1>1 DEF CutOffs
  <2>1. Opened(k) \in Entries
    BY <1>6, <1>7, <1>8
  <2>2. CASE e \in Chain(Opened(k))
    BY <1>1, <1>2, <1>5, <2>1, <2>2
  <2>3. CASE e \notin Chain(Opened(k))
    <3>1. ~Live(k)
      BY <1>6, <2>3
    <3>2. Chain(Opened(k))' = Chain(Opened(k))
      BY <1>2, <1>5, <2>1, <2>3
    <3> QED
      BY <1>1, <3>1, <3>2 DEF CutOffs
  <2> QED
    BY <2>2, <2>3
<1>10. ASSUME NEW f \in Entries, Undisturbed(f)'
       PROVE  /\ Undisturbed(f) /\ Above[f]' = Above[f] /\ dirOf'[f] = dirOf[f]
              /\ Pending(f)' <=> Pending(f)
  <2>1. e \notin Chain(f)
    BY <1>1, <1>5, <1>10 DEF Undisturbed, Chain
  <2>2. Above[f]' = Above[f] /\ Chain(f)' = Chain(f) /\ dirOf'[f] = dirOf[f]
    BY <1>5, <2>1
  <2>3. Undisturbed(f)
    BY <1>1, <1>10, <2>2 DEF Undisturbed
  <2>4. ASSUME NEW k \in 1 .. Len(stack), NEW x \in Chain(f), dirOf[x] = Opened(k)
        PROVE  Live(k) /\ Live(k)'
    <3>1. x \in Entries /\ (dirOf[x] \in Dirs => dirOf[x] \in Above[f])
          /\ (dirOf[x] \in Dirs => Chain(dirOf[x]) \subseteq Above[f])
      BY <1>1, ChainFacts
    <3>2. k \in 2 .. Len(stack) => Opened(k) \in Dirs
      <4>1. stack # <<>>
        BY LenProperties, EmptySeq DEF WalkTypes
      <4> QED
        BY <4>1 DEF Spine
    <3>3. Live(k)
      <4> SUFFICES ASSUME ~Live(k) PROVE FALSE
        OBVIOUS
      <4>1. Chain(Opened(k)) \subseteq Above[f]
        BY <1>8, <2>4, <3>1, <3>2
      <4> QED
        BY <2>3, <4>1 DEF CutOffs, Undisturbed
    <3>4. Live(k)'
      <4> SUFFICES ASSUME ~Live(k)' PROVE FALSE
        OBVIOUS
      <4>1. k \in 2 .. Len(stack) /\ e \in Chain(Opened(k))
        BY <1>6, <3>3
      <4>2. e \in Above[f]
        BY <2>4, <3>1, <3>2, <4>1
      <4> QED
        BY <2>1, <4>2 DEF Chain
    <3> QED
      BY <3>3, <3>4
  <2>5. \A x \in Chain(f) : dirOf'[x] = dirOf[x]
    BY <1>1, <2>1, ChainFacts
  <2>6. Pending(f)' <=> Pending(f)
    BY <1>1, <1>2, <2>2, <2>4, <2>5 DEF Pending
  <2> QED
    BY <2>2, <2>3, <2>6
<1> QED
  BY <1>3, <1>4, <1>9, <1>10

-----------------------------------------------------------------------------
(* The counts of mymtimes                                                  *)

\* The quotient of div is the one number between whose multiples a is.
LEMMA QuotientIs ==
  ASSUME NEW a \in Nat, NEW h \in Nat \ {0}, NEW n \in Nat
  PROVE  /\ a \div h \in Nat
         /\ a \div h = n <=> n * h <= a /\ a < n * h + h
<1> DEFINE q == a \div h
           r == a % h
<1>1. q \in Nat /\ r \in 0 .. h - 1 /\ a = q * h + r
  OBVIOUS
<1> HIDE DEF q, r
<1>2. q * h \in Nat /\ n * h \in Nat
  BY <1>1
<1>3. ASSUME q < n
      PROVE  q * h + h <= n * h
  <2>1. q + 1 <= n
    BY <1>1, <1>3
  <2>2. (q + 1) * h <= n * h
    BY <1>1, <2>1
  <2> QED
    BY <1>1, <2>2
<1>4. ASSUME n < q
      PROVE  n * h + h <= q * h
  <2>1. n + 1 <= q
    BY <1>1, <1>4
  <2>2. (n + 1) * h <= q * h
    BY <1>1, <2>1
  <2> QED
    BY <1>1, <2>2
<1>5. q = n <=> n * h <= a /\ a < n * h + h
  BY <1>1, <1>2, <1>3, <1>4
<1> QED
  BY <1>1, <1>5 DEF q

\* A file that nobody touches belongs to the hour that mymtimes finds it in.
LEMMA HourIs ==
  ASSUME WalkTypes, NEW f \in Files, Undisturbed(f), f \notin modified,
         Above[f] \cap Locked = {}, NEW n \in 0 .. NUM_HOURS - 1
  PROVE  f \in Hour(n) <=> HourOf(f) = n
<1> DEFINE h == HR_IN_SECS
           a == current_time - mtime[f]
<1>1. h \in Nat \ {0} /\ current_time \in Nat /\ mtime[f] \in Nat /\ a \in Int /\ n \in Nat
  BY WalkAssumption DEF WalkTypes
<1>2. n * h \in Nat /\ (n + 1) * h = n * h + h /\ 0 * h = 0
  BY <1>1
<1>3. past_hours[n] = current_time - (n + 1) * h
  BY DEF past_hours
<1>4. f \in Hour(n) <=> (a < n * h + h /\ (a >= n * h \/ (n = 0 /\ a > -h)))
  <2>1. f \in Hour(n) <=> /\ mtime[f] > past_hours[n]
                          /\ \/ mtime[f] <= past_hours[n] + h
                             \/ n = 0 /\ mtime[f] < current_time + h
    BY DEF Hour
  <2> QED
    BY <1>1, <1>2, <1>3, <2>1
<1>5. HourOf(f) = IF a >= 0 THEN a \div h ELSE -((-a) \div h)
  BY DEF HourOf, Quotient
<1> HIDE DEF a, h
<1>6. CASE a >= 0
  <2>1. a \in Nat
    BY <1>1, <1>6
  <2>2. a \div h = n <=> n * h <= a /\ a < n * h + h
    BY <1>1, <2>1, QuotientIs
  <2> QED
    BY <1>1, <1>2, <1>4, <1>5, <1>6, <2>1, <2>2
<1>7. CASE a < 0
  <2>1. -a \in Nat
    BY <1>1, <1>7
  <2>2. (-a) \div h \in Nat /\ ((-a) \div h = 0 <=> 0 * h <= -a /\ -a < 0 * h + h)
    BY <1>1, <2>1, QuotientIs
  <2>3. HourOf(f) = n <=> n = 0 /\ a > -h
    BY <1>1, <1>2, <1>5, <1>7, <2>1, <2>2
  <2> QED
    BY <1>1, <1>2, <1>4, <1>7, <2>3
<1> QED
  BY <1>1, <1>6, <1>7

LEMMA HourFacts ==
  ASSUME NEW n
  PROVE  /\ Hour(n) \subseteq Files
         /\ \A f \in Hour(n) : Undisturbed(f) /\ f \notin modified /\ Above[f] \cap Locked = {}
BY DEF Hour

\* A turn passes a file of the hour only by counting it there, and counts something
\* else only by passing it.
LEMMA TurnCounts ==
  ASSUME WalkTypes, Upright, NEW e, NEW opens \in BOOLEAN, Turn(e, opens), Meets(e, opens),
         prog = "mymtimes", NEW n \in 0 .. NUM_HOURS - 1
  PROVE  /\ Waiting' \subseteq Waiting /\ Disturbed' = Disturbed
         /\ \/ mod_count'[n] = mod_count[n] /\ Done(n)' = Done(n)
            \/ /\ mod_count'[n] = mod_count[n] + 1
               /\ Done(n)' = Done(n) \cup {e} /\ e \in Files \ Done(n)
            \/ /\ mod_count'[n] = mod_count[n] + 1
               /\ Done(n)' = Done(n) /\ e \in Waiting \ Waiting'
<1>1. /\ dirOf' = dirOf /\ mtime' = mtime /\ moved' = moved /\ modified' = modified
      /\ current_time' = current_time /\ e \in Entries
      /\ opens => e \in Dirs
  BY DEF Turn
<1>2. Hour(n)' = Hour(n) /\ Disturbed' = Disturbed
  <2>1. Above' = Above
    BY <1>1, SameAbove
  <2>2. \A f : Undisturbed(f)' <=> Undisturbed(f)
    BY <1>1, <2>1 DEF Undisturbed
  <2> QED
    BY <1>1, <2>1, <2>2 DEF Hour, Disturbed, past_hours
<1>3. /\ \A f \in Entries : Pending(f)' => Pending(f)
      /\ \A f \in Entries : Pending(f) /\ ~Pending(f)' =>
           There(e) /\ e \in Chain(f) /\ (opens => f = e)
      /\ There(e) => Pending(e) /\ ~Pending(e)'
  BY TurnPending
<1>4. /\ e \in Dirs => mod_count' = mod_count /\ (opens <=> There(e) /\ e \notin Locked)
      /\ e \notin Dirs => mod_count' = IF There(e) /\ HourOf(e) \in DOMAIN mod_count
                                       THEN [mod_count EXCEPT ![HourOf(e)] = @ + 1] ELSE mod_count
  BY DEF Meets
<1>5. /\ mod_count \in [0 .. NUM_HOURS - 1 -> Nat] /\ Files \subseteq Entries
      /\ Dirs \cap Files = {} /\ (e \notin Dirs => e \in Files)
  BY <1>1, WalkAssumption DEF WalkTypes, Entries
<1>6. ASSUME NEW f \in Hour(n), Pending(f), ~Pending(f)'
      PROVE  f = e /\ There(e) /\ e \in Files /\ HourOf(e) = n
  <2>1. f \in Files /\ Undisturbed(f) /\ f \notin modified /\ Above[f] \cap Locked = {}
    BY HourFacts
  <2>2. There(e) /\ e \in Chain(f) /\ (opens => f = e)
    BY <1>3, <1>5, <1>6, <2>1
  <2>3. f = e
    <3> SUFFICES ASSUME f # e PROVE FALSE
      OBVIOUS
    <3>1. e \in Above[f] /\ ~opens
      BY <2>2 DEF Chain
    <3>2. e \in Dirs /\ e \notin Locked
      BY <1>5, <2>1, <3>1, ChainFacts DEF Upright
    <3> QED
      BY <1>4, <2>2, <3>1, <3>2
  <2> QED
    BY <2>1, <2>2, <2>3, HourIs
<1>7. Waiting' \subseteq Waiting
  BY <1>2, <1>3, <1>5 DEF Waiting, Disturbed
<1>8. \A f \in Hour(n) : Pending(f)' => Pending(f)
  BY <1>3, <1>5, HourFacts
<1>9. CASE There(e) /\ e \in Files /\ HourOf(e) = n
  <2>1. mod_count'[n] = mod_count[n] + 1
    BY <1>4, <1>5, <1>9
  <2>2. CASE e \in Disturbed
    <3>1. e \notin Hour(n)
      BY <2>2, HourFacts DEF Disturbed
    <3>2. Done(n)' = Done(n)
      BY <1>2, <1>6, <1>8, <3>1 DEF Done
    <3>3. e \in Waiting /\ e \notin Waiting'
      BY <1>3, <1>9, <2>2 DEF Waiting
    <3> QED
      BY <1>2, <1>7, <2>1, <3>2, <3>3
  <2>3. CASE e \notin Disturbed
    <3>1. Undisturbed(e) /\ e \notin modified
      BY <1>9, <2>3 DEF Disturbed
    <3>2. Above[e] \cap Locked = {}
      <4>1. Live(Here) /\ dirOf[e] = Opened(Here)
        BY <1>9 DEF There
      <4>2. /\ Here \in 1 .. Here
            /\ \A k \in 2 .. Here : Opened(k) \in (Dirs \cap stack[k - 1].returned) \ Locked
        BY UprightFacts
      <4>3. Above[e] = {Opened(i) : i \in 2 .. Here}
        BY <1>1, <4>1, <4>2, LiveDepth DEF Here
      <4> QED
        BY <4>2, <4>3
    <3>3. e \in Hour(n)
      BY <1>9, <3>1, <3>2, HourIs
    <3>4. Done(n)' = Done(n) \cup {e} /\ e \notin Done(n)
      BY <1>2, <1>3, <1>6, <1>8, <1>9, <3>3 DEF Done
    <3> QED
      BY <1>2, <1>7, <1>9, <2>1, <3>4
  <2> QED
    BY <2>2, <2>3
<1>10. CASE ~(There(e) /\ e \in Files /\ HourOf(e) = n)
  <2>1. mod_count'[n] = mod_count[n]
    BY <1>4, <1>5, <1>10
  <2>2. Done(n)' = Done(n)
    BY <1>2, <1>6, <1>8, <1>10 DEF Done
  <2> QED
    BY <1>2, <1>7, <2>1, <2>2
<1> QED
  BY <1>9, <1>10

LEMMA SetsOfFiles ==
  ASSUME NEW S, S \subseteq Files
  PROVE  IsFiniteSet(S) /\ Cardinality(S) \in Nat
BY WalkAssumption, FS_Subset, FS_CardinalityType

LEMMA CountedSets ==
  ASSUME NEW n
  PROVE  /\ IsFiniteSet(Disturbed) /\ IsFiniteSet(Waiting) /\ IsFiniteSet(Done(n))
         /\ Cardinality(Disturbed) \in Nat /\ Cardinality(Waiting) \in Nat
         /\ Cardinality(Done(n)) \in Nat /\ Cardinality(Waiting) <= Cardinality(Disturbed)
<1>1. Disturbed \subseteq Files /\ Waiting \subseteq Disturbed /\ Done(n) \subseteq Files
  BY HourFacts DEF Disturbed, Waiting, Done
<1>2. Cardinality(Waiting) <= Cardinality(Disturbed)
  BY <1>1, SetsOfFiles, FS_Subset
<1> QED
  BY <1>1, <1>2, SetsOfFiles

LEMMA CountsProduct ==
  ASSUME NEW c \in Nat, NEW i \in Nat, NEW j \in Nat, i <= j
  PROVE  /\ (c + 1) * i \in Nat /\ (c + 1) * i + (j - i) <= (c + 1) * j
         /\ (c + 2) * j = (c + 1) * j + j
<1>1. PICK k \in Nat : j = i + k
  <2>1. j - i \in Nat /\ j = i + (j - i)
    OBVIOUS
  <2> QED
    BY <2>1
<1>2. (c + 1) * j = (c + 1) * i + (c + 1) * k
  BY <1>1
<1>3. (c + 1) * k = c * k + k /\ c * k \in Nat /\ (c + 1) * i \in Nat
  OBVIOUS
<1>4. (c + 2) * j = (c + 1) * j + j
  OBVIOUS
<1> QED
  BY <1>1, <1>2, <1>3, <1>4

LEMMA EntryCounts ==
  ASSUME WalkTypes, Upright, Counts, NEW e, NEW opens \in BOOLEAN, Turn(e, opens), Meets(e, opens)
  PROVE  Counts'
<1> SUFFICES ASSUME Begun', prog' = "mymtimes", NEW n \in DOMAIN mod_count'
             PROVE  /\ Cardinality(Done(n)') <= mod_count'[n]
                    /\ mod_count'[n] + Cardinality(Waiting')
                         <= Cardinality(Done(n)') + (changes' + 1) * Cardinality(Disturbed')
  BY DEF Counts
<1>1. /\ prog = "mymtimes" /\ Begun /\ changes' = changes /\ changes \in Nat
      /\ n \in 0 .. NUM_HOURS - 1 /\ n \in DOMAIN mod_count /\ mod_count[n] \in Nat
  <2>1. prog' = prog /\ wat' = wat /\ changes' = changes
    BY DEF Turn
  <2>2. DOMAIN mod_count' = DOMAIN mod_count
    BY <2>1 DEF Meets, WalkTypes
  <2> QED
    BY <2>1, <2>2, WalkAssumption DEF WalkTypes, Begun
<1>2. /\ Cardinality(Done(n)) <= mod_count[n]
      /\ mod_count[n] + Cardinality(Waiting)
           <= Cardinality(Done(n)) + (changes + 1) * Cardinality(Disturbed)
  BY <1>1 DEF Counts
<1>3. /\ Waiting' \subseteq Waiting /\ Disturbed' = Disturbed
      /\ \/ mod_count'[n] = mod_count[n] /\ Done(n)' = Done(n)
         \/ /\ mod_count'[n] = mod_count[n] + 1
            /\ Done(n)' = Done(n) \cup {e} /\ e \in Files \ Done(n)
         \/ /\ mod_count'[n] = mod_count[n] + 1
            /\ Done(n)' = Done(n) /\ e \in Waiting \ Waiting'
  BY <1>1, TurnCounts
<1>4. /\ IsFiniteSet(Waiting) /\ IsFiniteSet(Done(n))
      /\ Cardinality(Disturbed) \in Nat /\ Cardinality(Waiting) \in Nat
      /\ Cardinality(Done(n)) \in Nat
  BY CountedSets
<1>5. Cardinality(Waiting') \in Nat /\ Cardinality(Waiting') <= Cardinality(Waiting)
  BY <1>3, <1>4, FS_Subset, FS_CardinalityType
<1>6. (changes + 1) * Cardinality(Disturbed) \in Nat
  BY <1>1, <1>4
<1>7. CASE mod_count'[n] = mod_count[n] /\ Done(n)' = Done(n)
  BY <1>1, <1>2, <1>3, <1>4, <1>5, <1>6, <1>7
<1>8. CASE /\ mod_count'[n] = mod_count[n] + 1
           /\ Done(n)' = Done(n) \cup {e} /\ e \in Files \ Done(n)
  <2>1. Cardinality(Done(n)') = Cardinality(Done(n)) + 1
    BY <1>4, <1>8, FS_AddElement
  <2> QED
    BY <1>1, <1>2, <1>3, <1>4, <1>5, <1>6, <1>8, <2>1
<1>9. CASE /\ mod_count'[n] = mod_count[n] + 1
           /\ Done(n)' = Done(n) /\ e \in Waiting \ Waiting'
  <2>1. Cardinality(Waiting \ {e}) = Cardinality(Waiting) - 1 /\ IsFiniteSet(Waiting \ {e})
    BY <1>4, <1>9, FS_RemoveElement
  <2>2. Cardinality(Waiting') <= Cardinality(Waiting \ {e})
    BY <1>3, <1>9, <2>1, FS_Subset
  <2> QED
    BY <1>1, <1>2, <1>3, <1>4, <1>5, <1>6, <1>9, <2>1, <2>2
<1> QED
  BY <1>3, <1>7, <1>8, <1>9

\* What leaves the counts and the changes alone, and all that is undisturbed as it is.
LEMMA QuietCounts ==
  ASSUME WalkTypes, Counts, UNCHANGED <<prog, mod_count, dirOf, mtime, moved, modified,
                                        current_time, changes>>,
         Begun, \A f \in Files : Pending(f)' => Pending(f),
         \A f \in Files : Undisturbed(f) /\ Pending(f) => Pending(f)'
  PROVE  Counts'
<1> SUFFICES ASSUME prog' = "mymtimes", NEW n \in DOMAIN mod_count'
             PROVE  /\ Cardinality(Done(n)') <= mod_count'[n]
                    /\ mod_count'[n] + Cardinality(Waiting')
                         <= Cardinality(Done(n)') + (changes' + 1) * Cardinality(Disturbed')
  BY DEF Counts
<1>1. /\ Cardinality(Done(n)) <= mod_count[n] /\ mod_count[n] \in Nat /\ changes \in Nat
      /\ mod_count[n] + Cardinality(Waiting)
           <= Cardinality(Done(n)) + (changes + 1) * Cardinality(Disturbed)
  BY WalkAssumption DEF Counts, WalkTypes
<1>2. Hour(n)' = Hour(n) /\ Disturbed' = Disturbed
  <2>1. Above' = Above
    BY SameAbove
  <2>2. \A f : Undisturbed(f)' <=> Undisturbed(f)
    BY <2>1 DEF Undisturbed
  <2> QED
    BY <2>1, <2>2 DEF Hour, Disturbed, past_hours
<1>3. Done(n)' = Done(n)
  BY <1>2, HourFacts DEF Done
<1>4. Waiting' \subseteq Waiting
  BY <1>2 DEF Waiting, Disturbed
<1>5. /\ IsFiniteSet(Waiting) /\ Cardinality(Disturbed) \in Nat /\ Cardinality(Waiting) \in Nat
      /\ Cardinality(Done(n)) \in Nat
  BY CountedSets
<1>6. Cardinality(Waiting') \in Nat /\ Cardinality(Waiting') <= Cardinality(Waiting)
  BY <1>4, <1>5, FS_Subset, FS_CardinalityType
<1>7. (changes + 1) * Cardinality(Disturbed) \in Nat
  BY <1>1, <1>5
<1> QED
  BY <1>1, <1>2, <1>3, <1>5, <1>6, <1>7

LEMMA BeginCounts ==
  ASSUME WalkTypes, Fresh, IsTree(dirOf), BeginWalk
  PROVE  Counts'
<1> SUFFICES ASSUME NEW n \in DOMAIN mod_count'
             PROVE  /\ Cardinality(Done(n)') <= mod_count'[n]
                    /\ mod_count'[n] + Cardinality(Waiting')
                         <= Cardinality(Done(n)') + (changes' + 1) * Cardinality(Disturbed')
  BY DEF Counts
<1>1. /\ dirOf' = dirOf /\ moved' = moved /\ modified' = modified /\ mod_count'[n] = 0
      /\ changes' = 0 /\ mod_count' \in [0 .. NUM_HOURS - 1 -> Nat]
  BY DEF BeginWalk, fileVars, Fresh, WalkTypes
<1>2. (\A f : Undisturbed(f)' <=> Undisturbed(f)) /\ Files \subseteq Entries
  BY <1>1, SameAbove DEF Undisturbed, Entries
<1>3. Done(n)' = {}
  <2>1. \A f \in Files : Undisturbed(f)' => Pending(f)'
    BY <1>2, BeginKeeps DEF WalkTypes
  <2> QED
    BY <2>1 DEF Done, Hour
<1>4. Waiting' \subseteq Disturbed' /\ Disturbed' \subseteq Files
  BY DEF Waiting, Disturbed
<1>5. Cardinality(Waiting') \in Nat /\ Cardinality(Disturbed') \in Nat
      /\ Cardinality(Waiting') <= Cardinality(Disturbed')
  BY <1>4, SetsOfFiles, FS_Subset
<1>6. Cardinality(Done(n)') = 0
  BY <1>3, FS_EmptySet
<1> QED
  BY <1>1, <1>5, <1>6

\* A change pays for what it disturbs.
LEMMA ChangeCounts ==
  ASSUME WalkTypes, Counts, changes' = changes + 1, UNCHANGED <<prog, wat, mod_count, current_time>>,
         \A f \in Files : Undisturbed(f)' /\ f \notin modified' =>
           /\ Undisturbed(f) /\ f \notin modified /\ mtime'[f] = mtime[f]
           /\ Above[f]' = Above[f] /\ (Pending(f)' <=> Pending(f))
  PROVE  Counts'
<1> SUFFICES ASSUME Begun, prog = "mymtimes", NEW n \in DOMAIN mod_count
             PROVE  /\ Cardinality(Done(n)') <= mod_count'[n]
                    /\ mod_count'[n] + Cardinality(Waiting')
                         <= Cardinality(Done(n)') + (changes' + 1) * Cardinality(Disturbed')
  BY DEF Counts, Begun
<1>1. /\ Cardinality(Done(n)) <= mod_count[n] /\ mod_count[n] \in Nat /\ changes \in Nat
      /\ mod_count[n] + Cardinality(Waiting)
           <= Cardinality(Done(n)) + (changes + 1) * Cardinality(Disturbed)
  BY WalkAssumption DEF Counts, WalkTypes
<1>2. past_hours' = past_hours /\ mod_count' = mod_count
  BY DEF past_hours
<1>3. /\ Disturbed \subseteq Disturbed' /\ Disturbed' \subseteq Files
      /\ Waiting' \subseteq Disturbed' /\ Done(n) \subseteq Files
  BY HourFacts DEF Disturbed, Waiting, Done
<1>4. Done(n)' \subseteq Done(n)
  BY <1>2 DEF Done, Hour
<1>5. Done(n) \subseteq Done(n)' \cup (Disturbed' \ Disturbed)
  <2> SUFFICES ASSUME NEW f \in Done(n), f \notin Disturbed' PROVE f \in Done(n)'
    BY <1>3, HourFacts DEF Done, Disturbed
  <2>1. f \in Files /\ Undisturbed(f)' /\ f \notin modified'
    BY <1>3 DEF Disturbed
  <2> QED
    BY <1>2, <2>1 DEF Done, Hour
<1> DEFINE gone == Disturbed' \ Disturbed
           i == Cardinality(Disturbed)
           j == Cardinality(Disturbed')
           d == Cardinality(Done(n))
           dp == Cardinality(Done(n)')
           w == Cardinality(Waiting)
           wp == Cardinality(Waiting')
<1>6. /\ i \in Nat /\ j \in Nat /\ d \in Nat /\ dp \in Nat /\ w \in Nat /\ wp \in Nat
      /\ i <= j /\ dp <= d /\ wp <= j
  <2>1. Done(n)' \subseteq Files /\ Waiting \subseteq Files /\ Waiting' \subseteq Files
        /\ Disturbed \subseteq Files
    BY <1>3, <1>4 DEF Waiting, Disturbed
  <2> QED
    BY <1>3, <1>4, <2>1, SetsOfFiles, FS_Subset
<1>7. d <= dp + (j - i)
  <2>1. IsFiniteSet(Disturbed') /\ IsFiniteSet(Done(n)') /\ IsFiniteSet(gone)
    BY <1>3, <1>4, SetsOfFiles
  <2>2. Cardinality(gone) = j - Cardinality(Disturbed' \cap Disturbed)
    BY <2>1, FS_Difference
  <2>3. Disturbed' \cap Disturbed = Disturbed
    BY <1>3
  <2>4. IsFiniteSet(Done(n)' \cup gone) /\ Cardinality(Done(n)' \cup gone) <= dp + Cardinality(gone)
    <3> HIDE DEF gone
    <3>1. IsFiniteSet(Done(n)' \cap gone)
      BY <2>1, FS_Intersection
    <3>2. Cardinality(Done(n)' \cap gone) \in Nat /\ Cardinality(gone) \in Nat
      BY <2>1, <3>1, FS_CardinalityType
    <3>3. /\ IsFiniteSet(Done(n)' \cup gone)
          /\ Cardinality(Done(n)' \cup gone) = dp + Cardinality(gone) - Cardinality(Done(n)' \cap gone)
      BY <2>1, FS_Union
    <3> QED
      BY <1>6, <3>2, <3>3
  <2>5. d <= Cardinality(Done(n)' \cup gone)
    BY <1>5, <2>4, FS_Subset
  <2>6. d \in Nat /\ Cardinality(gone) \in Nat /\ Cardinality(Done(n)' \cup gone) \in Nat
    BY <1>6, <2>1, <2>4, FS_CardinalityType
  <2> HIDE DEF gone
  <2> QED
    BY <1>6, <2>2, <2>3, <2>4, <2>5, <2>6
<1>8. /\ (changes + 1) * i \in Nat /\ (changes + 1) * i + (j - i) <= (changes + 1) * j
      /\ (changes + 2) * j = (changes + 1) * j + j
  BY <1>1, <1>6, CountsProduct
<1>9. (changes' + 1) * j = (changes + 1) * j + j /\ (changes + 1) * j \in Nat
  BY <1>1, <1>6, <1>8
<1> HIDE DEF i, j, d, dp, w, wp
<1>10. dp <= mod_count[n] /\ mod_count[n] + wp <= dp + ((changes + 1) * j + j)
  <2>1. d <= mod_count[n] /\ mod_count[n] + w <= d + (changes + 1) * i
    BY <1>1 DEF d, w, i
  <2> QED
    BY <1>1, <1>6, <1>7, <1>8, <1>9, <2>1
<1> QED
  BY <1>2, <1>9, <1>10 DEF i, j, d, dp, w, wp

-----------------------------------------------------------------------------
(* The listing of mytree                                                   *)

LEMMA AppendLines ==
  ASSUME LineTypes, NEW line
  PROVE  /\ Len(lines) \in Nat /\ DOMAIN lines = 1 .. Len(lines)
         /\ Len(Append(lines, line)) = Len(lines) + 1
         /\ DOMAIN Append(lines, line) = 1 .. Len(lines) + 1
         /\ Append(lines, line)[Len(lines) + 1] = line
         /\ \A i \in 1 .. Len(lines) : Append(lines, line)[i] = lines[i]
BY LenProperties DEF LineTypes

\* What is below a line of the listing stays so when more is appended.
LEMMA StaysPlaced ==
  ASSUME LineTypes, NEW f, NEW i \in DOMAIN lines, Placed(f, i), dirOf'[f] = dirOf[f],
         Above[f]' = Above[f],
         \/ lines' = lines
         \/ \E line : lines' = Append(lines, line) /\ line.entry # f
  PROVE  i \in DOMAIN lines' /\ Placed(f, i)'
<1>1. CASE lines' = lines
  BY <1>1 DEF Placed, Shown
<1>2. ASSUME NEW line, lines' = Append(lines, line), line.entry # f
      PROVE  i \in DOMAIN lines' /\ Placed(f, i)'
  <2> DEFINE n == Len(lines)
  <2>1. /\ n \in Nat /\ DOMAIN lines = 1 .. n /\ DOMAIN lines' = 1 .. n + 1
        /\ lines'[n + 1] = line /\ \A k \in 1 .. n : lines'[k] = lines[k]
    BY <1>2, AppendLines
  <2> HIDE DEF n
  <2>2. Shown(f) = {i} /\ lines[i].depth = Cardinality(Above[f]) /\ i \in 1 .. n
    BY <2>1 DEF Placed
  <2>3. Shown(f)' = {i}
    <3>1. Shown(f)' = {k \in 1 .. n + 1 : lines'[k].entry = f}
      BY <2>1 DEF Shown
    <3>2. {i} = {k \in 1 .. n : lines[k].entry = f}
      BY <2>1, <2>2 DEF Shown
    <3>3. \A k \in 1 .. n + 1 : k = n + 1 \/ k \in 1 .. n
      BY <2>1
    <3>4. 1 .. n \subseteq 1 .. n + 1
      BY <2>1
    <3> QED
      BY <1>2, <2>1, <3>1, <3>2, <3>3, <3>4
  <2>4. lines'[i].depth = Cardinality(Above[f]') /\ i \in DOMAIN lines'
    BY <2>1, <2>2
  <2>5. \A k \in 1 .. i - 1 : lines'[k] = lines[k]
    BY <2>1, <2>2
  <2>6. ASSUME dirOf[f] # Root
        PROVE  \E j \in 1 .. i - 1 :
                 /\ lines'[j].entry = dirOf[f] /\ lines'[j].depth = lines'[i].depth - 1
                 /\ \A k \in j + 1 .. i - 1 : lines'[k].depth >= lines'[i].depth
    <3>1. PICK j \in 1 .. i - 1 :
            /\ lines[j].entry = dirOf[f] /\ lines[j].depth = lines[i].depth - 1
            /\ \A k \in j + 1 .. i - 1 : lines[k].depth >= lines[i].depth
      BY <2>6 DEF Placed
    <3>2. lines'[i] = lines[i] /\ lines'[j] = lines[j]
      BY <2>1, <2>2, <2>5
    <3>3. j + 1 .. i - 1 \subseteq 1 .. i - 1
      BY <2>2
    <3> QED
      BY <2>5, <3>1, <3>2, <3>3
  <2> QED
    BY <2>3, <2>4, <2>6 DEF Placed
<1> QED
  BY <1>1, <1>2

LEMMA EntryListing ==
  ASSUME WalkTypes, LineTypes, Upright, Starts, CutOffs, Listing, Branches,
         NEW e, NEW opens \in BOOLEAN, Turn(e, opens), Meets(e, opens)
  PROVE  LineTypes' /\ Listing' /\ Branches'
<1> DEFINE line == [depth |-> Here - 1, entry |-> e]
           n == Len(lines)
<1>1. /\ dirOf' = dirOf /\ moved' = moved /\ e \in Entries /\ prog' = prog /\ wat' = wat
      /\ Here' = Here + (IF opens THEN 1 ELSE 0)
      /\ opens => e \in Dirs /\ There(e)
  BY DEF Turn
<1>2. /\ Here \in Nat /\ Here >= 1 /\ Here \in 1 .. Here /\ (Here # 1 => Here \in 2 .. Here)
      /\ Opened(1) = Root
  BY UprightFacts
<1>3. /\ n \in Nat /\ DOMAIN lines = 1 .. n /\ Len(Append(lines, line)) = n + 1
      /\ DOMAIN Append(lines, line) = 1 .. n + 1 /\ Append(lines, line)[n + 1] = line
      /\ \A i \in 1 .. n : Append(lines, line)[i] = lines[i]
  BY AppendLines
<1>4. /\ prog = "mytree" => IF e \in Hidden
                            THEN ~opens /\ lines' = lines
                            ELSE lines' = Append(lines, line) /\ (opens <=> e \in Dirs \ Locked /\ There(e))
      /\ prog # "mytree" => lines' = lines
      /\ line.depth = Here - 1 /\ line.entry = e
  BY DEF Meets
<1>5. line \in [depth : Nat, entry : Entries]
  BY <1>1, <1>2
<1> HIDE DEF line, n
<1>6. LineTypes'
  <2> DEFINE Line == [depth : Nat, entry : Entries]
  <2>1. lines' = lines \/ lines' = Append(lines, line)
    BY <1>4
  <2>2. lines \in Seq(Line) /\ line \in Line
    BY <1>5 DEF LineTypes
  <2> HIDE DEF Line
  <2>3. lines' \in Seq(Line)
    BY <2>1, <2>2, AppendProperties
  <2> QED
    BY <2>3 DEF LineTypes, Line
<1>7. Above' = Above /\ \A f : (Expected(f)' <=> Expected(f)) /\ (Undisturbed(f)' <=> Undisturbed(f))
  BY <1>1, SameAbove DEF Expected, Visible, Undisturbed
<1>8. /\ \A f \in Entries : Pending(f)' => Pending(f)
      /\ \A f \in Entries : Pending(f) /\ ~Pending(f)' =>
           There(e) /\ e \in Chain(f) /\ (opens => f = e)
      /\ There(e) => Pending(e) /\ ~Pending(e)'
  BY TurnPending
<1>9. Undisturbed(e) => There(e)
  BY UndisturbedThere
<1>10. ASSUME prog = "mytree", Begun
       PROVE  /\ \A f \in Entries : Expected(f) =>
                   IF Pending(f) THEN Shown(f) = {} ELSE \E i \in DOMAIN lines : Placed(f, i)
              /\ \A k \in 2 .. Here :
                   \E j \in 1 .. n :
                     /\ lines[j].entry = Opened(k) /\ lines[j].depth = k - 2
                     /\ \A m \in j + 1 .. n : lines[m].depth >= k - 1
  BY <1>3, <1>10 DEF Listing, Branches, Here, n
<1>11. Listing'
  <2> SUFFICES ASSUME prog = "mytree", Begun, NEW f \in Entries, Expected(f)
               PROVE  IF Pending(f)' THEN Shown(f)' = {}
                                     ELSE \E i \in DOMAIN lines' : Placed(f, i)'
    BY <1>1, <1>7 DEF Listing, Begun
  <2>0. Undisturbed(f) /\ ({f} \cup Above[f]) \cap Hidden = {} /\ Above[f] \cap Locked = {}
    BY DEF Expected, Visible
  <2>1. CASE Pending(f)'
    <3>1. Pending(f) /\ f # e
      BY <1>8, <1>9, <2>0, <2>1
    <3>2. {i \in 1 .. n : lines[i].entry = f} = {}
      BY <1>3, <1>10, <3>1 DEF Shown
    <3>3. lines' = lines \/ lines' = Append(lines, line)
      BY <1>4
    <3>4. \A i \in DOMAIN lines' : lines'[i].entry # f
      <4>1. \A i \in 1 .. n + 1 : i = n + 1 \/ i \in 1 .. n
        BY <1>3
      <4> QED
        BY <1>3, <1>4, <3>1, <3>2, <3>3, <4>1
    <3> QED
      BY <2>1, <3>4 DEF Shown
  <2>2. CASE ~Pending(f)' /\ ~Pending(f)
    <3>1. PICK i \in DOMAIN lines : Placed(f, i)
      BY <1>10, <2>2
    <3>2. f # e
      BY <1>8, <1>9, <2>0, <2>2
    <3>3. i \in DOMAIN lines' /\ Placed(f, i)'
      BY <1>1, <1>4, <1>7, <3>1, <3>2, StaysPlaced
    <3> QED
      BY <2>2, <3>3
  <2>3. CASE ~Pending(f)' /\ Pending(f)
    <3>1. There(e) /\ e \in Chain(f) /\ (opens => f = e)
      BY <1>8, <2>3
    <3>2. e \notin Hidden
      BY <2>0, <3>1 DEF Chain
    <3>3. f = e
      <4> SUFFICES ASSUME f # e PROVE FALSE
        OBVIOUS
      <4>1. e \in Above[f] /\ ~opens
        BY <3>1 DEF Chain
      <4>2. e \in Dirs \ Locked
        BY <2>0, <4>1, ChainFacts DEF Upright
      <4> QED
        BY <1>4, <3>1, <3>2, <4>1, <4>2
    <3>4. lines' = Append(lines, line)
      BY <1>4, <3>2
    <3>5. /\ DOMAIN lines' = 1 .. n + 1 /\ lines'[n + 1] = line
          /\ \A i \in 1 .. n : lines'[i] = lines[i]
      BY <1>3, <3>4
    <3>6. Shown(f)' = {n + 1}
      <4>1. \A i \in 1 .. n : lines[i].entry # f
        BY <1>3, <1>10, <2>3 DEF Shown
      <4>2. n + 1 \in 1 .. n + 1 /\ \A i \in 1 .. n + 1 : i = n + 1 \/ i \in 1 .. n
        BY <1>3
      <4>3. \A i \in 1 .. n + 1 : lines'[i].entry = f <=> i = n + 1
        BY <1>4, <3>3, <3>5, <4>1, <4>2
      <4>4. Shown(f)' = {i \in 1 .. n + 1 : lines'[i].entry = f}
        BY <3>5 DEF Shown
      <4> QED
        BY <4>2, <4>3, <4>4
    <3>7. Live(Here) /\ dirOf[e] = Opened(Here)
      BY <3>1 DEF There
    <3>8. Cardinality(Above[f]) = Here - 1
      BY <1>1, <1>2, <3>3, <3>7, LiveDepth DEF Here
    <3>9. ASSUME dirOf[f] # Root
          PROVE  \E j \in 1 .. n :
                   /\ lines'[j].entry = dirOf[f] /\ lines'[j].depth = Here - 2
                   /\ \A k \in j + 1 .. n : lines'[k].depth >= Here - 1
      <4>1. Here \in 2 .. Here
        BY <1>2, <3>3, <3>7, <3>9
      <4>2. PICK j \in 1 .. n :
              /\ lines[j].entry = Opened(Here) /\ lines[j].depth = Here - 2
              /\ \A k \in j + 1 .. n : lines[k].depth >= Here - 1
        BY <1>10, <4>1
      <4>3. j + 1 .. n \subseteq 1 .. n
        BY <1>3
      <4> QED
        BY <3>3, <3>5, <3>7, <4>2, <4>3
    <3>10. \E i \in DOMAIN lines' : Placed(f, i)'
      <4>1. PICK i : i = n + 1
        OBVIOUS
      <4>2. i - 1 = n /\ lines'[i] = line /\ line.depth = Here - 1 /\ line.depth - 1 = Here - 2
        BY <1>2, <1>3, <1>4, <3>5, <4>1
      <4>3. Shown(f)' = {i} /\ lines'[i].depth = Cardinality(Above[f]')
        BY <1>7, <3>6, <3>8, <4>1, <4>2
      <4>4. Placed(f, i)'
        BY <1>1, <3>9, <4>2, <4>3 DEF Placed
      <4>5. i \in DOMAIN lines'
        BY <1>3, <3>5, <4>1
      <4> QED
        BY <4>4, <4>5
    <3> QED
      BY <2>3, <3>10
  <2> QED
    BY <2>1, <2>2, <2>3
<1>12. Branches'
  <2> SUFFICES ASSUME prog = "mytree", Begun, NEW k \in 2 .. Here'
               PROVE  \E j \in DOMAIN lines' :
                        /\ lines'[j].entry = Opened(k)' /\ lines'[j].depth = k - 2
                        /\ \A m \in j + 1 .. Len(lines') : lines'[m].depth >= k - 1
    BY <1>1 DEF Branches, Begun, Here
  <2>1. /\ \A i \in 1 .. Here : Opened(i)' = Opened(i)
        /\ opens => \A i : i = Here + 1 => Opened(i)' = e
    BY TurnLives
  <2>2. CASE k \in 2 .. Here
    <3>1. PICK j \in 1 .. n :
            /\ lines[j].entry = Opened(k) /\ lines[j].depth = k - 2
            /\ \A m \in j + 1 .. n : lines[m].depth >= k - 1
      BY <1>10, <2>2
    <3>2. Opened(k)' = Opened(k)
      BY <2>1, <2>2
    <3>3. CASE lines' = lines
      BY <1>3, <3>1, <3>2, <3>3 DEF n
    <3>4. CASE lines' = Append(lines, line)
      <4>1. /\ DOMAIN lines' = 1 .. n + 1 /\ Len(lines') = n + 1 /\ lines'[n + 1] = line
            /\ \A i \in 1 .. n : lines'[i] = lines[i]
        BY <1>3, <3>4
      <4>2. ASSUME NEW m \in j + 1 .. n + 1
            PROVE  lines'[m].depth >= k - 1
        <5>1. (m \in 1 .. n /\ m \in j + 1 .. n) \/ m = n + 1
          BY <1>3
        <5>2. line.depth >= k - 1
          BY <1>2, <1>4, <2>2
        <5> QED
          BY <3>1, <4>1, <5>1, <5>2
      <4>3. j \in 1 .. n + 1 /\ lines'[j] = lines[j]
        BY <1>3, <4>1
      <4> QED
        BY <3>1, <3>2, <4>1, <4>2, <4>3
    <3> QED
      BY <1>4, <3>3, <3>4
  <2>3. CASE k \notin 2 .. Here
    <3>1. k = Here + 1 /\ opens
      BY <1>1, <1>2, <2>3
    <3>2. lines' = Append(lines, line) /\ Opened(k)' = e /\ k - 2 = Here - 1
      BY <1>2, <1>4, <2>1, <3>1
    <3>3. DOMAIN lines' = 1 .. n + 1 /\ Len(lines') = n + 1 /\ lines'[n + 1] = line
      BY <1>3, <3>2
    <3>4. (n + 1) + 1 .. n + 1 = {} /\ n + 1 \in 1 .. n + 1
      BY <1>3
    <3> QED
      BY <1>4, <3>2, <3>3, <3>4
  <2> QED
    BY <2>2, <2>3
<1> QED
  BY <1>6, <1>11, <1>12

\* The listing as it is stays right for what is still undisturbed and pending or not
\* as before.
LEMMA SteadyListing ==
  ASSUME LineTypes, Listing, UNCHANGED <<prog, lines>>, Begun,
         \A f \in Entries : Undisturbed(f)' =>
           /\ Undisturbed(f) /\ Above[f]' = Above[f] /\ dirOf'[f] = dirOf[f]
           /\ Pending(f)' <=> Pending(f)
  PROVE  Listing'
<1> SUFFICES ASSUME prog = "mytree", NEW f \in Entries, Expected(f)'
             PROVE  IF Pending(f)' THEN Shown(f)' = {}
                                   ELSE \E i \in DOMAIN lines' : Placed(f, i)'
  BY DEF Listing
<1>1. /\ Undisturbed(f) /\ Above[f]' = Above[f] /\ dirOf'[f] = dirOf[f]
      /\ Pending(f)' <=> Pending(f)
  BY DEF Expected, Visible
<1>2. Expected(f)
  BY <1>1 DEF Expected, Visible
<1>3. IF Pending(f) THEN Shown(f) = {} ELSE \E i \in DOMAIN lines : Placed(f, i)
  BY <1>2 DEF Listing
<1>4. Shown(f)' = Shown(f)
  BY DEF Shown
<1> QED
  BY <1>1, <1>3, <1>4, StaysPlaced

-----------------------------------------------------------------------------
(* The invariant                                                           *)

LEMMA WalkInvUpright ==
  ASSUME WalkInv, stack # <<>>
  PROVE  Upright
BY DEF WalkInv, WalkTypes, Upright

LEMMA BeginWalkInv ==
  ASSUME WalkInv, now \in Nat, BeginWalk
  PROVE  WalkInv'
<1> USE DEF WalkInv
<1>1. /\ dirOf' = dirOf /\ moved' = moved /\ lines' = lines /\ prog' = prog
      /\ wat = "args" /\ wat' = "walk" /\ lines = <<>>
  BY DEF BeginWalk, fileVars, Fresh
<1>2. WalkTypes'
  BY WalkerTypes DEF Walker
<1>3. IsTree(dirOf)' /\ LineTypes'
  BY <1>1 DEF LineTypes, IsTree
<1>4. /\ Spine' /\ Starts' /\ CutOffs' /\ Len(stack') = 1
      /\ \A f \in Entries : Undisturbed(f) => Pending(f)'
  BY BeginKeeps DEF WalkTypes
<1>5. Counts' /\ Fresh'
  BY <1>1, BeginCounts DEF Fresh
<1>6. Listing'
  <2>1. \A f : (Undisturbed(f)' <=> Undisturbed(f))
    BY <1>1, SameAbove DEF Undisturbed
  <2>2. \A f : Shown(f)' = {}
    BY <1>1 DEF Shown
  <2> QED
    BY <1>4, <2>1, <2>2 DEF Listing, Expected, Visible
<1>7. Branches'
  BY <1>4 DEF Branches
<1> QED
  BY <1>2, <1>3, <1>4, <1>5, <1>6, <1>7

LEMMA NextEntryInv ==
  ASSUME WalkInv, now \in Nat, NextEntry
  PROVE  WalkInv'
<1> USE DEF WalkInv
<1>1. stack # <<>> /\ wat = "walk"
  BY DEF NextEntry
<1>2. Upright
  BY <1>1, WalkInvUpright
<1>3. WalkTypes' /\ stack' \in Seq(OpenDir)
  BY EntryTypes DEF WalkTypes
<1>4. PICK e \in Entries, opens \in BOOLEAN : Turn(e, opens) /\ Meets(e, opens)
  BY <1>2, EntryStep
<1>5. /\ dirOf' = dirOf /\ wat' = wat /\ Here' = Here + (IF opens THEN 1 ELSE 0)
      /\ Here \in Nat /\ Here >= 1
  BY <1>2, <1>4, UprightFacts DEF Turn
<1>6. stack' # <<>>
  BY <1>5 DEF Here
<1>7. Spine' /\ Starts' /\ CutOffs'
  BY <1>2, <1>3, <1>4, <1>6, TurnKeeps DEF Upright
<1>8. IsTree(dirOf)' /\ Fresh'
  BY <1>1, <1>5 DEF IsTree, Fresh
<1>9. Counts' /\ LineTypes' /\ Listing' /\ Branches'
  BY <1>2, <1>4, EntryCounts, EntryListing
<1> QED
  BY <1>3, <1>7, <1>8, <1>9

LEMMA EndDirInv ==
  ASSUME WalkInv, now \in Nat, EndDir
  PROVE  WalkInv'
<1> USE DEF WalkInv
<1>1. /\ stack # <<>> /\ wat = "walk"
      /\ UNCHANGED <<prog, wat, current_time, mod_count, lines, dirOf, mtime, moved, modified, changes>>
  BY DEF EndDir, fileVars
<1>2. Upright
  BY <1>1, WalkInvUpright
<1>3. WalkTypes'
  BY WalkerTypes DEF Walker
<1>4. /\ Spine' /\ Starts' /\ CutOffs'
      /\ \A f : Pending(f)' => Pending(f)
      /\ \A f \in Entries : Undisturbed(f) /\ Pending(f) => Pending(f)'
      /\ Len(stack') = Here - 1 /\ \A k \in 1 .. Here - 1 : stack'[k] = stack[k]
  BY <1>2, EndDirKeeps
<1>5. Above' = Above /\ \A f : (Undisturbed(f)' <=> Undisturbed(f))
  BY <1>1, SameAbove DEF Undisturbed
<1>6. Counts'
  BY <1>1, <1>4, QuietCounts DEF Begun, Entries
<1>7. Listing'
  BY <1>1, <1>4, <1>5, SteadyListing DEF Begun
<1>8. Branches'
  <2>1. Here \in Nat
    BY <1>2, UprightFacts
  <2>2. \A k \in 2 .. Here - 1 : k \in 2 .. Here /\ Opened(k)' = Opened(k)
    BY <1>4, <2>1 DEF Opened
  <2> QED
    BY <1>1, <1>4, <2>2 DEF Branches, Begun, Here
<1>9. IsTree(dirOf)' /\ LineTypes' /\ Fresh'
  BY <1>1 DEF IsTree, LineTypes, Fresh
<1> QED
  BY <1>3, <1>4, <1>6, <1>7, <1>8, <1>9

\* Steps that leave the directories, the file system and the results as they are.
LEMMA StillInv ==
  ASSUME WalkInv, WalkTypes',
         UNCHANGED <<stack, mod_count, lines, dirOf, mtime, current_time, moved, modified, changes>>,
         \/ wat' = wat /\ prog' = prog
         \/ wat = "walk" /\ wat' = "ended" /\ prog' = prog
         \/ wat = "off" /\ wat' = "args"
  PROVE  WalkInv'
<1> USE DEF WalkInv
<1>1. Above' = Above /\ \A f : Chain(f)' = Chain(f)
  BY SameAbove
<1>2. (\A k : Opened(k)' = Opened(k)) /\ \A k : Live(k)' <=> Live(k)
  BY DEF Opened, Live
<1>3. /\ \A f : Undisturbed(f)' <=> Undisturbed(f)
      /\ \A f : Pending(f)' <=> Pending(f)
  BY <1>1, <1>2 DEF Undisturbed, Pending
<1>4. IsTree(dirOf)' /\ LineTypes' /\ Fresh' /\ Starts'
  BY <1>2 DEF IsTree, LineTypes, Fresh, Starts
<1>5. Spine'
  BY <1>2 DEF Spine
<1>6. CutOffs'
  BY <1>1, <1>2 DEF CutOffs
<1>7. Begun' => Begun /\ prog' = prog
  BY DEF Begun
<1>8. Counts'
  <2>1. CASE Begun'
    BY <1>3, <1>7, <2>1, QuietCounts
  <2> QED
    BY <2>1 DEF Counts
<1>9. Listing'
  <2>1. CASE Begun'
    BY <1>1, <1>3, <1>7, <2>1, SteadyListing
  <2> QED
    BY <2>1 DEF Listing
<1>10. Branches'
  BY <1>2, <1>7 DEF Branches
<1> QED
  BY <1>4, <1>5, <1>6, <1>8, <1>9, <1>10

LEMMA WalkerInv ==
  ASSUME WalkInv, now \in Nat, Walker
  PROVE  WalkInv'
<1>1. CASE EndWalk
  <2>1. WalkTypes'
    BY WalkerTypes DEF WalkInv
  <2> QED
    BY <1>1, <2>1, StillInv DEF EndWalk, fileVars
<1> QED
  BY <1>1, BeginWalkInv, NextEntryInv, EndDirInv DEF Walker

LEMMA OthersInv ==
  ASSUME WalkInv, now \in Nat, Others
  PROVE  WalkInv'
<1> USE DEF WalkInv
<1>1. /\ wat = "walk" /\ changes' = changes + 1
      /\ UNCHANGED <<prog, wat, stack, current_time, mod_count, lines>>
      /\ dirOf \in [Entries -> Places] /\ mtime \in [Files -> Nat]
  BY DEF Others, WalkTypes
<1>2. WalkTypes'
  BY OthersTypes
<1>3. /\ Spine' /\ Starts' /\ CutOffs' /\ IsTree(dirOf)'
      /\ \A f \in Entries : Undisturbed(f)' =>
           /\ Undisturbed(f) /\ Above[f]' = Above[f] /\ dirOf'[f] = dirOf[f]
           /\ Pending(f)' <=> Pending(f)
      /\ \A f \in Files : Undisturbed(f)' /\ f \notin modified' =>
           f \notin modified /\ mtime'[f] = mtime[f]
  <2>1. CASE Rename
    <3>1. PICK e \in Entries, d \in Places :
            /\ MayMove(e, d)
            /\ dirOf' = [dirOf EXCEPT ![e] = d] /\ moved' = moved \cup {e}
            /\ mtime' = (IF e \in Files /\ dirOf[e] = Nowhere
                         THEN [mtime EXCEPT ![e] = tv_sec(now)] ELSE mtime)
            /\ UNCHANGED modified
      BY <2>1 DEF Rename
    <3>2. Moves(e, d)
      BY <1>1, <3>1 DEF Moves
    <3>3. \A f \in Files : Undisturbed(f)' => f # e
      BY <3>1 DEF Undisturbed
    <3>4. \A f \in Files : f # e => mtime'[f] = mtime[f]
      BY <1>1, <3>1
    <3> QED
      BY <1>1, <3>1, <3>2, <3>3, <3>4, MovesKeep, MovesTree
  <2>2. CASE Modify
    <3>1. PICK g \in Files : mtime' = [mtime EXCEPT ![g] = tv_sec(now)] /\ modified' = modified \cup {g}
                             /\ UNCHANGED <<dirOf, moved>>
      BY <2>2 DEF Modify
    <3>2. Above' = Above /\ \A f : Chain(f)' = Chain(f)
      BY <3>1, SameAbove
    <3>3. (\A k : Opened(k)' = Opened(k)) /\ \A k : Live(k)' <=> Live(k)
      BY <1>1, <3>1 DEF Opened, Live
    <3>4. (\A f : Undisturbed(f)' <=> Undisturbed(f)) /\ \A f : Pending(f)' <=> Pending(f)
      BY <1>1, <3>1, <3>2, <3>3 DEF Undisturbed, Pending
    <3>5. Spine'
      BY <1>1, <3>3 DEF Spine
    <3>6. CutOffs'
      BY <1>1, <3>1, <3>2, <3>3 DEF CutOffs
    <3>7. Starts' /\ IsTree(dirOf)'
      BY <1>1, <3>1, <3>3 DEF Starts, IsTree
    <3>8. \A f \in Files : f \notin modified' => f \notin modified /\ mtime'[f] = mtime[f]
      BY <1>1, <3>1
    <3> QED
      BY <3>1, <3>2, <3>4, <3>5, <3>6, <3>7, <3>8
  <2> QED
    BY <2>1, <2>2 DEF Others
<1>4. Counts'
  BY <1>1, <1>3, ChangeCounts DEF Entries
<1>5. Listing'
  BY <1>1, <1>3, SteadyListing DEF Begun
<1>6. Branches' /\ LineTypes' /\ Fresh'
  BY <1>1 DEF Branches, LineTypes, Fresh, Opened, Begun
<1> QED
  BY <1>2, <1>3, <1>4, <1>5, <1>6

LEMMA WalkInitInv ==
  ASSUME WalkInit
  PROVE  WalkInv
<1>1. /\ wat = "off" /\ stack = <<>> /\ lines = <<>> /\ dirOf \in Layouts
      /\ mod_count = [n \in 0 .. NUM_HOURS - 1 |-> 0]
      /\ moved = {} /\ modified = {} /\ changes = 0
  BY DEF WalkInit
<1>2. WalkTypes
  <2>1. /\ prog = "none" /\ mtime \in [Files -> Nat] /\ current_time = 0 /\ dirDepth = 0
        /\ dirOf \in [Entries -> Places]
    BY <1>1, WalkAssumption DEF WalkInit
  <2> QED
    BY <1>1, <2>1, WalkAssumption DEF WalkTypes
<1>3. IsTree(dirOf) /\ Spine /\ Fresh
  BY <1>1, WalkAssumption DEF Spine, Fresh
<1>4. LineTypes /\ Starts /\ CutOffs
  BY <1>1 DEF LineTypes, Starts, CutOffs
<1>5. Counts /\ Listing /\ Branches
  BY <1>1 DEF Counts, Listing, Branches, Begun
<1> QED
  BY <1>2, <1>3, <1>4, <1>5 DEF WalkInv

-----------------------------------------------------------------------------
(* What it says of the end, when no directory is open and nothing pending  *)

LEMMA InvCounts ==
  ASSUME WalkInv
  PROVE  CountsAreRight
<1> SUFFICES ASSUME wat = "ended", prog = "mymtimes", NEW n \in DOMAIN mod_count
             PROVE  mod_count[n] - Cardinality(Hour(n))
                      \in 0 .. (changes + 1) * Cardinality(Disturbed)
  BY DEF CountsAreRight, Disturbed
<1>1. stack = <<>> /\ mod_count[n] \in Nat /\ changes \in Nat
  BY WalkAssumption DEF WalkInv, WalkTypes
<1>2. \A f : ~Pending(f)
  BY <1>1 DEF Pending
<1>3. Done(n) = Hour(n)
  BY <1>2 DEF Done
<1>4. Waiting = {}
  BY <1>2 DEF Waiting
<1>5. Cardinality(Done(n)) \in Nat /\ Cardinality(Disturbed) \in Nat /\ Cardinality(Waiting) = 0
  BY <1>4, CountedSets, FS_EmptySet
<1>6. /\ Cardinality(Done(n)) <= mod_count[n]
      /\ mod_count[n] + Cardinality(Waiting)
           <= Cardinality(Done(n)) + (changes + 1) * Cardinality(Disturbed)
  BY DEF WalkInv, Counts, Begun
<1>7. (changes + 1) * Cardinality(Disturbed) \in Nat
  BY <1>1, <1>5
<1> QED
  BY <1>1, <1>3, <1>5, <1>6, <1>7

LEMMA InvListing ==
  ASSUME WalkInv
  PROVE  ListingIsTheTree
<1> SUFFICES ASSUME wat = "ended", prog = "mytree",
                    NEW e \in Entries, Visible(e), Above[e] \cap Locked = {}
             PROVE  \E i \in DOMAIN lines : Placed(e, i)
  BY DEF ListingIsTheTree, Placed
<1>1. ~Pending(e)
  BY DEF WalkInv, WalkTypes, Pending
<1> QED
  BY <1>1 DEF WalkInv, Listing, Expected, Begun
=============================================================================

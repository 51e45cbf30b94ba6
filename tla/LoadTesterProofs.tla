-------------------------- MODULE LoadTesterProofs --------------------------
(***************************************************************************)
(* The counter and the rate of the load tester, for any number of workers, *)
(* of requests, any rate and any payloads.                                 *)
(*                                                                         *)
(* The number of requests begun is the size of a set, Started: those that  *)
(* are being sent and those that are done.  A store adds one request to it *)
(* because no two workers have the same request and a request that is done *)
(* is nobody's; it lies below main's index because nothing is begun that   *)
(* was not submitted.                                                      *)
(***************************************************************************)
EXTENDS LoadTester, FiniteSetTheorems, TLAPS

(* What is being sent, and what has been *)
Started == {r \in Requests : Done(r)}
           \union {task[w] : w \in {v \in Workers : pc[v] = "send"}}

Most(t) == rps * (IF t > 1 THEN t ELSE 1) + 1

(* Each request is with one actor at a time, in the order of its life *)
MainBound  == at = "limit" => i < num_reqs
Submitted  == \A r \in Requests : future[r] # "none" => r < i
Queued     == \A r \in queue : future[r] = "pending"
Owned      == \A w \in Workers : pc[w] # "idle" =>
                  task[w] \in Requests /\ future[task[w]] = "running"
OneOwner   == \A v, w \in Workers :
                  pc[v] # "idle" /\ pc[w] # "idle" /\ task[v] = task[w] => v = w
Ownership  == MainBound /\ Submitted /\ Queued /\ Owned /\ OneOwner

(* A worker that is going to store has loaded what was there some time ago *)
Loaded == \A w \in Workers : pc[w] = "store" =>
              IF lost THEN reg[w] < begun ELSE reg[w] <= begun

(* Main never looks at a later time than the present *)
Held == secs <= round(now) /\ i <= Most(round(now))

TesterInv == /\ TypeOK /\ Ownership
             /\ begun = Cardinality(Started)
             /\ CountIsExact /\ Loaded /\ Held

-----------------------------------------------------------------------------
(* Arithmetic of the limiters                                              *)

LEMMA Product ==
  ASSUME NEW r \in Nat, NEW s \in Nat, NEW t \in Nat, s <= t
  PROVE  r * s \in Nat /\ r * t \in Nat /\ r * s <= r * t
<1>1. PICK d \in Nat : t = s + d
  <2>1. t - s \in Nat /\ t = s + (t - s)
    OBVIOUS
  <2> QED
    BY <2>1
<1>2. r * s \in Nat /\ r * d \in Nat /\ r * (s + d) = r * s + r * d
  OBVIOUS
<1> QED
  BY <1>1, <1>2

\* The seconds do not go back.
LEMMA RoundGrows ==
  ASSUME NEW t \in Nat
  PROVE  round(t) \in Nat /\ round(t + 1) \in Nat /\ round(t) <= round(t + 1)
BY DEF round

LEMMA MostGrows ==
  ASSUME NEW r \in Nat, rps = r, NEW s \in Nat, NEW t \in Nat, s <= t
  PROVE  Most(s) \in Nat /\ Most(s) <= Most(t)
<1> DEFINE u == IF s > 1 THEN s ELSE 1
           v == IF t > 1 THEN t ELSE 1
<1>1. u \in Nat /\ v \in Nat /\ u <= v
  OBVIOUS
<1>2. r * u \in Nat /\ r * v \in Nat /\ r * u <= r * v
  BY <1>1, Product
<1>3. Most(s) = r * u + 1 /\ Most(t) = r * v + 1
  BY DEF Most
<1> QED
  BY <1>2, <1>3

\* Main may submit one more when its limiter lets it through, be the time it
\* went by as old as it likes.
LEMMA Admitted ==
  ASSUME NEW r \in Nat, rps = r, NEW n \in Nat, NEW s \in Nat, NEW t \in Nat, s <= t,
         ~Ahead(n, s)
  PROVE  n + 1 <= Most(t)
<1> DEFINE u == IF s > 1 THEN s ELSE 1
<1>1. r * 1 = r /\ r * s \in Nat /\ r * 1 <= r * u /\ r * s <= r * u /\ r * u \in Nat
  <2>1. u \in Nat /\ 1 <= u /\ s <= u
    OBVIOUS
  <2>2. r * 1 <= r * u /\ r * s <= r * u /\ r * u \in Nat /\ r * s \in Nat
    BY <2>1, Product
  <2> QED
    BY <2>2
<1>2. n <= r \/ n <= r * s
  BY <1>1 DEF Ahead
<1>3. n <= r * u
  BY <1>1, <1>2
<1>4. Most(s) = r * u + 1
  BY DEF Most
<1>5. Most(s) <= Most(t) /\ Most(t) \in Nat
  <2>1. Most(s) <= Most(t)
    BY MostGrows
  <2>2. Most(t) \in Nat
    BY MostGrows
  <2> QED
    BY <2>1, <2>2
<1> QED
  BY <1>1, <1>3, <1>4, <1>5

\* What lies below an index is no more than the index.
LEMMA BelowIndex ==
  ASSUME NEW n \in Nat, NEW S, S \subseteq 0 .. n - 1
  PROVE  IsFiniteSet(S) /\ Cardinality(S) \in 0 .. n
<1>1. IsFiniteSet(0 .. n - 1) /\ Cardinality(0 .. n - 1) = n
  BY FS_Interval
<1>2. IsFiniteSet(S) /\ Cardinality(S) <= n
  BY <1>1, FS_Subset
<1> QED
  BY <1>2, FS_CardinalityType

-----------------------------------------------------------------------------
(* Who has a request                                                       *)

\* What Ownership and the counter need of the types.
LEMMA TypeFacts ==
  ASSUME TypeOK
  PROVE  /\ num_reqs \in Nat /\ rps \in Nat /\ now \in Nat /\ i \in 0 .. num_reqs
         /\ begun \in Nat /\ req_count \in Nat /\ lost \in BOOLEAN
         /\ queue \subseteq Requests /\ DOMAIN future = Requests /\ DOMAIN pc = Workers
         /\ DOMAIN task = Workers /\ reg \in [Workers -> Nat]
BY TesterAssumption DEF TypeOK

LEMMA OwnershipStep ==
  ASSUME TypeOK, Ownership, [Next]_vars
  PROVE  Ownership'
<1> USE TypeFacts
<1>1. ASSUME Look PROVE Ownership'
  BY <1>1 DEF Look, Ownership, MainBound, Submitted, Queued, Owned, OneOwner, workerVars, Requests
<1>2. ASSUME HoldBack PROVE Ownership'
  BY <1>2 DEF HoldBack, Ownership, MainBound, Submitted, Queued, Owned, OneOwner, workerVars
<1>3. ASSUME Submit PROVE Ownership'
  <2>1. i \in Requests /\ future' = [future EXCEPT ![i] = "pending"] /\ i' = i + 1
        /\ future[i] = "none" /\ queue' = queue \union {i} /\ at' = "submit"
        /\ UNCHANGED <<pc, task>>
    BY <1>3 DEF Submit, Ownership, MainBound, Submitted, Requests, workerVars
  <2>2. Submitted'
    BY <2>1 DEF Ownership, Submitted, Requests
  <2>3. Queued'
    BY <2>1 DEF Ownership, Queued, Requests
  <2>4. Owned' /\ OneOwner'
    BY <2>1 DEF Ownership, Owned, OneOwner, Requests
  <2> QED
    BY <2>1, <2>2, <2>3, <2>4 DEF Ownership, MainBound
<1>4. ASSUME UNCHANGED <<i, future, queue, pc, task>>,
             at' = at \/ at' # "limit"
      PROVE  Ownership'
  BY <1>4 DEF Ownership, MainBound, Submitted, Queued, Owned, OneOwner, Requests
<1>5. ASSUME NEW w \in Workers, Take(w) PROVE Ownership'
  <2>1. PICK r \in queue : /\ queue' = queue \ {r} /\ task' = [task EXCEPT ![w] = r]
                           /\ future' = [future EXCEPT ![r] = "running"]
    BY <1>5 DEF Take
  <2>2. /\ r \in Requests /\ future[r] = "pending" /\ UNCHANGED <<at, i>>
        /\ pc' = [pc EXCEPT ![w] = "limit"]
    BY <1>5, <2>1 DEF Take, Goto, mainVars, Ownership, Queued
  <2>3. MainBound' /\ Submitted' /\ Queued'
    BY <2>1, <2>2 DEF Ownership, MainBound, Submitted, Queued, Requests
  <2>4. \A v \in Workers : pc[v] # "idle" => task[v] # r
    BY <2>2 DEF Ownership, Owned
  <2>5. Owned' /\ OneOwner'
    BY <2>1, <2>2, <2>4 DEF Ownership, Owned, OneOwner, Requests
  <2> QED
    BY <2>3, <2>5 DEF Ownership
<1>6. ASSUME NEW w \in Workers, NEW l \in {"limit", "load", "store", "send"}, pc[w] # "idle",
             pc' = [pc EXCEPT ![w] = l], UNCHANGED <<at, i, future, queue, task>>
      PROVE  Ownership'
  BY <1>6 DEF Ownership, MainBound, Submitted, Queued, Owned, OneOwner, Requests
<1>7. ASSUME NEW w \in Workers, Raise(w) \/ Answer(w) PROVE Ownership'
  <2>1. PICK a \in {"ok", "failed", "raised"} : future' = [future EXCEPT ![task[w]] = a]
    BY <1>7 DEF Raise, Answer, Finish
  <2>2. /\ pc[w] = "send" /\ pc' = [pc EXCEPT ![w] = "idle"]
        /\ task' = [task EXCEPT ![w] = 0] /\ UNCHANGED <<at, i, queue>>
        /\ task[w] \in Requests /\ future[task[w]] = "running"
    BY <1>7 DEF Raise, Answer, Finish, Goto, mainVars, Ownership, Owned
  <2>3. MainBound' /\ Submitted' /\ Queued'
    BY <2>1, <2>2 DEF Ownership, MainBound, Submitted, Queued, Requests
  <2>4. \A v \in Workers : v # w /\ pc[v] # "idle" => task[v] # task[w]
    BY <2>2 DEF Ownership, OneOwner
  <2>5. Owned' /\ OneOwner'
    BY <2>1, <2>2, <2>4 DEF Ownership, Owned, OneOwner, Requests
  <2> QED
    BY <2>3, <2>5 DEF Ownership
<1>8. CASE UNCHANGED vars
  BY <1>8, <1>4 DEF vars, mainVars, workerVars
<1>9. CASE Main
  BY <1>9, <1>1, <1>2, <1>3, <1>4
     DEF Main, WaitForCount, Counted, PrintRate, Join, ComputePerformance, vars, mainVars, workerVars
<1>10. ASSUME NEW w \in Workers, Worker(w) \/ Answer(w) PROVE Ownership'
  <2>1. CASE Sleep(w)
    BY <2>1, <1>4 DEF Sleep, mainVars
  <2>2. CASE Pass(w) \/ LoadCount(w) \/ StoreCount(w)
    BY <2>2, <1>6 DEF Pass, LoadCount, StoreCount, Goto, mainVars
  <2> QED
    BY <1>10, <1>5, <1>7, <2>1, <2>2 DEF Worker
<1>11. CASE Tick \/ Over
  BY <1>11, <1>4 DEF Tick, Over, vars, mainVars, workerVars
<1> QED
  BY <1>8, <1>9, <1>10, <1>11 DEF Next

-----------------------------------------------------------------------------
(* The requests begun and the counter                                      *)

LEMMA StartedBelow ==
  ASSUME TypeOK, Ownership
  PROVE  Started \subseteq 0 .. i - 1
BY TypeFacts DEF Started, Done, Ownership, Submitted, Owned, Requests

\* A store begins one request more, and no other step begins any.
LEMMA StartedStep ==
  ASSUME TypeOK, Ownership, [Next]_vars
  PROVE  \/ Started' = Started /\ UNCHANGED <<begun, lost, req_count>>
         \/ \E w \in Workers : /\ StoreCount(w) /\ task[w] \in 0 .. i - 1
                               /\ task[w] \notin Started /\ Started' = Started \union {task[w]}
<1> USE TypeFacts
<1>1. ASSUME UNCHANGED <<future, pc, task>> PROVE Started' = Started
  BY <1>1 DEF Started, Done, Requests
<1>2. ASSUME Submit PROVE Started' = Started /\ UNCHANGED <<begun, lost, req_count>>
  <2>1. i \in Requests /\ future' = [future EXCEPT ![i] = "pending"] /\ future[i] = "none"
        /\ UNCHANGED <<pc, task, begun, lost, req_count>>
    BY <1>2 DEF Submit, Ownership, MainBound, Submitted, Requests, workerVars
  <2>2. \A r \in Requests : Done(r)' <=> Done(r)
    BY <2>1 DEF Done
  <2> QED
    BY <2>1, <2>2 DEF Started, Requests
<1>3. ASSUME NEW w \in Workers, Take(w)
      PROVE  Started' = Started /\ UNCHANGED <<begun, lost, req_count>>
  <2>1. PICK r \in queue : /\ task' = [task EXCEPT ![w] = r]
                           /\ future' = [future EXCEPT ![r] = "running"]
    BY <1>3 DEF Take
  <2>2. /\ future[r] = "pending" /\ pc[w] = "idle" /\ pc' = [pc EXCEPT ![w] = "limit"]
        /\ UNCHANGED <<begun, lost, req_count>>
    BY <1>3 DEF Take, Goto, Ownership, Queued
  <2>3. \A s \in Requests : Done(s)' <=> Done(s)
    BY <2>1, <2>2 DEF Done
  <2>4. \A v \in Workers : /\ pc'[v] = "send" <=> pc[v] = "send"
                           /\ pc[v] = "send" => task'[v] = task[v]
    BY <2>1, <2>2
  <2> QED
    BY <2>2, <2>3, <2>4 DEF Started, Requests
<1>4. ASSUME NEW w \in Workers, NEW l \in {"limit", "load", "store"}, pc[w] # "send",
             pc' = [pc EXCEPT ![w] = l], UNCHANGED <<future, task>>
      PROVE  Started' = Started
  <2>1. \A v \in Workers : pc'[v] = "send" <=> pc[v] = "send"
    BY <1>4
  <2> QED
    BY <1>4, <2>1 DEF Started, Done, Requests
<1>5. ASSUME NEW w \in Workers, StoreCount(w)
      PROVE  /\ task[w] \in 0 .. i - 1 /\ task[w] \notin Started
             /\ Started' = Started \union {task[w]}
  <2>1. /\ pc[w] = "store" /\ pc' = [pc EXCEPT ![w] = "send"] /\ UNCHANGED <<future, task>>
        /\ task[w] \in Requests /\ future[task[w]] = "running"
    BY <1>5 DEF StoreCount, Goto, Ownership, Owned
  <2>2. task[w] \in 0 .. i - 1
    BY <2>1 DEF Ownership, Submitted, Requests
  <2>3. \A v \in Workers : pc[v] = "send" => task[v] # task[w]
    BY <2>1 DEF Ownership, OneOwner
  <2>4. task[w] \notin Started
    BY <2>1, <2>3 DEF Started, Done
  <2>5. \A v \in Workers : pc'[v] = "send" <=> pc[v] = "send" \/ v = w
    BY <2>1
  <2>6. Started' = Started \union {task[w]}
    BY <2>1, <2>5 DEF Started, Done, Requests
  <2> QED
    BY <2>2, <2>4, <2>6
<1>6. ASSUME NEW w \in Workers, Raise(w) \/ Answer(w)
      PROVE  Started' = Started /\ UNCHANGED <<begun, lost, req_count>>
  <2>1. PICK a \in {"ok", "failed", "raised"} : future' = [future EXCEPT ![task[w]] = a]
    BY <1>6 DEF Raise, Answer, Finish
  <2>2. /\ pc[w] = "send" /\ pc' = [pc EXCEPT ![w] = "idle"]
        /\ task' = [task EXCEPT ![w] = 0] /\ task[w] \in Requests
        /\ UNCHANGED <<begun, lost, req_count>>
    BY <1>6 DEF Raise, Answer, Finish, Goto, Ownership, Owned
  <2>3. \A r \in Requests : Done(r)' <=> Done(r) \/ r = task[w]
    BY <2>1, <2>2 DEF Done
  <2>4. \A v \in Workers : /\ pc'[v] = "send" <=> pc[v] = "send" /\ v # w
                           /\ v # w => task'[v] = task[v]
    BY <2>2
  <2>5. \A r : r \in Started' <=> r \in Started
    BY <2>2, <2>3, <2>4 DEF Started, Requests
  <2> QED
    BY <2>2, <2>5
<1>7. CASE UNCHANGED vars
  BY <1>7, <1>1 DEF vars, workerVars
<1>8. CASE Main
  BY <1>8, <1>1, <1>2
     DEF Main, Look, HoldBack, WaitForCount, Counted, PrintRate, Join, ComputePerformance,
         vars, workerVars
<1>9. ASSUME NEW w \in Workers, Worker(w) \/ Answer(w)
      PROVE  \/ Started' = Started /\ UNCHANGED <<begun, lost, req_count>>
             \/ StoreCount(w)
  <2>1. CASE Sleep(w)
    BY <2>1, <1>1 DEF Sleep
  <2>2. CASE Pass(w) \/ LoadCount(w)
    BY <2>2, <1>4 DEF Pass, LoadCount, Goto
  <2> QED
    BY <1>9, <1>3, <1>6, <2>1, <2>2 DEF Worker
<1>10. CASE Tick \/ Over
  BY <1>10, <1>1 DEF Tick, Over, vars, workerVars
<1> QED
  BY <1>5, <1>7, <1>8, <1>9, <1>10 DEF Next

\* The counter, what the workers have loaded of it, and the requests begun,
\* which are at most the requests submitted.
LEMMA CounterStep ==
  ASSUME TesterInv, [Next]_vars
  PROVE  /\ begun' = Cardinality(Started') /\ begun' \in 0 .. i
         /\ CountIsExact' /\ Loaded' /\ req_count' \in 0 .. begun'
<1> USE TypeFacts DEF TesterInv
<1>1. IsFiniteSet(Started) /\ begun \in 0 .. i
  BY StartedBelow, BelowIndex
<1>2. CASE Started' = Started /\ UNCHANGED <<begun, lost, req_count>>
  <2>1. ASSUME NEW v \in Workers
        PROVE  \/ pc'[v] # "store"
               \/ pc[v] = "store" /\ reg'[v] = reg[v]
               \/ reg'[v] = req_count
    <3>1. CASE \E w \in Workers : Worker(w) \/ Answer(w)
      BY <3>1, <1>2 DEF Worker, Take, Pass, Sleep, LoadCount, StoreCount, Raise, Answer, Finish, Goto
    <3>2. CASE ~\E w \in Workers : Worker(w) \/ Answer(w)
      BY <3>2 DEF Next, Main, Look, HoldBack, Submit, WaitForCount, Counted, PrintRate, Join,
                  ComputePerformance, Tick, Over, vars, workerVars
    <3> QED
      BY <3>1, <3>2
  <2>2. Loaded'
    BY <1>2, <2>1 DEF Loaded, CountIsExact
  <2> QED
    BY <1>1, <1>2, <2>2 DEF CountIsExact, TypeOK
<1>3. ASSUME NEW w \in Workers, StoreCount(w), task[w] \in 0 .. i - 1,
             task[w] \notin Started, Started' = Started \union {task[w]}
      PROVE  /\ begun' = Cardinality(Started') /\ begun' \in 0 .. i
             /\ CountIsExact' /\ Loaded' /\ req_count' \in 0 .. begun'
  <2>1. /\ pc[w] = "store" /\ req_count' = reg[w] + 1 /\ begun' = begun + 1
        /\ lost' = (lost \/ req_count # reg[w]) /\ pc' = [pc EXCEPT ![w] = "send"]
        /\ reg' = reg
    BY <1>3 DEF StoreCount, Goto
  <2>2. begun' = Cardinality(Started')
    BY <1>1, <1>3, <2>1, FS_AddElement
  <2>3. begun' \in 0 .. i
    BY <1>3, <2>2, StartedBelow, BelowIndex
  <2>4. reg[w] \in Nat /\ reg[w] <= begun /\ (lost => reg[w] < begun)
    BY <2>1 DEF Loaded
  <2>5. CountIsExact'
    <3>1. CASE lost'
      BY <2>1, <2>4, <3>1 DEF CountIsExact
    <3>2. CASE ~lost'
      BY <2>1, <2>4, <3>2 DEF CountIsExact
    <3> QED
      BY <3>1, <3>2
  <2>6. Loaded'
    BY <2>1 DEF Loaded
  <2> QED
    BY <2>1, <2>2, <2>3, <2>4, <2>5, <2>6
<1> QED
  BY <1>2, <1>3, StartedStep

-----------------------------------------------------------------------------
(* The types, and main's index against the clock                           *)

LEMMA TypeStep ==
  ASSUME TesterInv, [Next]_vars
  PROVE  TypeOK'
<1> USE TypeFacts DEF TesterInv
<1>1. i' \in 0 .. num_reqs /\ i <= i' /\ rps' = rps
  BY DEF Next, Main, Look, HoldBack, Submit, WaitForCount, Counted, PrintRate, Join,
         ComputePerformance, Worker, Take, Pass, Sleep, LoadCount, StoreCount, Raise, Answer, Finish, Tick,
         Over, vars, mainVars, workerVars, Ownership, MainBound
<1>2. begun' \in 0 .. num_reqs /\ req_count' \in 0 .. begun'
  BY <1>1, CounterStep
<1>3. round(now) \in Nat
  BY RoundGrows
<1>4. /\ now' \in 0 .. MaxNow /\ secs' \in Nat /\ lost' \in BOOLEAN
      /\ at' \in {"submit", "limit", "rate", "join", "compute", "ended", "crashed"}
  <2>1. CASE \E w \in Workers : Worker(w) \/ Answer(w)
    BY <2>1 DEF TypeOK, Worker, Take, Pass, Sleep, LoadCount, StoreCount, Raise, Answer, Finish, mainVars
  <2>2. CASE Main
    BY <1>3, <2>2 DEF TypeOK, Main, Look, HoldBack, Submit, WaitForCount, Counted, PrintRate,
         Join, ComputePerformance, vars, mainVars, workerVars
  <2>3. CASE Tick \/ Over \/ UNCHANGED vars
    BY <2>3, TesterAssumption DEF TypeOK, Tick, Over, vars, mainVars, workerVars
  <2> QED
    BY <2>1, <2>2, <2>3 DEF Next
<1>5. ASSUME NEW w \in Workers, Worker(w) \/ Answer(w)
      PROVE  /\ queue' \subseteq Requests
             /\ future' \in [Requests -> {"none", "pending", "running", "ok", "failed", "raised"}]
             /\ pc' \in [Workers -> {"idle", "limit", "load", "store", "send"}]
             /\ task' \in [Workers -> Requests \union {0}]
             /\ n_sec' \in [Workers -> Nat] /\ reg' \in [Workers -> Nat]
  <2>1. CASE Take(w)
    BY <1>3, <2>1 DEF Take, Goto, TypeOK
  <2>2. CASE Pass(w) \/ Sleep(w) \/ LoadCount(w) \/ StoreCount(w)
    BY <1>3, <2>2 DEF Pass, Sleep, LoadCount, StoreCount, Goto, TypeOK
  <2>3. CASE Raise(w) \/ Answer(w)
    BY <2>3 DEF Raise, Answer, Finish, Goto, TypeOK
  <2> QED
    BY <1>5, <2>1, <2>2, <2>3 DEF Worker
<1>6. CASE ~\E w \in Workers : Worker(w) \/ Answer(w)
  <2>1. UNCHANGED <<pc, task, n_sec, reg>>
    BY <1>6 DEF Next, Main, Look, HoldBack, Submit, WaitForCount, Counted, PrintRate, Join,
                ComputePerformance, Tick, Over, vars, workerVars
  <2>2. \/ UNCHANGED <<queue, future>>
        \/ /\ i \in Requests /\ queue' = queue \union {i}
           /\ future' = [future EXCEPT ![i] = "pending"]
    BY <1>6 DEF Next, Main, Look, HoldBack, Submit, WaitForCount, Counted, PrintRate, Join,
                ComputePerformance, Tick, Over, vars, Ownership, MainBound, Requests
  <2> QED
    BY <1>1, <1>2, <1>4, <2>1, <2>2 DEF TypeOK
<1>7. CASE \E w \in Workers : Worker(w) \/ Answer(w)
  BY <1>1, <1>2, <1>4, <1>5, <1>7 DEF TypeOK
<1> QED
  BY <1>6, <1>7

LEMMA HeldStep ==
  ASSUME TesterInv, [Next]_vars
  PROVE  Held'
<1> USE TypeFacts DEF TesterInv
<1>1. round(now) \in Nat /\ secs \in Nat /\ Most(round(now)) \in Nat
  BY RoundGrows, MostGrows DEF TypeOK
<1>2. CASE Submit
  <2>1. i + 1 <= Most(round(now))
    BY <1>1, <1>2, Admitted DEF Submit, Held
  <2> QED
    BY <1>2, <2>1 DEF Submit, Held, Most, round
<1>3. CASE Tick
  <2>1. round(now) <= round(now + 1) /\ round(now + 1) \in Nat
    BY RoundGrows
  <2>2. Most(round(now)) <= Most(round(now + 1)) /\ Most(round(now + 1)) \in Nat
    BY <1>1, <2>1, MostGrows
  <2>3. secs <= round(now + 1) /\ i <= Most(round(now + 1))
    BY <1>1, <2>1, <2>2 DEF Held
  <2>4. round(now)' = round(now + 1) /\ Most(round(now))' = Most(round(now + 1))
    BY <1>3 DEF Tick, round, Most, mainVars
  <2> QED
    BY <1>3, <2>3, <2>4 DEF Tick, Held, mainVars
<1>4. CASE ~Submit /\ ~Tick
  <2>1. /\ UNCHANGED <<now, rps, i>>
        /\ secs' = secs \/ secs' = round(now)
    BY <1>4 DEF Next, Main, Look, HoldBack, WaitForCount, Counted, PrintRate, Join,
         ComputePerformance, Worker, Take, Pass, Sleep, LoadCount, StoreCount, Raise, Answer, Finish,
         Over, vars, mainVars
  <2>2. round(now)' = round(now) /\ Most(round(now))' = Most(round(now))
    BY <2>1 DEF round, Most
  <2> QED
    BY <1>1, <2>1, <2>2 DEF Held
<1> QED
  BY <1>2, <1>3, <1>4

-----------------------------------------------------------------------------
(* The theorems                                                            *)

LEMMA InitTesterInv ==
  ASSUME Init
  PROVE  TesterInv
<1>1. TypeOK
  <2>1. rps \in Rates /\ now \in 0 .. MaxNow /\ i \in 0 .. num_reqs /\ begun \in 0 .. num_reqs
    BY TesterAssumption DEF Init
  <2>2. req_count \in 0 .. begun /\ secs \in Nat
    <3>1. req_count = 0 /\ begun = 0 /\ secs = 0
      BY DEF Init
    <3> QED
      BY <3>1
  <2>4. lost \in BOOLEAN
    BY DEF Init
  <2>3. /\ future \in [Requests -> {"none", "pending", "running", "ok", "failed", "raised"}]
        /\ pc \in [Workers -> {"idle", "limit", "load", "store", "send"}]
        /\ task \in [Workers -> Requests \union {0}]
        /\ n_sec \in [Workers -> Nat] /\ reg \in [Workers -> Nat]
    BY DEF Init
  <2> QED
    BY <2>1, <2>2, <2>3, <2>4 DEF Init, TypeOK
<1>2. Ownership
  BY DEF Init, Ownership, MainBound, Submitted, Queued, Owned, OneOwner
<1>3. begun = Cardinality(Started)
  <2>1. Started = {}
    BY DEF Init, Started, Done
  <2> QED
    BY <2>1, FS_EmptySet DEF Init
<1>4. CountIsExact /\ Loaded
  BY DEF Init, CountIsExact, Loaded
<1>5. Held
  <2>1. round(0) \in Nat /\ round(0) = 0
    BY DEF round
  <2>2. rps \in Nat /\ Most(0) = rps * 1 + 1 /\ rps * 1 \in Nat
    BY TesterAssumption DEF Init, Most
  <2> QED
    BY <2>1, <2>2 DEF Init, Held
<1> QED
  BY <1>1, <1>2, <1>3, <1>4, <1>5 DEF TesterInv

(* The inductive invariant holds in every reachable state.                  *)
LEMMA Invariance == Spec => []TesterInv
<1>1. TesterInv /\ [Next]_vars => TesterInv'
  BY OwnershipStep, CounterStep, TypeStep, HeldStep DEF TesterInv
<1> QED
  BY <1>1, InitTesterInv, PTL DEF Spec

(* Everything has its type; in particular no more requests begin than there  *)
(* are, and the counter never shows more than have begun (api_tester.py:99). *)
THEOREM TesterTypes == Spec => []TypeOK
BY Invariance, PTL DEF TesterInv

(* The counter is exact until the first lost update, and less ever after: it *)
(* cannot catch up, however many workers race (api_tester.py:99).            *)
THEOREM CountTheorem == Spec => []CountIsExact
BY Invariance, PTL DEF TesterInv

(* The limit holds for every rate and every interleaving of main with the    *)
(* workers, by main's own limiter alone (api_tester.py:191).                 *)
THEOREM RateTheorem == Spec => []RateIsKept
<1>1. TesterInv => RateIsKept
  <2>1. SUFFICES ASSUME TesterInv PROVE RateIsKept
    OBVIOUS
  <2>2. begun \in 0 .. i /\ begun \in Nat /\ i \in Nat
    BY <2>1, TypeFacts, StartedBelow, BelowIndex DEF TesterInv
  <2>3. i <= Most(round(now)) /\ Most(round(now)) \in Nat
    BY <2>1, TypeFacts, RoundGrows, MostGrows DEF TesterInv, Held
  <2>4. RateIsKept <=> begun <= Most(round(now))
    BY DEF RateIsKept, Most
  <2> QED
    BY <2>2, <2>3, <2>4
<1> QED
  BY <1>1, Invariance, PTL
=============================================================================

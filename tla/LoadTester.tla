----------------------------- MODULE LoadTester -----------------------------
(***************************************************************************)
(* The load tester of the term project (api_tester.py).  The main thread   *)
(* submits the requests to a pool, at most `rps' for each second since the *)
(* start, waits until the counter says that all have begun, then until all *)
(* are done, and adds the results up.  Each worker holds its request back  *)
(* while the counter is ahead of the seconds, counts it, and sends it.     *)
(* The lock around this is commented out (83, 125): `req_count += 1' loads *)
(* and stores.                                                             *)
(*                                                                         *)
(* time.time() counts thirds of a second, so that round() has no ties.     *)
(* The server is external: a request is answered, well or not, or fails,   *)
(* and nobody knows when.  It has no timeout, so that it may also wait for *)
(* its answer for ever.                                                    *)
(***************************************************************************)
EXTENDS Integers, FiniteSets

CONSTANTS Workers,     \* the threads of the pool, max_threads of them
          num_reqs,
          Rates,       \* the values of rps that the configuration may have
          BadRequests, \* requests whose payload is not JSON
          MaxNow       \* bound: the clock stops there

ASSUME TesterAssumption ==
    /\ num_reqs \in Nat /\ Rates \subseteq Nat \ {0} /\ MaxNow \in Nat
    /\ BadRequests \subseteq 0 .. num_reqs - 1
    /\ 2 * MaxNow >= 6 * num_reqs   \* late enough for the limiters

VARIABLES
    rps,         \* requests per second, never changed
    now,         \* time.time() - start
    at, i,       \* where the main thread is; its loop index
    secs,        \* main's n_sec
    req_count,
    queue,       \* requests submitted and not taken by a worker
    future,      \* what has become of each request
    pc, task,    \* where each worker is; its request
    n_sec, reg,  \* a worker's n_sec, and what `+=' has loaded
    begun,       \* ghost: requests counted
    lost         \* ghost: a store has overwritten another worker's

mainVars   == <<rps, at, i, secs>>
workerVars == <<pc, task, n_sec, reg, req_count, begun, lost>>
vars == <<now, mainVars, workerVars, queue, future>>

Requests == 0 .. num_reqs - 1
round(t) == (2 * t + 3) \div 6

Init ==
    /\ rps \in Rates
    /\ now = 0 /\ at = "submit" /\ i = 0 /\ secs = 0 /\ req_count = 0
    /\ queue = {} /\ future = [r \in Requests |-> "none"]
    /\ pc = [w \in Workers |-> "idle"] /\ task = [w \in Workers |-> 0]
    /\ n_sec = [w \in Workers |-> 0] /\ reg = [w \in Workers |-> 0]
    /\ begun = 0 /\ lost = FALSE

Ahead(n, seconds) == n > rps /\ n > rps * seconds

Goto(w, l) == pc' = [pc EXCEPT ![w] = l]
----------------------------------------------------------------------------
(* The main thread *)

(* The head of the loop over the requests, and of its limiter *)
Look ==
    /\ at = "submit" /\ i < num_reqs
    /\ secs' = round(now) /\ at' = "limit"
    /\ UNCHANGED <<now, rps, i, workerVars, queue, future>>

(* The time is read BEFORE the sleep of a second *)
HoldBack ==
    /\ at = "limit" /\ Ahead(i, secs)
    /\ secs' = round(now)
    /\ UNCHANGED <<now, rps, at, i, workerVars, queue, future>>

\* Mutant: main does not hold back.
SubmitAlways ==
    /\ at = "limit"
    /\ queue' = queue \union {i} /\ future' = [future EXCEPT ![i] = "pending"]
    /\ i' = i + 1 /\ at' = "submit"
    /\ UNCHANGED <<now, rps, secs, workerVars>>

(* executor.submit *)
Submit ==
    /\ at = "limit" /\ ~Ahead(i, secs)
    /\ queue' = queue \union {i} /\ future' = [future EXCEPT ![i] = "pending"]
    /\ i' = i + 1 /\ at' = "submit"
    /\ UNCHANGED <<now, rps, secs, workerVars>>

(* `while req_count < num_reqs': print and sleep *)
WaitForCount ==
    /\ at = "submit" /\ i = num_reqs /\ req_count < num_reqs
    /\ UNCHANGED vars

(* `while req_count < num_reqs' is over *)
Counted ==
    /\ at = "submit" /\ i = num_reqs /\ req_count >= num_reqs
    /\ at' = "rate"
    /\ UNCHANGED <<now, rps, i, secs, workerVars, queue, future>>

(* RPS: a division by zero when all have begun in half a second *)
PrintRate ==
    /\ at = "rate"
    /\ at' = IF round(now) = 0 THEN "crashed" ELSE "join"
    /\ UNCHANGED <<now, rps, i, secs, workerVars, queue, future>>

Done(r) == future[r] \in {"ok", "failed", "raised"}

(* The loop over thread.done() *)
Join ==
    /\ at = "join" /\ \A r \in Requests : Done(r)
    /\ at' = "compute"
    /\ UNCHANGED <<now, rps, i, secs, workerVars, queue, future>>

(* compute_performance, shutdown: result() raises what the worker raised, or *)
(* waits for a worker that is not done                                       *)
ComputePerformance ==
    /\ at = "compute" /\ \A r \in Requests : Done(r)
    /\ at' = IF \E r \in Requests : future[r] = "raised" THEN "crashed" ELSE "ended"
    /\ UNCHANGED <<now, rps, i, secs, workerVars, queue, future>>

Main == Look \/ HoldBack \/ Submit \/ WaitForCount \/ Counted \/ PrintRate \/ Join \/ ComputePerformance
----------------------------------------------------------------------------
(* A worker: test *)

(* The pool gives requests out in their order *)
Take(w) ==
    /\ pc[w] = "idle" /\ queue # {}
    /\ \E r \in queue :
        /\ \A s \in queue : r <= s
        /\ queue' = queue \ {r} /\ task' = [task EXCEPT ![w] = r]
        /\ future' = [future EXCEPT ![r] = "running"]
    /\ n_sec' = [n_sec EXCEPT ![w] = round(now)]
    /\ Goto(w, "limit")
    /\ UNCHANGED <<now, mainVars, reg, req_count, begun, lost>>

\* Mutant: a worker that is held back never looks at the clock again.
SleepForever(w) ==
    /\ pc[w] = "limit" /\ Ahead(req_count, n_sec[w])
    /\ UNCHANGED vars

Pass(w) ==
    /\ pc[w] = "limit" /\ ~Ahead(req_count, n_sec[w])
    /\ Goto(w, "load")
    /\ UNCHANGED <<now, mainVars, queue, future, task, n_sec, reg, req_count, begun, lost>>

(* The time is read before the sleep here, too *)
Sleep(w) ==
    /\ pc[w] = "limit" /\ Ahead(req_count, n_sec[w])
    /\ n_sec' = [n_sec EXCEPT ![w] = round(now)]
    /\ UNCHANGED <<now, mainVars, queue, future, pc, task, reg, req_count, begun, lost>>

LoadCount(w) ==
    /\ pc[w] = "load" /\ Goto(w, "store")
    /\ reg' = [reg EXCEPT ![w] = req_count]
    /\ UNCHANGED <<now, mainVars, queue, future, task, n_sec, req_count, begun, lost>>

\* Mutant: two are added.
StoreTwice(w) ==
    /\ pc[w] = "store" /\ Goto(w, "send")
    /\ req_count' = reg[w] + 2
    /\ begun' = begun + 1 /\ lost' = (lost \/ req_count # reg[w])
    /\ UNCHANGED <<now, mainVars, queue, future, task, n_sec, reg>>

StoreCount(w) ==
    /\ pc[w] = "store" /\ Goto(w, "send")
    /\ req_count' = reg[w] + 1
    /\ begun' = begun + 1 /\ lost' = (lost \/ req_count # reg[w])
    /\ UNCHANGED <<now, mainVars, queue, future, task, n_sec, reg>>

(* test is over, and the worker is free *)
Finish(w, result) ==
    /\ pc[w] = "send" /\ Goto(w, "idle")
    /\ future' = [future EXCEPT ![task[w]] = result]
    /\ task' = [task EXCEPT ![w] = 0] /\ n_sec' = [n_sec EXCEPT ![w] = 0]
    /\ reg' = [reg EXCEPT ![w] = 0]
    /\ UNCHANGED <<now, mainVars, queue, req_count, begun, lost>>

(* json.loads raises *)
Raise(w) == task[w] \in BadRequests /\ Finish(w, "raised")

(* The server answers, or the connection to it fails *)
Answer(w) ==
    task[w] \notin BadRequests /\ \E result \in {"ok", "failed"} : Finish(w, result)

(* What a worker does by itself *)
Worker(w) == Take(w) \/ Pass(w) \/ Sleep(w) \/ LoadCount(w) \/ StoreCount(w) \/ Raise(w)

Tick == now < MaxNow /\ now' = now + 1 /\ UNCHANGED <<mainVars, workerVars, queue, future>>

(* The program is over *)
Over == at \in {"ended", "crashed"} /\ UNCHANGED vars

Next == Main \/ (\E w \in Workers : Worker(w) \/ Answer(w)) \/ Tick \/ Over

(* Every thread runs and time passes; an answer need not come *)
Fairness == WF_vars(Main) /\ WF_vars(Tick) /\ \A w \in Workers : WF_vars(Worker(w))

Spec == Init /\ [][Next]_vars /\ Fairness
----------------------------------------------------------------------------
(* Properties *)

TypeOK ==
    /\ rps \in Rates /\ now \in 0 .. MaxNow /\ i \in 0 .. num_reqs /\ secs \in Nat
    /\ at \in {"submit", "limit", "rate", "join", "compute", "ended", "crashed"}
    /\ req_count \in 0 .. begun /\ begun \in 0 .. num_reqs /\ lost \in BOOLEAN
    /\ queue \subseteq Requests
    /\ future \in [Requests -> {"none", "pending", "running", "ok", "failed", "raised"}]
    /\ pc \in [Workers -> {"idle", "limit", "load", "store", "send"}]
    /\ task \in [Workers -> Requests \union {0}] /\ n_sec \in [Workers -> Nat] /\ reg \in [Workers -> Nat]

(* The counter is the number of requests that have begun, unless two        *)
(* workers were inside `req_count += 1' (api_tester.py:99) at once: it then *)
(* is less and stays less.                                                  *)
CountIsExact == IF lost THEN req_count < begun ELSE req_count = begun

(* No more requests have begun than the limit allows for the seconds that   *)
(* have passed, and the one that is let through when the two are equal: main *)
(* (api_tester.py:191) goes by what it has submitted, so this holds even     *)
(* when the counter of the workers (89) has lost some.                       *)
RateIsKept == begun <= rps * (IF round(now) > 1 THEN round(now) ELSE 1) + 1

(* Main ends, with its report or with an exception, unless the counter has  *)
(* lost a request, when main waits for ever (api_tester.py:217), or some    *)
(* request is never answered (105-115).  Neither the limiters, at whichever *)
(* time they have read the clock, nor what has raised keeps main waiting.   *)
(* The exceptions are a worker's, or come of less than half a second.       *)
TesterEnds ==
    \/ <>(at \in {"ended", "crashed"} \/ lost)
    \/ \E w \in Workers : <>[](pc[w] = "send")
============================================================================

# A TLA+ model of CPDP

CPDP is a collection of programs written for a systems course and its term project:

| Program | Sources | Model |
|---|---|---|
| chat server | `Project3/server.cpp`, `server.h`, `common.cpp` | `ChatServer`, `Session` |
| chat client | `Project3/client.cpp`, `client.h` | `ChatLink` |
| shell (`mytoolkit`) | `Project2/main.c`, `processor.c`, `cmd.c`, `util.c`, `executor.c` | `Shell` |
| online marketplace (Spring) | `Term Project/omp/` | `Marketplace`, `Inventory` |
| API load tester | `Term Project/api_tester/api_tester.py` | `LoadTester` |
| `mytimeout` | `Project2/mytimeout.c` | `Timeout` |
| `mytree`, `mymtimes` | `Project1/mytree.c`, `mymtimes.c` | `Walk` |
| `mytime` | `Project1/mytime.c` | `MyTime` |

All paths below are relative to `src/`. The programs share no code and never talk to each
other, apart from the chat client with its server (TCP), the load tester with the
marketplace (HTTP), and `mytime`, which runs any of the small tools in a child. So there are
six models: the chat server, the client with its link, the marketplace, the shell, the load tester, and
the small tools under `mytime`; the modules that say what a component
*promises*, and those that prove it, are built on them.

## 1. Inventory

### Chat server
*State.* The descriptor sets `master` and `read_fds`, the vector `activeconnections`, one heap
`Connection` per client (socket, user name, `loggged_in`, `exiting`), the id counter. *Operations.*
The main thread's loop (copy `master`, `select`, `accept`, `FD_SET`, `push_back`, start a reader); each
reader's loop (poll `read_fds`, `recv`, `login`, `logout`, `chat` to one or to all, and the
tear-down: `FD_CLR`, sleep, `close`, find, `erase`, tell the others); `exit_server` from SIGINT or a `select` error.
*Interaction.* Every thread reads and writes all of the state; the mutex is commented out
(`server.cpp:147`). *Hard.* Every interleaving of readers with each other and with the main
thread; a descriptor number that is reused while the old reader still tears down; indices into a vector that
another thread shifts; a client that disappears in the middle of a command, or stays and stops reading, so that `send` blocks; SIGINT at any time.
*Correct means:* `select` runs on the sockets in service and on no closed one; the vector lists
each connection once; names are unique among the logged in; a broadcast reaches everybody; a
hang-up is noticed; `exit_server` ends the process.

### Chat client
*State.* `exiting`, `logged_in`. *Operations.* The main thread reads lines and decides from
`logged_in` what may be sent; the reader thread receives packets and sets `logged_in` by searching their
text; both may run `exit_client`. *Hard.* recv splits and joins packets; replies are on their way
while the next line is typed; the server ends at any moment. *Correct means:* `logged_in` follows the
session the server has; the client ends when it or its server leaves.

### Shell
*State.* Its token list, its descriptors (files of redirections, pipe ends), the child it
waits for. *Operations.* Builtins, one command, redirections, a pipeline. *Hard.* Which process has which end
of which pipe open when; a pipe's capacity; a failure after a file was opened. *Correct means:* a
pipeline delivers what its first command wrote, the prompt returns, no descriptor stays open,
a command gets its arguments.

### Marketplace
*State.* Tables of users, products (with a quantity) and orders, one session per request.
*Operations.* Place and update an order (several repository calls, `@Transactional` commented out), add/update/delete of
products, users and orders (transactions), reads. *Hard.* Requests that overlap; a call that fails
after an earlier one is committed; entities that go stale in a session. *Correct means:* stock and orders agree; no
product is sold beyond its quantity.

### API load tester
*State.* `req_count`, the list of futures, the pool's queue; each worker's `n_sec`. *Operations.* Main submits
requests, holds them back by its own index, waits for the counter, prints the rate, waits for
the futures and adds up; a worker holds back by the counter, counts, sends. *Hard.* The lock is
commented out, so `+= 1` overlaps with itself; clocks are read before sleeps; a request has no timeout. *Correct means:* the count is
the number of requests begun, the rate is kept, the program ends.

### Small tools
*State.* `mytimeout`: the alarm, `cid`. `mytree`, `mymtimes`: the open directories, `dirDepth`, `mod_count`.
`mytime`: the first reading of the clock. *Operations.* `mytimeout` sets an alarm, forks, waits, and its handler
kills and exits; the walks open, read and close directories, recursively; `mytime` forks, waits, and
subtracts. *Interaction.* `mytime` is the parent of any of the others; the walks share the file system with everybody.
*Hard.* SIGALRM between `fork` and the assignment, and after `waitpid`; names that move while a directory is
read; a clock read in two fields. *Correct means:* the alarm ends the command and nobody else; what
stays in place is counted and listed once; the times are those of the command.

### Not modelled
The search and read-only endpoints change nothing; start-up code and entities have no behaviour
of their own; `mypwd` prints what `getcwd` returns. Of modelled programs these are left out on purpose: the configuration files and
the set-up of sockets (`server_init`, `client_init`, `read_config`), which run once before there is anything to
interleave with; the shell's working directory, `PWD` and `PATH` (each file name would have to be a path relative to it, and none of
the shell's descriptors depends on it) and `get_char_input`, which collects one line; negative quantities in
the marketplace, which the proofs' types exclude; a `fork` or `pipe` of the shell that fails (`Shell!Fork`), and a root that a walk
cannot open (`Walk!BeginWalk`; directories below it may be locked); the statistics of the load tester; memory management, the text of messages and formatting;
torn reads of a `std::string` (undefined behaviour whose outcomes cannot be enumerated).

## 2. Modules

| Module | What it is |
|---|---|
| `ChatServer` | the threads of the server and the kernel objects they use |
| `Session` | the abstract specification: who is there, and who is logged in under which name |
| `ChatSession` | the refinement of `Session`, and what is said of messages on their way |
| `MCChatServer` | values for TLC, and the start from a room that has filled up |
| `ChatServerProofs` | proofs: types, the descriptor sets, the vector of connections and the loops over it |
| `ChatSessionProofs` | proofs: names and logins, messages, the end of the process; the server implements `Session` |
| `ChatLink`, `MCChatLink` | one client, both directions of its TCP stream, and the session the server keeps for it |
| `ChatLinkProofs` | proofs: types, the client's flag, the server's session |
| `Inventory` | the abstract specification: a sale changes orders and stock in one step; what else the shop does to them |
| `Marketplace`, `MCMarketplace` | the endpoints, one action per repository call, and the refinement of `Inventory` |
| `MarketplaceProofs` | proofs: types, freshness of what a handler read, never oversold, what updates do not book; the handlers implement `Inventory` |
| `Shell`, `MCShell` | the shell, the child it waits for, and pipes and files between them |
| `ShellProofs` | proofs: types, what arrives, who holds which end of a pipe, what is lost, what arguments a redirected command gets, that no line goes on for ever |
| `LoadTester`, `MCLoadTester` | the load tester's main thread and workers |
| `LoadTesterProofs` | proofs: types, the counter, the rate |
| `Clock` | the clock and the two fields of a `struct timeval` |
| `Timeout` | `mytimeout` and its command; on `Clock` |
| `Walk` | `mytree` and `mymtimes`, and those who change the tree meanwhile; on `Clock` |
| `MyTime`, `MCMyTime` | `mytime`, composed with `Timeout` and `Walk` as what it runs |
| `WalkProofs` | proofs: finite trees, what a walk has still to come by, and with it what is counted and listed |
| `MyTimeProofs` | proofs: types of all three, who is killed and who outlives, the times, the counts and the listing |

`PROJECT.json` maps each definition to its source lines. Definitions whose comment begins with
*Mutant* are plausible bugs; no specification uses them, and each shows that a property would notice.

### ChatServer and the code
One action is one access to shared state that another thread can fall between. `FD_SET` and
`FD_CLR` are a load and a store of one word (`reg`, `mainReg`): `Accept` and `RecvEnd` load, `SetBit` and `ClearBit`
store. The loops over `activeconnections` (`get_user_connection`, the search in
`read_from_client`, the broadcast) take one step per iteration (`ScanUser`, `FindSelf`, `BroadcastStep`).
A login writes name and flag in two steps (`SetName`, `SetFlag`). `push_back`, `erase` and one indexed access are single
steps. `pc[c]` names the place of reader `c`; `peer[c]` and `inbox[c]` are the client's end of the
connection, with FIN and RST apart, because a send to a reset connection raises
SIGPIPE and ends the process. `lostUpdate`, `stray`, `shifted`, `owed`, `unsure` are history variables: they restrict nothing and
only name the degradations that the properties must allow, so that a property says exactly
*which* race it needs to be broken.

`Send` is the blocking `send` of `common.cpp:27`. A client may stop reading (`StopReading`: `peer` is `deaf`); for a while the buffers
have room, how long is open, and then they are full (`full`): whoever sends to him waits in `send`, until he reads again (`ResumeReading`) or
goes. So one such client holds up his own reader and every other one that broadcasts, with everything those readers have still to do. `Stallers`
bounds who may stop reading. A send that blocks is to the state a send that comes late, so the runs of safety properties have
nobody there, and `chat_live` has one client.

`Session` has `Join`, `Login`, `Logout` and `Depart` as single steps, the login with the condition that nobody else
has the name. `ChatSession` maps the state to it: a client is there while the vector lists it, and is
logged in under its name while its flag is set. So the login takes place at `SetFlag`, the logout at
`LogoutCheck` (the flag goes first, the name after), and all else stutters.

Timing: `THREAD_WAIT` (100 ms) is longer than `SELECT_WAIT`, and the code relies on it. The model
has it as: a napping reader wakes when the main thread has copied `master` afresh, so a `select`
that was begun before the `FD_CLR` is over by the time of `close`.

### ChatLink and the code
A packet is 10 000 bytes, `recv` asks for 100 000: one call may return a part or several. A packet is
two chunks (head with the text, tail), `recv` takes any number and looks at the first chunk. `Type` is
`process_command`, `Receive` is `process_server_message` with `check_log_status`; `Leave`,
`CheckExiting`, `ReadFromServer` and `Die` are the two threads' ways into and through `exit_client`.
`wanted` and `unheard` are history of the way up, as `lost` and `misread` are of the way down: together
`SessionFollowsLines` and `FlagFollowsServer` say that the lines, the session and the flag agree, and name all the
ways in which they may not. Of a text the model keeps what it is meant to tell the client (`means`) and what the client's `strstr` finds in it
(`reads`). The server quotes: the client's own name in the answers to login and logout, with the words that `username` has, the text of a chat to
oneself, and what other users say or are called. So a user whose name contains ` login successful.` logs out and is told so, and his client
reads that he is logged in; no other user and no lost packet is needed. Left out: the bytes of an
uninitialised rest of a buffer. Over-approximated: a send after the server has gone may or may not be the one that
raises SIGPIPE; a reset may drop data the client has not read.

### Marketplace and the code
`Receive`, `FindOrder`, `FindUser`, `FindProduct` (with the check of the quantity), `InsertOrder` / `MergeOrder` /
`UpdateOrder` and `SaveProduct` are the repository calls of `placeOrder` and `updateOrder`, in the order of
the code, each a transaction of its own. The entities found stay in the request's session (`item`,
`ord`); a `save` writes *all* columns as they were read with the changed quantity, and nothing when
nothing differs, which is how Hibernate's dirty check works. That is why the update of a quantity is lost: line 95 changes the order
entity before line 98 subtracts its quantity. `Fail` is a repository call that throws, at any place.
The other endpoints are one action each. `doubt[p]` is history: what has
put the stock of `p` out of step with the orders (`overlap`, `broken`, `replaced`, `amended`); `SupplyProduct` sets the
stock anew and clears it. Left out: negative quantities, address and status fields, the auto-increment value that a failed insert uses up.

`Inventory` has the sale as a single step, `Sell(p, n)` (`Place` with some order number), and apart from it `Manage`, what the shop itself does:
`Forget`, `Supply` and `Withdraw`. The refinement is by actor: a step of a worker leaves the mapped state as it is, or is
`Sell(p, n)` with exactly the product and the quantity of that worker's request, never a supply; a step of any other endpoint is `Manage`. So a `SaveProduct`
that takes the wrong amount, or puts stock back, is no step of `Inventory`. An update that changes an order puts its product in doubt (`amended`): nothing
is promised of it until it is supplied. The mapping takes the quantity of an order off the shelf at the moment the order row is saved:
`Shelf[p]` is the row's quantity less what a worker has saved as an order and not yet as a product.

### Shell and the code
`at` is the place in the code, `cmds`, `cmdIndex` and `pipeIndex` are the variables of `executePiping`, `fdo`, `fdi`
those of the redirection (`None` for -1), `rd` and `wr` the pipe ends the shell has open. The shell
has one child at a time, because it waits for each command before the next `fork`; the child's wiring
(`Wired`: `WireInput` and `WireOutput`) uses its copies of the descriptors at the fork, and what the shell closes meanwhile (`ShellKeeps`) interleaves.
`remove_tokens` removes by equality (`Without`), so a word that equals the file's name goes in its place.
The commands are external: a writer, a filter, one that reads a chunk and ends, one that is not found.

### LoadTester and the code
`at` is the place of the main thread, `pc[w]` that of a worker. `req_count += 1` is `LoadCount` and `StoreCount`; the
rest of a loop's turn is a step (`Look` and `HoldBack` read the clock, before the sleep as the code does). The time is
since `start`, in thirds of a second, so that Python's `round` meets no ties. The marketplace is the environment:
a request is answered, well or not (`Answer`), or never, since `requests.get`, `put` and `post` are called without a timeout.
That `json.loads` raises (`Raise`) is the worker's own step; after either the worker is free (`Finish`). `begun` and `lost` are history.

### The small tools and the code
`Timeout`: `fork`'s result (`forked`) and its assignment to `cid` are two steps; `Alarm` may fire at every place from its
time on, and `Handler` is the whole handler. What `kill` reaches is recorded in `victims`: the command, everybody (-1), or a
stranger (a pid that has been freed). The command is external: found or not, deaf to SIGTERM or not, and using anything from nothing to `Processors` units of processor time in a unit
of time, since it may have threads or children that it waits for.

`Walk`: `stack` holds the open directories of the recursion, each with the path it was opened by and the inode it has
since; a path is looked up name by name. `NextEntry` is one turn of the loop, with either program's body (`CountEntry`,
`ShowEntry`) and the call it makes (`Descend`); `EndDir` is the return. `readdir` may leave out what came or went after `opendir`, and
nothing else (`Returnable`, `Owed`). `Others` rename, create, remove and modify.

`MyTime`: `ReadBegin`, `ForkTool`, `WaitTool`, `PrintTimes`. `RUSAGE_CHILDREN` has what was waited for, all the way
down: the usage of `mytimeout`'s command only if `mytimeout` waited, and then all of it. The seconds and the rest are subtracted each on their own (`Times`).

## 3. Runs

Every run is exhaustive within its bounds.

| Run | Asks | Bounds |
|---|---|---|
| `chat_conn` | do the descriptor sets and the vector stay right? | 3 connections on 2 descriptors, 3 hang-ups, SIGINT, no commands |
| `chat_users` | are the sessions those of `Session`, when can two users share a name, or one be logged in without? | 2 connections, 3 commands of all kinds, 1 hang-up, 1 name |
| `chat_room` | whom does a broadcast miss, and who else gets a message? | 3 connections, 2 or 3 of them in the room, 2 commands, 1 hang-up |
| `chat_live` | are hang-ups, commands and exit dealt with, and what else ends the server? | a room of 2, one of whom may stop reading, 2 logouts, 1 hang-up; the exit is that of a failed `select` |
| `link` | does the session follow the lines, does the client know whether it is logged in, and does it end? | 3 lines, some with words in them, 1 packet of others |
| `market` | do the handlers implement the inventory, and what do updates do to it? | 2 workers, 1 user, 2 products, 2 orders, 3 order requests, 1 other, quantities 1 and 2 |
| `shell` | does every line deliver and return to the prompt? | 23 kinds of line in any sequence, pipes of 2 chunks, up to 3 written, 2 descriptors lost |
| `tools` | who is killed, what is counted, listed and timed, and does it end? | 3 directories, 3 files, 2 changes, 4 readings of the clock, 2 in a second, 2 processors |
| `tester` | is the count right, is the rate kept, does it end? | 2 workers, 3 requests at 1 or 3 a second, 9 readings of the clock |
| `chat_unique`, `chat_select`, `market_oversell` | (violations, section 6) | the smallest that show it |

Distinct states: `chat_conn` 1.4 million, `chat_users` 3.2, `chat_room` 2.9, `chat_live` 0.1, `market` 1.0, `link` 0.4,
`tools` 0.5, `tester` 0.1, `shell` 57 thousand. The longest takes about two minutes with two TLC workers; `tlc -config chat_conn.cfg MCChatServer`
runs one, `tlapm ChatServerProofs.tla` checks the proofs of a module.

*Why these are enough.* Three connections on two descriptors is the least at which a descriptor is
reused while another connection is alive, and at which two overlapping `FD_SET`/`FD_CLR` and a third
party exist. The races of names take two logins, or a login and an erase; one
name and two clients have them. A broadcast skips somebody when an entry before its index goes: three entries (one
sender, one leaving, one skipped). `chat_room` starts from a room of three, or of two with a third to come, states that
connections, registrations and logins one after the other reach, to spend the bound on the overlap; the third takes over
the number of one who has left while a private chat to him is on its way. For the stock, two
workers are all that one product's window can tell apart, and a second product shows that the reasons are
kept per product; two orders are in the table at most (`MaxOrders`), and the third request is one that is refused, fails or
comes after an order was removed. In `link` three
lines allow login, logout, login with replies outstanding; a login under a name that says ` login successful.` and a chat to oneself that says
` logout successful.` are among them, and one packet of others lets recv swallow a verdict. In `chat_live` the room's two clients
are what it takes for one to hold up the other's reader. In `tools` the run starts half a second before the clock's second turns; a directory in a directory can be moved above,
below and away while both are open, and two changes are enough to take a file out of the walk's way and back into
it. In `tester` two workers are all that one `+=` can tell apart, and the third request makes the limiter of 1 hold back. In `shell`
three chunks into pipes of two is the least that blocks; three pipes are one more than the README of Project2 allows.
Workers are interchangeable and labels are only compared, which is why `market` uses symmetry; it checks an action property and no liveness.

*What the properties say* is with their definitions. Most have the form *unless this race happened, this
holds*; the races are history variables, and the violation runs show that the exception is real.

`shell` is the one run without deadlock checking: the shell ends by `myexit`, and a pipeline it
cannot serve leaves it waiting for ever.

## 4. Fairness

`ChatServer`: weak fairness of the main thread and of each reader, since they are kernel threads that
are never disabled for good except by the calls they block in, and `send` to a client that does not read is one. `ChatLink`: of both programs' threads
apart from typing. `Shell`: of the shell while it has a line, and of its child. `LoadTester`: of the main thread, each
worker's own steps (not of an answer) and the clock. `MyTime`: of `mytime`, `mytimeout`, the walks and the clock, but not of the command,
which may never end. Nothing is assumed of clients, users, the operator, failures, or of
a room's other members, and those who change files. All liveness is stated *unless degraded*: the server is exiting or an update of
`master` was lost, or the reader waits in `send` for a client that does not read (`Held`); a pipe is full and its reader is not yet forked; the
counter has lost a request, or a request is never answered; `mytimeout` has killed everybody.

## 5. Proofs

TLAPS checks these for every value of the constants: any number of connections, descriptors and names; of lines
and packets; of workers, rows and requests; commands of any number of pipes, pipes of any capacity; any tree of directories,
any clock. They assume only the named assumptions on constants (`ConstantAssumption`, `LinkAssumption`, `MarketAssumption`,
`ShellAssumption`, `TesterAssumption`, `ClockAssumption`, `TimeoutAssumption`, `WalkAssumption`, `ToolsAssumption`), which TLC
evaluates in the runs. They are about types and bounds; the bounds of time are late enough for the alarm (`TimeoutAssumption`) and for the
limiters (`TesterAssumption`), and the layouts of the file system
are trees with finitely many files (`IsTree`: every set of directories has one whose parent is not in it, and nothing is in a directory that is gone). Hardly any property of the runs is inductive as it stands; each
proof has an invariant of named parts, and below is what they are and why they are needed.

### Chat server
* `ChatServerProofs!TypeCorrect`: that `nextId` stays in range and that `accept` has a connection to take depends on
  `AcceptsOnlyQueued`, which counts the connections made, queued and accepted.
* `MasterIsExact`, `SelectIsSafe`: `master` is exactly the sockets in service, and `select`
  never runs on a closed or reused descriptor, while no update of `master` was lost. The inductive invariant `FdInv`
  has four parts: `ReaderPhases` (a reader that tears down has been told to by its own `recv`),
  `DescriptorsOwned` (each socket that is not closed belongs to one connection, so a reused number cannot be two
  connections' at once), `MasterTracksSockets`, and `WatchedHaveSockets` (whatever `select` was given
  has not been closed since). The last is where the sleep counts: a napping reader has not closed, and it wakes
  only when `master`, without its bit, is copied again.
* `RegistryTheorem`, `EraseTheorem`, `BroadcastTheorem`: the vector lists everybody once until an erase strays; a reader whose search no
  erase has disturbed erases itself; a broadcast misses only those whom an erase has moved. `RegistryInv` has the vector without
  repetitions and equal, as a set, to those who are registered and not gone; `LoopInv` says of each reader what its index means: a search has passed only
  others, a broadcast has what it owes at or after its index. The lemmas under them say which entries `RemoveAt` leaves, and where.
* `ChatSessionProofs!UniqueTheorem`, `NamedTheorem`: two logged in under one name, or one under none, only after a race. `NamesInv` adds
  what a scan knows (`ScanKnows`: nobody before its index has the name, unless the reader is `unsure`), what
  is so from the end of the scan to the flag (`NameFree`), and `Rivals` (of two who write names at the same
  time, one is unsure). The step that needs it is `SetFlag`, long after the entries were looked at.
* `MessagesTheorem`, `FallsTheorem`: `OwnersInv` has `FdOwners` and `SockOrder` (a number that is reused goes to a later client), so that a
  message reaches its addressee until the addressee's reader has closed; and SIGPIPE needs a client that was reset and is not yet closed.
* `SessionTheorem`: `Spec => Session!SessionInit /\ KeepsSessions`, the refinement of `Session`, step by step: `Register` is `Join`, `SetFlag` is
  `Login` (its guard is `NameFree`), `LogoutCheck` is `Logout`, `Erase` is `Depart` (`ErasesItself`), all else leaves the mapped state as it is.

### Chat client
* `ChatLinkProofs!LinkTypes`, `FlagTheorem`, `SessionLineTheorem`: the first says with `InHand` that the server takes no command before it has answered the last.
  The other two are about streams: the flag the client *will* have once all that is under way has come
  (`Outcome`: the last verdict in the stream decides) equals the session, and the session once all commands have been taken is what the lines make of
  it. Both are inductive with the types; the lemmas `OutcomePacket` and `OutcomeDrop` say how `Outcome` changes when the stream
  grows at its end and shrinks at its head, and what it is when a part of it is dropped.

### Marketplace
* `MarketplaceProofs!TypeCorrect`, `WindowsAreFresh`, `NeverOversold`: `TypeInv` adds to the types what a handler
  knows at each place (`Phase`) and that a deleted product's id is not given again (`IdsAreOld`, without which a
  product could come back under a handler). `WindowIsFresh` is then inductive: between reading
  and saving a product the entity is the row, and no other worker is there, unless that product's
  doubt says `overlap`. `NotOversold` follows, as the quantity was checked on that very row.
* `UpdatesTheorem`: no update books its difference, whatever interleaves, since the difference is taken from the entity that already has the new quantity.
* `ImplementsInventory`: `Spec => BooksLikeInventory`: while no product that is there is in doubt, a worker's step is nothing to `Inventory`
  or the sale of exactly what was requested, and every other endpoint's is `Manage`. It uses `StockInv` (the two above and
  that order ids are not given twice) and computes `Shelf` in both states of a step: `InsertOrder` is `Sell` (`InsertSells`), `SaveProduct` stutters
  as the row takes over exactly what the mapping subtracted (`Booked`), `HandleMoves` has the others.

### Shell
* `ShellProofs!ShellTypes`, `ArrivalTheorem`, `EndTheorem`, `LosesTheorem`, from `ShellInv`: `Lists` (`cmds` is the line split at its pipes, the indices inside it), `Children`
  (what a child is doing at each place of the shell), `Wiring` (which ends of which pipe the shell and the child have at each place) and `Flow`
  (chunks written are those read, in buffers, in hand, and arrived; an empty pipe with no writer means that everything went on). `Wiring` is the part the
  three properties rest on, and the part that is false for three pipes: with two, the closes of `executor.c` reach all ends.
* `ArgumentsTheorem`, from `Arguments`: after each redirection the command is the line's tokens at the positions (`Rest`) that the marks dealt with so far
  leave. Where the tokens are in the line is a strictly increasing function onto those positions (`Selects`), so no induction over the tokens is needed:
  `DropToken` gives the function of the rest when the one token that is equal to a given one goes, `NextToken` says that the name found behind a mark is the one behind it in the
  line, and `OneRedirection` puts two removals together. That a file's name is no mark (`cmd > < x`) is a hypothesis the proof asked for: the property without it is false.
* `FiniteTheorem`: every step between a line and the next prompt lowers `Rank`, a triple of naturals (what the shell has still to do, what its child has, the
  chunks to move), for lines of any length. It is the half of `PromptReturns` that is a safety property: a line may get stuck, but it cannot go on for ever. `Streams` is the invariant: nobody
  reads the pipe he writes to, and a filter between one file and itself finds it empty, since `>` emptied it first.

### Load tester
* `LoadTesterProofs!TesterTypes`, `CountTheorem`, `RateTheorem`, from `TesterInv`: `Ownership` (a request is in one place: not sent yet, in the queue, or with one
  worker), `begun` is the number of those started, `Loaded` (a worker between load and store has the count as it is, unless another stored
  meanwhile), and `Held` (at the end of the limiter's loop the requests handed out so far fit into the time that has passed).

### Small tools
* `MyTimeProofs!MyTimeTypes` has the types of `mytime`, `mytimeout` and the walks together: that `dirDepth` never goes below zero is that it
  counts the open directories.
* `KilledTheorem`, `OutlivesTheorem`: `Signals` says what `cid` and `forked` can be where (zero, -1 or the pid), and so whom a `kill` at
  each place reaches; `Command` what the command may be doing meanwhile.
* `TimesTheorem`: what is printed as user time is all that a command used that was waited for, and nothing of one that `mytimeout` killed; a run in which
  something was killed is as long as the timeout; and no more is printed than `Processors` of them could use. `Clocks` orders begin, fork, alarm and end and bounds the command's time, `Sheet` says what `RUSAGE_CHILDREN` has by then; `FieldsDiffer` shows that
  subtracting seconds and microseconds apart, as `mytime.c` does, gives the right sum for every resolution of the clock, though the parts need not be in range.
* `CountTheorem`, `ListingTheorem`, from `WalkInv` in `WalkProofs`, for any finite tree and any number of changes. The idea is `Pending`: the way down to an entry branches off
  at an open directory that is still where it was opened (`Live`), by a name that has not been returned there. `Counts` says that in each hour
  the files that are no longer pending have been counted, and of the disturbed ones each at most once for every change before and once more if it is not pending now. `Listing` says that what is
  visible and not pending stands in the listing once, at its depth and in its directory's part (`Placed`), and `Branches` that only deeper
  lines have come behind that of an open directory, so that a new line belongs to it. Under both are `Spine` (each open directory was returned by the one before it, and the path is their names),
  `Starts` (what nobody has moved is where it was when its directory was opened) and `CutOffs` (an open directory stops being live only if it or one above was moved).
* The lemmas about trees: `Above` is a recursive function that follows the parents; `TreeInduction` takes a *set* of entries instead of a predicate, so that it needs no
  operator as a parameter, and gives `UpsCompose`, `NotAboveItself` and `StaysTree` (moving an entry to a directory that is not below it leaves a tree).
  `OpenedOnce` and `LiveDepth` follow: no directory is open twice, and the depth of a live one is its index.

Each inductive invariant was model-checked as well, on the constants of its component's runs (for the chat server `chat_conn`, `chat_users` and `chat_room`), and so was `LinesAreFinite`.

*Only model-checked:* liveness (`HangUpIsCleanedUp`, `CommandIsTaken`, `ExitCompletes`, `ClientEnds`, `PromptReturns`, `ToolEnds`, `TesterEnds`), which is
outside the prover, as `ENABLED` is. Every safety property of the runs that pass is a theorem.

## 6. Where code and documentation disagree

| Run | What it shows |
|---|---|
| `chat_unique` | `server.cpp:261` says a name that is present is refused; the check and the write at 266 are not one step, and two overlapping logins share a name |
| `chat_select` | `server.cpp:182` promises that the sleep avoids a `select` error; a lost `FD_CLR` brings the bit back, and `select` fails on the closed descriptor |
| `market_oversell` | `OrderController.java:70` says the stock is checked; two overlapping orders are checked against the same row and both saved |

More are stated as exceptions of properties, or as properties:

* a text of another user, or a name or a chat of one's own, that contains ` login successful.` changes the client's `logged_in`, though `client.cpp:222` speaks of
  the *server's response* (`misread` in `FlagFollowsServer`);
* `OrderController.java:98` subtracts a difference that line 95 has made zero: updates never change the stock (`UpdatesBookNothing`);
* a command that writes more than a pipe holds never returns the prompt (`executor.c:179`), and a file that cannot be
  opened behind `<` leaves the one behind `>` open (`executor.c:58`);
* `mytimeout.c:11` says the alarm kills the child; it does not when it comes before `cid` is set (`OutlivesOnlyIfMissed`), and kills
  others when `fork` failed or the child is already waited for (`OnlyTheCommandIsKilled`);
* `mytime.c:39` prints negative microseconds when the clock has passed a second (the two fields together are right, which is all that `TimesAreOfTheRun`
  says), `mymtimes.c:74` counts files of the next hour
  in the last (`CountsAreRight`);
* `api_tester.py:217` waits for ever when `req_count` has lost an increment, and 223 divides by zero when all requests begin within half a
  second; and it waits for ever for a request that is never answered, as `api_tester.py:105`, 110 and 115 set no timeout (`TesterEnds`).

## 7. What is left

Every program of the table is modelled, and every safety property is proved. Not done, in the order of their worth:

1. The abstract specifications themselves: that `Session` keeps names unique, that `Inventory` sells only what is in the catalogue (`OrdersHaveProducts`).
2. Ranks for the other programs, as `FiniteTheorem` has one for the shell: how many turns a reader of the chat server can take before it blocks.
3. Negative quantities in the marketplace, and torn reads of a user name in the chat server.

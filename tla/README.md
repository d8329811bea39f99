# TLA+ models of the many-core task simulator

The repository is a discrete-event simulator. It reads a configuration (JSON), a
graph of tasks and the operations of each task (CSV), runs the tasks on a number of
simulated cores in front of a simulated memory hierarchy, and reports how many cycles
it took. This directory holds TLA+ modules that model the program, configurations that
check them with TLC, and proofs of the most important properties for TLAPS.

Source lines are quoted as `File.cpp:line`, relative to `src/`.

## 1. The system

### Components

| component | state | operations |
|---|---|---|
| **Event queue** (`EventQueue.hpp`) | a `std::priority_queue` of events ordered by time alone | `push`, `pop`, `empty` |
| **Task graph** (`TaskGraph.cpp`) | tasks with their operations; instances with `inDegree`, `currentOpIndex`, `readyTime`, `dispatchTime`, `doneTime`, `successors` | `loadFromCSV`, `buildDAG` (with `detectCycles`), `getReadyInstances`, `markInstanceComplete`, `getOps` |
| **Scheduler** (`Scheduler.cpp`) | ready queue, an idle flag per core, the round-robin position, the policy | `addReady`, `selectNextInstance`, `selectIdleCore`, `dispatch`, `releaseCore` |
| **Core** (`Core.cpp`) | busy flag, current instance | `executeOp`, `completeOp` |
| **Simulator** (`Simulator.cpp`) | the time `now`, and one of each of the others | `initialize`, `run`, six event handlers |
| **Memory system** (`MemorySystem.cpp`) | the optional DTCM and cache, the interconnect, the banks | `issueRequest`, which routes to one of three handlers, each ending in `completeRequest` |
| **DTCM, cache** | an address range; LRU list and map | `inRange`; `lookup`, `insert` |
| **Interconnect, banks** (`Interconnect.cpp`, `MemoryBank.cpp`) | queues of requests, busy flag and `busyUntil`, ports, counters | `calculateLatency`, `enqueue`, `arbitrate`; `getBankIndex`, `receiveRequest`, `serviceRequest` |
| **Main memory** (`MainMemory.cpp`) | a sparse store | constructed, never accessed |
| **Configuration** (`Config.cpp`) | the parameters, two vectors that map cores and banks to chiplets | `loadFromFile`, `initializeChipletMappings`, `validate` |
| **Statistics** (`StatsCollector.cpp`) | ready times, wait times, latencies, counters | `onEvent`, `record...`, the reports |
| **JSON reader** (`JSONParser.hpp`) | a position in the text, the containers it is in (as recursion) | `parseFile`, `parseValue` and one function per kind of value |
| **CSV reader** (`CSVParser.hpp`) | the line, whether it is inside quotes | `parseCSV`, `parseLine` |
| **Command line** (`main.cpp`) | the arguments | parsing, the exit code |

### How they interact

The program is one thread. `run()` pops an event, sets `now` to its time and calls one
handler, which runs to its end; nothing else runs meanwhile. Handlers call the other
components directly and talk to the future only by pushing events:

    TaskReady --> TaskDispatched --> { ComputeDone | MemReqIssued --> MemRespDone }* --> TaskDone
        ^                                                                                  |
        +------------------ one for every instance that became ready ----------------------+

The memory system answers through a callback that pushes the `MemRespDone` event before
`issueRequest()` returns. A handler that throws ends the program with exit code 1.

### What is hard

There are no threads, no lost messages and nothing that survives a crash. What is hard is
the *order of events*: the comparator of the queue ignores everything but the time, so
events of the same cycle come in an order that nobody chose, and with two cores and
short operations nearly everything happens in the same cycle as something else.
The same facts are kept by several classes (a core is taken according to the scheduler,
the core itself and the event in flight; an instance is announced according to its
`readyTime`, the ready queue and the events), and no class checks the other.

The other hard part is input. The readers are written by hand, are lenient in places
nobody chose, and let many odd workloads and configurations through.

The interconnect and the banks are half in use: the memory system fills their queues and
computes the answer itself, and `arbitrate()` and `serviceRequest()` are called by nothing.
Their protocol - what a refused call leaves behind, in which order requests are served,
when a bank is free again - is nevertheless there, in three variants.

What makes each component correct:

- *Event queue*: never an event in the past, time never goes back.
- *Task graph*: what the files say is what is loaded, or nothing is; an instance starts
  only after everything it depends on; the in-degree is the number of dependencies left;
  exactly the cyclic graphs are rejected.
- *Scheduler*: an instance is dispatched once, never to a busy core, and no ready
  instance waits beside an idle core; idle cores take turns; the policy is the one
  documented.
- *Core*: one instance at a time, each operation once; no handler throws.
- *Simulator*: the run ends, everything has been executed, and the makespan is one that
  list scheduling allows.
- *Memory system*: every request gets exactly one answer, never before the request;
  what the DTCM serves goes nowhere else.
- *Interconnect, banks*: each request is carried and served once, in order, and no more at
  a time than the policy allows.
- *Cache*: exactly the most recently used addresses, and list and map agree.
- *JSON reader, configuration*: a file is read as the grammar says or rejected; what is
  accepted says what the text says, and can be simulated.
- *Statistics*: the report is about the run that took place.

## 2. The modules

    EventQueue   TaskGraph ------- CycleDetection -- TaskLoader -- CSVReader
        |            |
       Core      Scheduler     Address --- DTCM, MemoryBank   Interconnect   Config     Cache
         \        /                  \___________\_______________\__________/          |  \
          Simulator                                   Latency       Selection          |  LruInclusion
           |   |   \                              /      |      \    /     |           |
           |   |    MemorySystem ----------------/-------|-------\--/      |           |
           |   |     |   \                               |        MemoryDevices        |
           |   |     |    \______________________________|_____________________________/
           |   |   CacheHistory                          |
           |   |                                    ConfigLoader
           |   |                                   /            \
           |   |                          ConfigFile            JSONGrammar
           |   |                                   \            /
           |   SimulatorProperties --- TaskExecution (abstract)  JSONReader
           |      |          \
           |   Makespan   StatsCollector
           |
    SimulatorProofs -- MemorySystemProofs, ReportProofs (StatsCollector and Makespan)
    SequenceProofs -- SimulatorProofs, LruInclusionProofs, MemoryDevicesProofs,
                      TaskLoaderProofs, ConfigLoaderProofs

**`EventQueue`** is the priority queue as a *bag* of events. `Earliest` is the set of
events `pop()` may return; TLC and the proofs follow every one, which covers every order
the binary heap can produce. The `context` field is never read and is left out. A time is
a `uint64_t`, to which the core adds an `int` that may be negative; here it is an
integer in which a negative `t` stands for 2^64 + t, so sums are the code's, and `Before`
compares as the code does. This is exact while times stay within 2^63 of zero.

**`TaskGraph`** models what `loadFromCSV()` leaves behind (a *workload*: the rows of
the tasks file in order, the operations per id) and what `buildDAG()` makes of it. The duration of an operation is any
integer, as for the loader; `NonNegativeDurations` is the hypothesis under which time advances.
Instance `<<r, n>>` is the n-th execution of row `r`. The in-degree and the successors
are computed the way the code does, forwards from the first row with an id and
backwards over the adjacency list, so that disagreement between them is visible.

**`CSVReader`** and **`TaskLoader`** are the way from two files to that workload. A line
is a sequence of tokens (comma, quote, semicolon, blank, word, number, address), which is
all that splitting, trimming and converting tell apart. `TaskLoader` has the statements of
`loadFromCSV()` in their order, each of which may throw, and the sort by `seq_idx` as a
choice among all the arrangements an unstable sort can give.

**`CycleDetection`**, which follows, unfolds the recursive search into its stack, one step
per loop iteration, to check the verdict that `TaskGraph!HasCycle` takes for granted.

**`Scheduler`** and **`Core`** are operators on the state: what `selectNextInstance()`
selects, what `selectIdleCore()` returns, the event `executeOp()` schedules.

**`Simulator`** has the variables and one action per handler, each the whole handler
with every call it makes. A call that may throw has a disjunct for it (`phase` becomes
`"aborted"`). The latency of a memory request is any of `MemLatencies`.

**`TaskExecution`** is the abstract specification: every instance goes from waiting to
running to done, after its dependencies and on a limited number of cores, and all get
there. **`SimulatorProperties`** states the properties and the refinement mapping;
**`Makespan`** the bounds of list scheduling.

**`MemorySystem`** is the simulator with the choice of latency replaced by the memory
system: DTCM, cache and banks decide it from the configuration, the address and the
contents of the cache. **`Latency`** is the part that depends on no state; **`DTCM`**,
**`Cache`**, **`Interconnect`**, **`MemoryBank`** hold what each class contributes, and
**`Address`** the arithmetic of fixed width. **`Selection`** says what it is to be some
of the entries of a sequence in their order, which is how the queues are compared.
**`CacheHistory`** adds a history variable to the memory system, the addresses asked of the
cache, and says what the cache should hold. **`LruInclusion`** is two caches side by side.

**`MemoryDevices`** is the interconnect and the banks by themselves, behind their
interface: requests come as `handleBankAccess()` hands them over, and `arbitrate()` and
`serviceRequest()` are called at any time and in any order. Since nothing in the program
calls these two, it says nothing of a run of the program; it says what whoever connects
them can rely on. `MemoryDevicesProofs` has its proofs.

**`JSONReader`** is the recursive descent on tokens with its recursion unfolded into a
stack of open containers; `mode` is the place in the functions, and every place where the
code throws is a disjunct of `Throw`. **`JSONGrammar`** is the grammar of the format,
written without a look at the reader, and is what the reader is held against.
**`ConfigFile`** is the table of settings (section, key, field, conversion), and
**`ConfigLoader`** is `loadFromFile()`: reading, mapping, validating, on the fields of
**`Config`**. **`StatsCollector`** is the simulator with the collector added: each task
event is recorded by the handler and then once more by `onEvent()`. The runs of the
simulator use this composition.

`MCSimulator`, `MCMemory`, `MCDevices`, `MCTaskLoader` and `MCConfigLoader` give values to
the constants; `MCTaskLoader` has the writer whose tables the loader must find again.
A definition whose comment begins with "Mutant of" is a plausible mistake in the code,
kept beside the definition it replaces to show that a property notices it.

## 3. What is checked

### Runs that pass

| run | what | bounds |
|---|---|---|
| `single_root` | an instance is scheduled once, after its dependencies; `inDegree` counts them; the memory handler sees the operation that was issued; no core is lost; the simulator implements `TaskExecution`, so everything is executed; FIFO is by ready time | 2 cores, 3 workloads of 2 to 6 instances, latencies 1 and 2 |
| `any_workload` | type invariant, core protocol, no exception, work conservation, idle cores take turns, termination; without negative durations no event in the past and time does not go back; shortest and then oldest; ready times agree; on the well-behaved workloads among them the makespan bounds and exact averages | 3 cores, shortest first, workloads with two roots, many roots, a wave wider than the cores, no operations, no executions, no time, negative durations, repeated ids, a cycle; 11 workloads, 3 of them well-behaved, latencies 0 and 2 |
| `task_graph` | what is written is loaded; what breaks a rule the loader checks is not; the search rejects exactly the cyclic graphs, its path is a chain, it ends | every way in which three rows name up to two dependencies each, with distinct ids and with a repeated one; 8 tables in 6 styles; 17 spoiled pairs of files |
| `memory` | exact LRU contents, bank queues partition the interconnect's, the DTCM shields the rest, the whole implements `Simulator` (liveness included) | 2 cores, round robin, 10 requests for 5 addresses, cache of 2, three configurations (cache; cache and DTCM; hashed banks) |
| `banks` | first come first served, counters, capacity, order of ends, never earlier than the memory system answered | 3 requests, one core, two banks on two chiplets, one configuration per policy; calls at cycles 0, 1, 3 and 13; one refusal per bank |
| `lru_inclusion` | list and map agree, the larger cache contains the smaller | 5 addresses, sizes 2 and 4, any sequence |
| `config_loader` | the reader's verdict, the configuration follows the text, an accepted one is usable | every sequence of up to 4 of 8 tokens and every one of 6 that begins with `{` and a key; white space and foreign characters; counts from negative to 5, each with one of 26 combinations of further settings, fractions among them; repeated keys and sections; files cut off, or continued, also by another configuration |

Why these bounds are enough to mean something: two cores are the least for which the
idle flags differ, the round-robin position wraps and two instances can race; three are the
least for which an idle core could be passed over in favour of another one. The
workloads contain a diamond, a fan-out wider than the cores, a second wave that becomes
ready while the first waits, repeated and dangling dependencies and operations of zero
cycles, and with such small durations most events share their cycle with another, so
the order of ties is exercised everywhere. Two latencies let instances overtake each
other. A cache of two lines is smaller than what one instance uses. Address widths of 17 and 20 bits keep
the XOR fold (which shifts by 16) from being the identity.

For the devices, three requests to two banks put two in one queue and one in another; the
cycles at which they are called (`Times`) fall before, at and after the end of a service
under each policy. After `MaxRefusals` a refused bank cannot be called again, so that the
counters stay finite, and after `MaxRequests` and the last of `Times` nothing is left to do,
which is why that run does not look for deadlocks. The tokens of
`config_loader` allow every mistake in a key, a colon, a comma or a bracket at two levels of
nesting; texts longer than `MaxJudged` (whole configurations) are not judged against the
grammar but against what they set.

For each property there is a mutant in `PROJECT.json` which TLC finds to violate it.

### Well-behaved workloads

The properties of `single_root` do not hold for all workloads: see the findings. They
are stated for workloads that are acyclic, have unique ids, an operation in each task and no
negative duration, and have *one root that takes time* (`WellBehaved`; `MCSimulator` asserts
that the workloads of that run satisfy it). With one root no `TaskDone` can be handled
while a root is still waiting, which is where the bookkeeping of ready instances fails.
`any_workload` states what remains true without any such condition.

### Fairness

`Spec` has `WF_vars(Next)`, and nothing stronger: the program is one thread that goes
round its loop until the queue is empty, and no handler blocks. No fairness between
events is assumed; that the loop ends, and that all is executed, follows from what the
handlers schedule. `TaskLoader` has weak fairness of the steps of the search, for `SearchEnds`, and
for the same reason. The devices have none: nobody has to call them.

### Runs that find a violation

Each checks one statement of a document, a comment or a message, and fails because the
code does something else.

| run | statement | what happens |
|---|---|---|
| `two_roots` | "Only schedule if this instance just became ready" (`Simulator.cpp:185`) | a root that has not completed an operation still has `readyTime` 0 and is announced a second time by the first `TaskDone` past cycle 0, which stamps it (`Simulator.cpp:187`; in cycle 0 the stamp is 0 and every `TaskDone` does it); it may then run twice |
| `no_operations` | "Run the simulation until completion" (`Simulator.hpp:52`) | an instance of a task without operations keeps its core for ever, and its successors never run |
| `bank_conflicts` | "service one at a time" (`README.md:341`) | requests to a bank never wait: the policies and ports have no effect |
| `tasks_counted` | "Total Tasks Completed" (`StatsCollector.cpp:180`) | every task counts twice |
| `negative_cycles` | "Pop next event and advance time to event.time" (`Simulator.cpp:70`) | a negative number of cycles is accepted (`TaskGraph.cpp:42`) and added to the time (`Core.cpp:40`): time goes back, and below zero it wraps around |

### Other disagreements

These were met while modelling. The models follow the code; no run is spent on them.

- On the shape of the README's example (several executions of a root and a reduction)
  the double announcement of roots lowers in-degrees too often, and some orders of
  events end the run with work undone.
- `README.md:149`: a Postproc instance "depends on one MatMulTile"; `buildDAG()` makes it
  depend on all of them (`TaskGraph.cpp:168`).
- `README.md:325`: round robin distributes tasks evenly. With instances waiting, the core
  that is released takes the next one, and nothing rotates (`Simulator.cpp:197`).
- `example_config.json:58`: one DTCM per core at `base + coreId * size`. There is one, at
  the base (`MemorySystem.cpp:12`).
- `DTCM.hpp:35`: `inRange()` is true for addresses in the range. A range that ends with the
  address space contains nothing, because `base + size` wraps (`DTCM.cpp:8`).
- `example_config.json:39`: the cache size is in bytes. It is a number of addresses, and
  two addresses of a line are two entries (`Cache.cpp:41`).
- `Config.cpp:136` has a message for a number of chiplets that is not positive. For 0 the
  mappings divide by it first and the program ends with SIGFPE (`Config.cpp:283`).
- `example_config.json:46`, `:92`: a port limit of 0 is unlimited. It is rejected
  (`Config.cpp:147`, `:166`).
- `README.md:350`: core utilization. It is always reported as 0, since only the tests call
  `recordCoreBusy()`; the same goes for memory accesses and conflicts.
- `README.md:112`: "See `example_config.json` for a fully commented example", and `:105`
  gives it to the program. The reader knows no comments and throws on the first `/`
  (`JSONParser.hpp:204`), as `ReaderVerdict` says of every text that is not JSON.
- `MemoryBank.hpp:82`: `getBusyUntil()` is "the time when bank will be free", and
  `MemoryBank.cpp:106` and `README.md:341` speak of ports and banks that become free again.
  Nothing ever frees one: a bank that has refused a request refuses it for ever. (Nothing in
  the program calls `serviceRequest()`; that the policy has no effect on a run of it is
  what `bank_conflicts` shows.)
- `Interconnect.hpp:82`: the next request is selected "when interconnect becomes free";
  `arbitrate()` carries it whether the link is busy or not, so transfers overlap
  (`Interconnect.cpp:57`).
- A configuration that is cut off after a comma, or after its first bracket, is taken as
  complete, and text after the last bracket is ignored (`JSONParser.hpp:199`, `:146`).
- `minimal_config.json` has `memory_banks` twice, as a number and as a section, and only
  the last one counts (`JSONParser.hpp:220`); had the number come last, the section would
  have been dropped without a message (`Config.cpp:66`).
- `README.md:134`: `id` is unique. Repeated ids are accepted (`TaskGraph.cpp:154`); the run
  `any_workload` has them.
- `README.md:166`: the address is required for memory operations. An empty one is taken for
  address 0 (`TaskGraph.cpp:54`).
- `README.md:163`: `seq_idx` is "0-indexed, must be sequential". Gaps, negative numbers and
  repetitions are accepted (`TaskGraph.cpp:36`), and repeated ones come in any order.

## 4. What is proved

Everything below is proved by TLAPS for all values of the constants that satisfy
the named assumptions. TLC evaluates each of them in a passing run. Where a theorem has a
hypothesis of its own it is named.

| assumption | what it says | why the code justifies it |
|---|---|---|
| `SchedulerAssumption` | a positive number of cores, one of the three policies | `validate()` checks the number; the policy is an `enum` |
| `SimulatorAssumption` | workloads as the loader makes them, latencies that are natural numbers; durations may be negative | `WorkloadsAreLoaded` and `AcceptedConfigsWork` prove it of what is loaded and accepted |
| `MakespanAssumption` | there is a shortest and a longest latency | a configuration has finitely many (`Latency`) |
| `ConfigsAssumption`, `LatenciesAssumption` | valid configurations with fields of their types; `MemLatencies` includes their latencies | `Config` is a `struct`, and `run()` begins only after `validate()` |
| `AddressBitsAssumption`, `PowersAssumption` | a positive width of addresses; powers of two are positive numbers | 64; the second is arithmetic, but the provers do not know what a power is |
| `DevicesAssumption`, `SizesAssumption` | for the devices and the caches, parameters of their types | the constructors' arguments come from a valid configuration |
| `TextsAssumption`, `SomeAddressesAssumption` | a text is any sequence of tokens; addresses fit their width | every character is part of some token; `uint64_t` |
| `FilesAssumption` | files are any lines of tokens; ids and addresses of the files that can be read are among the constants' | `TaskIds` and `Addresses` may be any sets, so this asks nothing of a file |

Before an invariant was proved TLC checked it on the run of its module, save for what
quantifies over sets TLC cannot enumerate (the values of the JSON reader, the paths in
`CriticalBound` and `ListBound`).

| module | theorems | of |
|---|---|---|
| `SimulatorProofs` | `Invariance` and the six properties that follow, `TimeIsMonotone`, `CoresTakeTurns` | `Spec` |
| `SimulatorProofs`, second part | `InDegreeIsCount`, `DependenciesFirst`, `InstancesScheduledOnce`, `RequestsMatch`, `CoresAreKept`, `AllAreExecuted`, `FifoInOrder`, `ShortestInOrder`, `ImplementsSafely` | `Spec`, for well-behaved workloads |
| `MemorySystemProofs` | `SystemImplementsSimulator`, `SystemExecutesGraph`, `BanksGetTheLinksRequests`, `DTCMIsAShield`, `CacheIsExact` | `SystemSpec`, `AskedSpec` |
| `LruInclusionProofs` | `ListsAgreeWithMaps`, `LargerIncludesSmaller` | `LruInclusion!Spec` |
| `MemoryDevicesProofs` | `FirstComesFirst`, `CountersAreRight`, `NotBeforeAnswer`, `Capacity`, `EndsInOrder` | `MemoryDevices!Spec` |
| `ReportProofs` | `ReadyTimes`, `AveragesAreExact` | `MeasuredSpec` |
| `ReportProofs` | `MakespanIsBounded` | `Spec` |
| `TaskLoaderProofs` | `WorkloadsAreLoaded`, `VerdictIsCorrect`, `PathIsAChain` | `LoaderSpec` |
| `ConfigLoaderProofs` | `AcceptedConfigsWork` | `ConfigLoader!Spec` |

**The simulator** (`SimulatorProofs`). `Invariance` shows that

    IInv == TypeOK /\ CoreProtocol /\ NoException /\ WorkConserving
                   /\ OnTime /\ ActiveOnlyWhenSatisfied

holds in every reachable state, and each conjunct, `NoPastEvent` and `TimeMonotone` follow. No conjunct but
`TypeOK` is inductive alone. That nothing throws needs `CoreProtocol`: the core of a
`ComputeDone` is busy, with the event's instance, because the event is the *only* one in
flight for its core. That `dispatch()` does not throw in `handleTaskDone` needs that
the `TaskDone` was the only event of a core that was taken. `WorkConserving` is what lets
`handleTaskReady` conclude that with an idle core the queue held nothing before, so that
after taking one instance it is empty again. `OnTime` says that, *if no duration is
negative*, the clock and all times in the queue are natural numbers and nothing in it is
late: a sum that does not wrap around zero is what makes `NoPastEvent` inductive, since
`Before` is not the order of the integers below zero. The rest of `IInv` has no such
hypothesis and holds with times that go back. The
proof has one lemma per handler; the four that replace the event of a core by the next
event of the same core share `ReplaceStep`, the two that dispatch share `DispatchStep`. The
lemmas on bags, on the graph and on in-degrees come first.

*Turns* (`CoresTakeTurns`). An idle core is passed over at most `NumCores - 1` times. The
distance of an idle core from the round-robin position falls with every dispatch to another
core: with one by `selectIdleCore()` because the search would have found it otherwise, and
the dispatch at the end of `handleTaskDone()`, which does not move the position, finds no
core idle before it; that is `WorkConserving`.

**Well-behaved workloads** (`SimulatorProofs`, second part). These theorems have the hypothesis
`WellBehaved(work)`, which the findings make necessary (see *Well-behaved workloads*
above), and no other: any graph, any number of executions, every policy, any latencies. The
invariant is `IInv` with

    WInv == WellBehaved(work) /\ OnePlace /\ Progress /\ Clock /\ RootFirst
                              /\ InDegreeCountsUnsatisfied /\ NoCoreLost

An instance waits for its dependencies (a positive in-degree), then is in exactly one place
(`OnePlace`: one event or one entry of the ready queue; `Progress`: at the operation its
event is about), then is completed. That `handleTaskDone()` does not announce an instance
again it leaves to `readyTime == 0`, which is right only if no instance but a root becomes
ready at cycle 0. `Clock` and `RootFirst` say so: nothing else happens at cycle 0, because
the root takes time.

- `AllAreExecuted` needs more than `WInv`: if the loop has ended and an instance has not
  been executed, take, by acyclicity, one all of whose dependencies have been. Its in-degree
  is 0, so it has a place, and there is none.
- The policies need `QueueInOrder`: the ready queue is sorted by `readyTime`, and what is
  announced comes after it. `FifoInOrder` is for the policies FIFO and RoundRobin,
  `ShortestInOrder` for the third.
- `ImplementsSafely` maps every step to one of `TaskExecution` or a stutter, with the
  mapping that the run `single_root` checks; liveness stays with that run.

**The memory system** (`MemorySystemProofs`). `SystemImplementsSimulator`: every step of
the composition is a step of `Simulator`. The only step that differs answers a request,
and that its latency is among `MemLatencies` needs that the event names a core (from
`CoreProtocol`) and that the configuration never changes. So the proof goes through the
invariant, `SystemInvariance`; `SystemNoException` is a corollary, and
`SystemExecutesGraph` carries the refinement of `TaskExecution` over to the whole.

*The queues and the cache.* `MemoryInv` is `QueuesOK` (types, and the queues of the banks
are selections of the interconnect's), `CacheOK` (list and map agree, and are untouched
without a cache) and `Shielded` (nothing that `inRange()` accepts is cached or queued).
`BanksGetTheLinksRequests` and `DTCMIsAShield` follow; the latter needs that the sum of
base and size does not wrap, and the property says so too. `CacheIsExact` is about
`CacheHistory`: `HistoryInv` says that the list is in the order of the last uses, that what
is not cached was used before what is, and that nothing is left out while there is room.
With a hit the others keep their order; with a miss in a full cache the last of the list has
the oldest use. The property then follows by counting: each address of the list is
behind exactly those that were used later.

**The cache** (`LruInclusionProofs`). List and map agree, and the smaller cache is the front
of the larger. The two need each other: eviction takes the last of the *list* when the *map*
is full, so that the sizes fit follows from their agreement. The lemmas on a single access
(`AfterHit`, `AfterMiss`, `StaysWellFormed`, `StaysInOrder`) serve the memory system
too, through an instance.

**The interconnect and the banks** (`MemoryDevicesProofs`), for any number of requests and
calls, at whatever cycles. `Capacity` and `EndsInOrder` follow
from what a single bank is like between two calls (`BankInv`): what marks it as taken is
exactly the services it began (`Taken`), and these end in order and the last not later than
one that begins now could (`Ordered`). The bound on
`busyUntil` is what makes `EndInOrder` inductive under ExtraDelay, where the penalty is
added to the current time and not to `busyUntil`. `Capacity` holds for a reason its
name does not tell: a bank never *begins* more services than it may have at one time.
`FirstComesFirst`, `CountersAreRight` and `NotBeforeAnswer` need `OrderInv` besides, which
relates the histories to the queues: what was carried, followed by what waits, is what was
sent, and for each bank the same with the requests that are for it. The sum of the busy
cycles (`TotalTime`) is a recursive function; `TotalTimeLeads` says which values it goes
through, so that one service more adds its time.

**The report** (`ReportProofs`). `ReadyTimes` holds on all workloads, also where
instances are announced more than once or time goes back: `AnnouncedAsStamped` says that an
announcement is for the time in `readyTime`. Only an instance stamped 0 is stamped again,
and while its announcement for cycle 0 waits the cycle stays 0, the first of all times
(`ZeroIsFirst`).

*The averages* (`AveragesAreExact`; the property is about well-behaved workloads, as it
says itself). `AveragesInv` says what the two lists of samples are in every state, not only
at the end: `Sampled` says that a list holds two samples for each instance that has been
dispatched (or is done), and that its sum is the sum of twice the instance's span. A step
that appends must append the right span, and neither the collector nor the event has it
whole: that the event is for the time the instance is stamped with is `StampsFit`, and that
the collector knows when it became ready, `ReadyKnown` with `ReadyTimesAgree`. That a span
is added once and not changed later is `OnePlace`, from the proofs on well-behaved
workloads. When the loop has ended `AllAreExecuted` makes the instances measured all of
them.

*The makespan* (`MakespanIsBounded`). All three bounds count the *work done* on each
instance, `Done`: the operations behind it, and of the one in flight the part that has
passed, so that time passing is work done on what is running. `MakespanInv` has, for the
shortest latency, that no more work is done than the cores had time for (`WorkBound`) and
that no instance is further on than the chain of its dependencies allows
(`CriticalBound`: what is done on it and the path before it take no more than `now`);
and for the longest latency the argument of list scheduling (`ListBound`): whenever time
passes, either all cores work, or every chain of what is left becomes shorter, because its
first instance is running. The latter is where `WorkConserving` and `NoCoreLost` are
used: with an idle core nothing waits, and a core that is taken has its event. All three need `ImmediateNow`: an event that is not an end of an operation is of
the current cycle, so that when time passes nobody is on the way to a core.

**The loader** (`TaskLoaderProofs`). `WorkloadsAreLoaded` follows the text through
splitting, trimming, converting and sorting: what is cut out of a sequence of tokens is one
(`ParseLineType`, `PiecesType`, `ParseCSVType`), a cell of a row exists because
`Rectangular` was checked (`CellType`), a row that converts is a task or an operation
(`TaskOfType`, `OpOfType`), and so is what comes out of the sort (`ArrangedType`).
`LoadingInv` says which file the table in `csv` is of, and which half of the workload is
made.

*The search* (`VerdictIsCorrect`, `PathIsAChain`) stands on that.
`SearchInv` is the argument of depth-first search: what is being visited is
what is on the path (`GreyIsPath`), each on the path was called by the one before it
(`Called`), the successors passed by have been visited (`PassedIsVisited`,
`VisitedIsClosed`), and every set of visited tasks has one without a successor in it
(`VisitedIsAcyclic`), which refutes `HasCycle` when the rows are through. A successor that is
on the path closes a cycle, by `Called`.

**The configuration** (`ConfigLoaderProofs`). That `validate()` is enough for
`AcceptedConfigsWork` needs that what it compares are numbers, and the text decides what
they are. The values the reader makes are nested to any depth; the invariant says that
there is *some* set of values, closed under taking members of objects, that has all of
them (`ValuesAreTyped`), which needs no induction over the nesting: a container that is
closed joins the set. So a field read from it is a number, or the conversion has thrown
(`NumbersAreTyped`; a fraction is dropped and a size reduced to its width, `NumbersConvert`).
From `Valid` to the bank of an address it is arithmetic, and for
`XorFold` a sum over bits (`XorType`).

`SequenceProofs` has what several of these need of sequences and numbers: a least element
and induction for a *set* of numbers, in place of the library's theorems that take an
operator; that a function defined by recursion exists (`LeadsExists`); what `RemoveAt`,
`SubSeq`, `Append` and a push to the front do; the sum of a function over a set, which the
community modules define by a fold, and how it changes with the function and the set
(`SumChanges`, `SumGrows`, `SumMonotone`, `SumOfSums`); the maximum and the minimum.

### Only model-checked

- Liveness: `Terminates`, `SearchEnds`, and the fairness in `ImplementsTaskExecution` and
  `ImplementsSimulator`, whose safety parts are proved.
- `ReaderVerdict` and `ConfigFollowsText`: the grammar they hold the reader against is
  recursive, and the provers have no induction over it. `LoadedAsWritten` and
  `SpoiledIsRejected` are about the tables and files of the run.

## 5. What is not modelled

- What is inside a token: the digits of a number, the escapes of a string, the spelling of
  `true`, upper and lower case of names, hexadecimal digits without `0x`. A number that a
  `double` or an `int` cannot hold converts with undefined behaviour
  (`JSONParser.hpp:68`, `Config.cpp:56`) or throws in `stoi()`; numbers here have any size.
  Those of a configuration have one decimal, which the casts to an integer drop.
- The arguments of the command line and the text of the reports: parsing and formatting.
- How deep a JSON text may be nested before the recursion runs out of stack.
- Latencies near `INT_MAX`, whose sum overflows an `int` (`MemorySystem.cpp:161`), and times
  2^63 cycles away from zero: the sums here have no limit.
- The ports and the port queue of the cache, the counters of accesses, conflicts and busy
  time in the statistics, and main memory: functions nothing calls and that do not depend
  on one another, so that any order of calls would be an invention. (The interconnect and
  the banks are different: their protocol is in `serviceRequest()` and `arbitrate()`
  themselves, and the program does fill their queues.)
- Reads past the end of `ops` in `handleMemReqIssued`: the value read decides nothing.
  `RequestMatchesOp` shows that it does not happen on well-behaved workloads.

## 6. Plan

Done: the simulator with its invariants and their proofs, the abstract execution, the
policies, the memory system and the cache, the statistics; then the loading of the task
graph with cycle detection, the reading of the configuration, the devices, turns of idle
cores. And of the proofs: every safety property that a run checks, but for
the four named in *Only model-checked*.

What could still be modelled: latencies and times of fixed width, at their upper limit.
What could still be proved: that
the operations of each task come out of the sort in the order of `seq_idx`, for all files;
and, in place of `ReaderVerdict`, that the reader accepts no text whose brackets do not
match.

## 7. Running

    tlc -config single_root.cfg MCSimulator      # each run: its cfg and its module
    tlapm SimulatorProofs.tla                    # each module whose name ends in Proofs

`PROJECT.json` lists the runs, the mutant of each property, the source lines each
definition models, the findings, the hazards with the properties that cover them, and
the theorems.

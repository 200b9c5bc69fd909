# TLA+ models of the ECE 252 labs and assignments

This directory models the programs of the repository in TLA+, model-checks them
with TLC on small instances, and proves the safety properties of nearly all of
them for every value of their constants. Line numbers refer to the source files as they
are in the repository; `PROJECT.json` maps each definition to the lines it
stands for and lists the runs, the faulty variants each property is tried
against, the findings, the hazards and the theorems.

## 1. The system

The repository holds independent C programs: five labs and five assignments.
Seven of them are made of processes or threads that share state; the others are
sequential, and what is hard about them are boundaries and failures half-way.

| Component | State | Operations | What is hard |
|---|---|---|---|
| Lab 3 `buffer.c` | ring of `max_size` slots, `size`, `front`, `rear`; the bytes of the slots in the segment | `Buffer_init`, `Buffer_add`, `Buffer_pop` | wrap-around, the -1/-1 empty state, two different strides |
| Lab 3 `paster2.c` | shared memory: the ring, semaphores `shared_spaces` and `shared_items`, `shared_mutex`, `counter_mutex`, `num_produced`, `num_consumed`; the strips' files | `producer`, `consumer`, `main` (fork, waitpid, catpng, cleanup) | processes that fail half-way, ignored return codes, an unlock of a mutex not owned |
| Assignment 4 `hogwarts.c` | task list, `active_tasks`, `taken_tasks`, semaphores `empty_list`, `full_list`, `mutex` | `dobby`, `house_elf`, `house_elf_cleanup`, `post_tasks`, `take_task`, `do_work` | a list that is not thread safe and is used without the mutex, thread cancellation |
| Lab 4 `findpng2.c`, `curl_xml.c` | frontier, `visited` hash table, PNG list, `blocked_threads`, `mut_frontier`, `sig_frontier`, `mut_pngs`, `rw_hash`, log file | `work`, `find_http`, `process_png` | deciding that a crawl is over, condition-variable wake-ups |
| Lab 5 `findpng3.c`, `curl_xml.c` | frontier, `visited`, PNG list, curl multi handle, log file | `work`, `curlm_init`, `find_http`, `process_png` | transfers that end in any order, batches, `-t 0` |
| Lab 2 `paster.c` | `retrieved[]`, `num_retrieved`, the strips' files; each thread's `RECV_BUF` | `get_segment`, the callbacks of libcurl, `main` | the first two are shared by all threads without a lock; all answers of a thread lie in one buffer |
| Assignment 5 `timewar.c` | barrier, `coordinates[]`, `ready`, two mutexes, `doctors[]` | thirteen doctors, `main` | lost increments, threads that are not created |
| Assignment 1 `theflash.c` | the array of cities, the best route, `file.txt` | `permute`, one child per permutation | a stale or missing result file, in-place swaps of all open calls |
| Assignment 2 `rogue-one.c` | buffer, one socket | `load_plans`, `sendall`, one `recv` | partial reads and sends, the empty file, a size that no int holds |
| Assignment 3 `nqueens.c` | `count` under a semaphore, a board per thread | `nqueens` per first column | a search that goes on after a full board |
| Lab 1 `findpng.c` | open directories, the signature buffer on the stack | `check_directory`, `is_png` | one descriptor per level, short files |
| Lab 1 `pnginfo.c`, `lab_png.c`, `crc.c` | one file | the checks of signature and checksums | the table-driven CRC |
| `catpng.c`, `zutil.c` (Labs 1 to 3) | the strips, two buffers, `all.png` | merging strips | guessed buffer sizes, the zlib loops, a damaged strip half-way |

The programs do not interact with each other, except that `paster` and
`paster2` call `catpng` as a function. Inside a program the components interact
through shared memory, locks and files only; the outside world is the HTTP
server, libcurl, zlib, the file system and the scheduler.

What makes each one correct:

- **Lab 3**: every strip is downloaded once, passes the ring once and in order
  and is written once; the ring is never over- or underrun and its bytes are
  those of the nodes; two processes are never in the ring together; the program
  ends.
- **Hogwarts**: an elf that is let through finds a task; the list has one user
  at a time; exactly the tasks of the day are posted; the day ends when all are
  taken.
- **The crawlers (Labs 4 and 5)**: a URL is visited at most once, every link of
  a fetched page is followed, no more than the wanted PNGs are collected, and
  the crawl ends when, and only when, the target is reached or nothing is left.
- **Lab 2**: all strips are retrieved and written before they are merged, and a
  strip's file holds the answer that named the strip.
- **Timewar**: no increment is lost, and the verdict does not depend on the
  schedule.
- **Assignments 1 to 3**: every route is tried once and the shortest is printed;
  the server gets every byte once and in order; every solution is counted once.
- **Lab 1**: exactly the PNG files are printed; a damaged chunk is reported; the
  merged image is the strips below each other, or the old one is left alone.

## 2. The modules

| Module | Models | Uses |
|---|---|---|
| `Buffer` | `struct Buffer` and its operations, as operators on a record | |
| `RingLayout` | the bytes under `Buffer`: addresses, headers, memcpy, the segment | `Buffer` |
| `Paster2` | Lab 3's producers, consumers and parent | `Buffer`, `PartPipeline` |
| `PartPipeline` | the abstract specification of Lab 3: the life of each strip and a bounded FIFO queue | |
| `Hogwarts` | Assignment 4 | |
| `Findpng2` | Lab 4 | `Crawl` |
| `Findpng3` | Lab 5 | `Crawl` |
| `Crawl` | the abstract specification of both crawlers | |
| `Paster` | Lab 2: the threads and what they share | |
| `RecvBuf` | Lab 2: one thread's buffer, and the callbacks that fill it | |
| `TimeWar` | Assignment 5 | |
| `TheFlash`, `RogueOne`, `NQueens` | Assignments 1, 2 and 3 | |
| `FindPng1`, `PngInfo` | Lab 1's tools | `Crc` (`PngInfo`) |
| `Crc` | `crc.c`, and the CRC as it is defined | |
| `CatPng` | `catpng.c` with `mem_inf` and `mem_def` | |
| `MC*` | the instances TLC checks | |
| `BufferProofs` | theorems about the ring | `Buffer` |
| `Paster2Proofs`, `HogwartsProofs`, `Findpng2Proofs`, `PasterProofs` | theorems about the concurrent programs they are named after | their program |
| `RecursionProofs` | theorems about what is defined by recursion, and the programs that rest on it: sums (Timewar, catpng), the CRC (pnginfo), the directory tree (findpng) | `TimeWar`, `CatPng`, `PngInfo`, `FindPng1` |
| `AssignmentsProofs` | theorems about Assignments 1, 2 and 3 | `NQueens`, `TheFlash`, `RogueOne` |
| `LabsProofs` | theorems about what runs in a single thread: Lab 5, Lab 2's buffer, the bytes of Lab 3's queue | `Findpng3`, `RecvBuf`, `RingLayout` |

In every module a thread or process has a program counter, named for what it
does next, and one action per step. A step is what no other thread can observe
the middle of: one semaphore or mutex operation, one access to a variable that
is not protected, or a whole critical section where the section's variables are
touched under that lock only. Actions carry the names of the source's functions
and variables. An operator whose comment begins with "Faulty" is not part of a
specification: it is a plausible mistake in the operator it is named after, and
`PROJECT.json` names the property that detects it.

### Lab 3: `Buffer`, `RingLayout`, `Paster2`, `PartPipeline`

A strip is its sequence number; a `RECV_BUF` is the `seq` it carries, -1
(`NoSeq`) when no header named one. `Contents(b)` reads the ring as a sequence.

- `producer()`: `CurlInit`, then per strip `ReadProduced`/`BumpProduced` (the
  counter under `counter_mutex`), `Answer`, `WaitSpace`, `LockToAdd`,
  `AddImage` (Buffer_add and unlock) and `PostItem`.
- `consumer()`: `ReadConsumed`/`BumpConsumed`, `WaitItem`, `LockToPop`,
  `PopImage`, `PostSpace`, `WriteImage`.
- `main()`: `Fork`, `WaitChildren`, `CatpngSucceeds` or `CatpngFails`,
  `Destroy`.
- Failures, at most `MaxFaults` in a behaviour: `CurlInitFails`, `CurlFails`
  (the producer returns, its strip already counted), `AnswerUnnamed` (an error
  page has no fragment header, yet curl reports success), `WriteFails` (the
  consumer returns after unlocking `shared_mutex`, which it does not hold),
  `ForkFails`.

After such an unlock two processes can be inside the critical section. What
they do to the ring then is a data race and undefined in C, so a behaviour ends
in such a state (`Race`), and the invariants hold up to and including it.

`PartPipeline` says what becomes of a strip: todo, fetching, queued, taken, and
stored or lost. `Paster2!ImplementsPipeline` maps the program counters, the
ring and the files to it.

`RingLayout` refines the ring to the cells of the segment, which begins with
the struct and is rounded up to pages (`sizeof_Buffer`, `Segment`). `Buffer_init`
(`InitSlot`) is handed a size that already includes the header and adds the
header again, so the headers it initialises lie further apart than the slots
(`InitAddress` and `SlotAddress`): with many slots the last are behind the
segment, which is a crash or a write to whatever is mapped there. `AddNode` and
`PopNode` copy all of a slot but its pointer. `NodesKept` says that this does
not reach a node that is in the ring. The semaphores of `paster2` make the
operations sequential, which `Paster2` is about, so this module has no
processes.

### Assignment 4: `Hogwarts`

`dobby()` is `CreateElf`, `WaitEmpty`, `LockToCount`, `CountTasks`, `PostTask`
(one turn of the loop of `post_tasks`, without the mutex), `LockToActivate`,
`Activate`, `SignalFull` (one `sem_post`), `CancelElf`, `JoinElves`;
`house_elf()` is `WaitFull`, `LockToTake`, `Decrement`, `TakeTask`,
`CountTaken`, `DoWork`. A cancelled elf ends at its next cancellation point,
the `sem_wait` or the `printf` in `do_work` (`Cancelled`), and runs the cleanup
handler (`TryLock`, `CleanupUnlock`). The order in which Dobby creates and
cancels the elves is left open, which includes the code's order. The handler of
one elf may unlock the mutex that another holds; `TasksOfTheDay` shows that
nothing is left for the mutex to protect by then.

### Labs 4 and 5: `Findpng2`, `Findpng3`, `Crawl`

The web is a constant: the links of each page in order, the URLs that answer
with a PNG, and the effective URL after redirects. `target` is chosen at the
start. In `Findpng2` a thread's program counter walks through `work()`:
`CheckTarget`, `Pop` or `Block`, `Wake` (and `WakeSpuriously`: POSIX allows
it), `Visit`, `Fetch`, `PushLink` per link, `AddPng`, `Recheck`, `Leave`. A
waiting thread is in `waiters` until a signal or broadcast picks it, and then
competes for the mutex like any other. In `Findpng3` there is one thread;
libcurl may bring the transfers of a batch to their ends in any order
(`Transfer`, `TransferFails`), and the messages are read in that order.

When the hash table is full, or the log file cannot be opened (`LogFails`), the
programs use a NULL pointer: the models end in program state `crashed`.

`Crawl` states what both promise in terms of the sets of known, visited and
finished URLs and the list of PNGs; `ImplementsCrawl` in both modules maps the
code's state to it.

### Lab 2: `Paster`, `RecvBuf`

In `Paster` every access to `retrieved` and `num_retrieved` is an action. The
accesses of a thread happen in program order, so the model shows what the races
do already without any reordering by the compiler or the processor. Its server
names every strip it sends.

`RecvBuf` is one thread between libcurl and its files, byte by byte: `Headers`
and `WriteCallback` are the two callbacks, `TakeStrip` and `DropStrip` the two
ways `get_segment` goes on, and `TakenElsewhere` is what the other threads do to
`retrieved`. Answers that name no strip are part of it: the first of them
makes `get_segment` read and write `retrieved[-1]` (`IndexMinusOne`, undefined),
a later one finds the strip of the answer before in `seq`, already retrieved,
and is dropped.

### Assignment 5: `TimeWar`

The thirteen thread functions differ in the coordinate they add to and in what
they print; one set of actions models them. The module's constants give each
doctor a coordinate, and an assumption of `MCTimeWar` checks that the sums the
code compares with (6, 22, 17, 33) follow from the code's own assignment.
`pthread_create` may fail any number of times (`CreateFails`); its result is
ignored, and `pthread_join` is then given an id that was never stored
(`JoinMissing`: it returns an error or crashes).

### Assignments 1 to 3: `TheFlash`, `RogueOne`, `NQueens`

- `TheFlash`: the open calls of `permute` are their loop variables (`loops`),
  with the array they all permute in place. `Descend` and `Loop` are the
  recursion, `Fork`/`ForkFails`, `ChildWrites`/`ChildDies` and
  `ReadResult`/`ReadFails` one route. `file.txt` is never removed: at the start
  it may hold the result of an earlier run, and after a child that died it holds
  that of the route before.
- `RogueOne`: `LoadPlans` reads the file or a part of it, `Send` takes any part
  of what is left, `SendFails` may come at any time, and the value `sendall`
  returns when it has nothing to send is undefined. `load_plans` stores the size
  in an int (`AsInt`, `length`): a file of 2^31 bytes or more is sent in part or
  not at all, and `SendsAllInOrder` promises the whole file only below that.
- `NQueens`: a thread's recursion is its board. `Place`, `Return`, `LockCount`
  and `AddSolution` are the steps of a thread; `main` creates (`Create`,
  `CreateFails`), joins (`Join`, `JoinMissing`) and prints.

### Labs 1 to 3, sequential: `FindPng1`, `PngInfo`, `Crc`, `CatPng`

- `FindPng1` walks a constant tree whose directories may refuse to be opened
  and whose files are PNGs, others, short, unreadable or special. A short file
  leaves a part of the signature buffer as it was, so either answer is allowed
  for it, and `PrintsThePngs` is about all other files.
- `PngInfo` checks a file with three chunks that a burst of errors has damaged
  in one of them or not at all. A byte is the set of its 1 bits. `crc_table`,
  `update_crc` and `crc_of` are those of `crc.c`.
- `CatPng` reads the strips, inflates them chunk by chunk, deflates the whole
  and writes it. zlib is external: it turns a strip's data into its pixels and
  may deflate to any of a few lengths.

## 3. The runs

Bounds are constants in the `.cfg` files; no state constraint is used.

| Run | Instance | What it shows |
|---|---|---|
| `paster2` | 2 producers, 2 consumers, 3 strips, ring of 2, 1 failure, fairness | mutual exclusion, the semaphores, `SegmentsWhole`, the refinement of `PartPipeline`, and `Completes`: the program ends, or one of the named failures has left a process waiting |
| `paster2_segments` | 2 strips, ring of 1, 2 failures | **violated**: `SegmentsExist`, the comment at `paster2.c:136` |
| `hogwarts` | 3 elves, 5 tasks, batches of 2, fairness | the safety properties and `DayEnds` |
| `hogwarts_completed` | 2 elves, 3 tasks, batches of 2 | **violated**: `AllTasksCompleted`, the README of Assignment 4 |
| `findpng2` | 3 threads, 5 URLs, targets 1 and 3, 1 fault, fairness | `BlockedCount`, `NoneLeftWaiting`, `CrawlEnds`, and the refinement of `Crawl` |
| `findpng2_table` | 2 threads, room for 3 URLs | **violated**: `EnterSucceeds`, the comment at `findpng2.c:95` |
| `findpng3` | 0 to 3 connections, 7 URLs, targets 0, 1, 2, 4, 2 faults, fairness | `ConnectionsBounded`, `CrawlEnds`, and the refinement of `Crawl` |
| `paster` | 3 threads, 2 strips, 1 fault, fairness | `OverrunBounded`, `MissingOnlyIfCountedTwice`, `EndsUnlessIncrementLost` |
| `paster_all` | 2 threads, 3 strips, no fault | **violated**: `RetrievesAll`, the description at `paster.c:155-158` |
| `timewar` | 4 doctors, 2 coordinates, any number of failed creations, fairness | `ReadyCountsTheDone`, `AllGatheredFirst`, `VerdictIsRight`, `GallifreyStands` |
| `assignments` | boards of 1 to 4; five cities, 2 failures, two old files; files of 0, 1, 3, 4 and 9 bytes, ints up to 3; fairness | `DepthBounded`, `CountsEachSolutionOnce`; `TriesEveryRouteOnce`, `StaleResultIsHarmless`; `SendsAllInOrder`; `EachRunEnds` |
| `labs` | 5 directories in 4 levels with 3 descriptors; bursts of up to 32 bits; up to 3 strips; 3 answers of up to 2 calls; a queue of 3 slots and 5 nodes | `PrintsThePngs`; `ReportsTheDamage`; `MergesInOrder`, `BuffersSuffice`; `BufferHoldsAnswer`, `FileFromItsAnswer`; `NodesKept`, `OutsideOnlyByInit` |

`assignments` and `labs` hold several programs that share no state: the initial
state chooses the one that runs, and the others never start.

Why the bounds are enough to be interesting:

- Lab 3: with more strips than slots the ring wraps, fills and empties; with two
  of each kind there are races between producers, between consumers and across.
  One failure reaches every exception of `Completes` but two, for which all
  producers or all consumers must fail.
- Hogwarts: two full batches and a short one, more elves than a batch has tasks.
- Crawlers: the webs have a cycle, a page that is linked twice, a dead end, two
  URLs with one PNG, and more and fewer PNGs than wanted; three threads let one
  sleep, one be woken and a third take the URL first. The hash table has room for
  all five URLs in `findpng2`, for three in `findpng2_table`, and for one less
  than the web has in `findpng3`.
- Lab 2: two threads are enough to count a strip twice and to lose an increment,
  but it takes a third for a stale store to bring `num_retrieved` down and let a
  thread in again that runs ahead of the others. How far the count can run then
  is `OverrunBounded`; its worst case needs more threads or strips than TLC's
  instance has, and is covered by the proof. The buffer of
  `RecvBuf` starts at 2 bytes and grows by 2; pieces of 1 and 3 bytes fill it
  exactly, overflow it by one, and are larger than the increment.
- Assignments: a board of four is the smallest above one that has a solution;
  four cities between start and end are four open calls of `permute`; the distances are
  those of the code's table. With `INT_MAX = 3` the files of `RogueOne` lie at
  the largest int, one above it (negative `length`) and past a whole turn.
- Lab 1: one level more than descriptors, and an empty directory after deeper
  ones, so that a descriptor that is not given back shows. Strips inflate to
  exactly the buffer's size and to one more, and the sum of three overflows the
  word of 16; data end with a chunk and inside one.
- The queue: nodes wrap around the ring; sizes of 1 to 4 cells lie on both sides
  of the point where the headers no longer fit the segment.

A program that ends stops, so deadlock is not checked; that it ends properly is
what the liveness properties say.

**Fairness.** Weak fairness on the steps of each thread or process: the
scheduler runs every thread that can run, and a transfer ends, with an answer
or an error. In Lab 3, Hogwarts, Timewar and NQueens each thread makes finitely
many steps, so a lock is free for good in the end and weak fairness is enough
for the mutexes and semaphores. In Lab 4 each lock section is one action, and the
number of sections is bounded by the finite web, except for the turns of
threads that find the frontier empty, which the properties hold without any
strong fairness for. Failures and spurious wake-ups are never fair: they happen
or do not, at most `MaxFaults` times. The child and the parent of `TheFlash` and
the client of `RogueOne` are scheduled; `send` returns. Only Lab 2 asks for
more: the server sends strips at random, and strong fairness on each strip says
that the random choice does not leave one out for ever. The run `labs` asks for
safety only and states no fairness.

**What the violations show.** They are disagreements between the code and what
the repository says of it; `PROJECT.json` quotes the lines.

- Lab 3 starts catpng although a consumer failed and its strip is missing.
- Hogwarts dismisses the elves when all tasks are *taken*; an elf may be
  cancelled before it reports its last one as completed.
- Lab 4 (and Lab 5, `TableFull`) uses the NULL that a full hash table returns.
- Lab 2's threads may count one strip twice and so miss another, without any
  failure. A lost increment has the opposite effect: the threads never stop,
  which is the exception in `EndsUnlessIncrementLost`.

Other weaknesses of the code appear as exceptions in properties that hold.
`Completes` names the failures after which Lab 3 hangs: a failed transfer loses
a strip that a consumer then waits for, and `main` waits for the consumer.
`CrawlEnds` excepts Lab 5 with `-t 0`; `GallifreyStands` a doctor that could not
be created, for whom the others wait at the barrier; `OutsideOnlyByInit` more
than 321 slots with Lab 3's sizes; `BuffersSuffice` strips that deflate better
than the factor the code allows for.

## 4. The proofs

The proofs hold for any number of processes, strips, elves, doctors, cities,
tasks, slots and answers, any web and target, any size of rings, batches,
boards, buffers and files, and any number of faults. They rest on the named
assumptions of the modules: finite, disjoint sets of threads, natural numbers
for sizes, owners of free mutexes that are not threads, links and redirects
that stay in the set of URLs, distances below 999999, the value the code takes
for "none yet" (`DistanceAssumption`), a factor of at least 2 between a strip's
data and its buffer (`WordAssumption`), chunks made of bytes and no longer than
the bound on messages (`ChunkAssumption`), bursts that are not empty and at most
32 bits wide (`BurstAssumption`), and directories that are a finite tree in
which every directory is listed once (`TreeAssumption`). TLC evaluates each of
them for its instances.

Every invariant the passing runs check is a theorem; so are the three
refinements and the action property `FileFromItsAnswer`.

**`BufferProofs`.** `RingInv` says that `front` and `rear` are -1 exactly when
the ring is empty, and that the `size` elements lie from `front` to `rear`, with
wrap-around. `AddAppends` and `PopHeads` prove that the two operations keep it
and act on `Contents` as `Append` and `Head`/`Tail`.

**`Paster2Proofs`.**
`TypeCorrect` needs `TypeInv`: types, `RingInv(buffer)`, and the ownership of
`counter_mutex`, without which `num_produced` could pass `NumParts`.
`Balance` proves `SemaphoreBalance` inductive on top of it: each semaphore plus
the processes between `sem_wait` and the ring, plus the processes between the
ring and `sem_post`, accounts for every slot. A failed consumer does not disturb
it, since it has posted before it fails.
`ReturnCodesAreZero` follows: a producer in the critical section holds a
reserved slot, so the ring is not full.
`MutualExclusion` proves that as long as no consumer has failed to write, the
process in the critical section owns the mutex.
`Lab3IsAPipeline` is the refinement. Its invariant `Strips` says that a strip
is in one place only: with one producer, in the ring, with one consumer, or in
its file. Every step has one of seven effects on these places (`Effect`), and
each is a step of `PartPipeline` or a stutter; for the steps that touch the
ring this is `AddAppends` and `PopHeads`.
`SegmentsAreWhole` adds `CountInv`: until something fails, the strips that the
consumers have claimed (`num_consumed`) are those they wait for or carry and
those stored. Two consumers never store the same strip (`Strips`), so when all
are claimed and the consumers have ended, all are stored. The theorem supposes
that there is a consumer; with none the program merges strips nobody wrote.

**`HogwartsProofs`.** One inductive invariant `Inv` gives all theorems. Its
parts: `TypeOK`; `Owner`, which thread holds the mutex where; `Alone`, that while
Dobby posts and activates no elf is past its semaphore with a task still to take
or to count; `Counts`, which ties `active_tasks`, `full_list`, the length of the list and the
numbers of elves at each point of `house_elf()` together; and `Batch`, which
relates `taken_tasks` and `task_id_counter` to the tasks of the day. The
properties are not inductive alone: that an elf finds a task (`NeverEmptyHanded`)
depends on `active_tasks` reaching zero exactly when the last elf of a batch is
about to take its task, which in turn depends on Dobby activating the batch
before he signals it.

**`Findpng2Proofs`.** `QueueInv` relates `blocked_threads`, the waiters of the
condition variable and the places of the threads: while none leaves, the count
is the number of those waiting, and a thread that was not woken has seen it
below the number of threads. `BlockedRight` and `NoneLeftBehind` follow.
`VisitInv` says what a thread knows of the URL it visits, `LeaveInv` that
threads that leave short of the target leave an empty frontier and no visit in
progress. `Lab4IsACrawl` is the refinement of `Crawl`, which includes that no
URL is visited twice. `SmallWebsAreSafe` complements the run `findpng2_table`:
`EnterSucceeds` holds for every web that has no more URLs than the table has
places.

**`LabsProofs`.** Lab 5: `ConnInv` says what the multi handle holds at each
place of `work()`, and gives `NeverTooManyConnections`; `OnceInv`, that a URL is
at one place only, gives the refinement `Lab5IsACrawl`.
`RecvBuf`: `IInv` says that the buffer holds `size` bytes
and has room for one more; that `start` is the end of the answer before
(`SliceInv`); that `seq` is the strip of the answer that arrives, or an old one
that is already retrieved, or -1 (`SeqInv`); and that only retrieved strips have
a file (`FileInv`). `SeqInv` is what makes an answer without a name harmless
after the first.
`RingLayout`: `LayoutInv` adds to `RingInv` that each used slot holds
its node cell by cell, and that a header is initialised only before the first
node is added. Two slots do not overlap and every slot is inside the segment:
`SlotAddress` is a multiple of the slot's size, and behind the struct (`STRUCT`
cells) the segment has room for at least `MaxSize` of them. With `AddAppends` and `PopHeads` this gives
`BytesImplementSlots`. `StaysInSegment` bounds the last header.

**`PasterProofs`.** As long as no increment is lost, the count and the threads
that were let in and may still add one are together at most `NumParts +
Cardinality(Threads) - 1` (`ExactInv`). Once an increment is lost the loop may
reopen; but each thread counts a strip at most once after it is marked, so that
the count can only grow by what `Owed` adds up, and `NumParts *
Cardinality(Threads)` is never passed (`CreditInv`).
`OnlyCountedTwiceMisses` uses that the count never gets ahead of the marks
unless a strip is marked twice (`CountInv`), and that a marked strip is in its
file or still held by the thread that marked it (`FileInv`).

**`RecursionProofs`.** The sums of the models are folds, defined by recursion over
sets. The module begins with what they compute: induction itself is a lemma
(`SetInduction`, from the pigeonhole principle, since the prover has no
induction over a formula), then that a sum does not depend on the order in
which it takes its elements (`SumTakesAny`).
Timewar: `TimeInv` says what the holder of a mutex has read, how far `main` is,
and that the barrier lets nobody pass before all doctors have been created.
From it follow `GatheredFirst` and `NoCountLost`; with `SumInv`, that each
coordinate is the sum of the doctors that have added to it, `RightVerdict`. It
supposes that `correct` is what the doctors' indices add up to, which the
assumption `CodeFigures` of `MCTimeWar` checks for the code's thirteen.
catpng: `CatInv` says that what is inflated is the pixels of the strips before
`k` one behind the other and the first `have` of strip `k`. From it follow
`StripsInOrder` and, with sums that do not wrap around a word, `RoomEnough`.

The CRC needs two facts about the algorithm of `crc.c`. First,
`TableComputesCrc`: what `update_crc` computes is the CRC by its definition, for
every message up to any bound. A round of `make_crc_table` multiplies by x, with the
bits in reverse (`TimesXIsOneBit`); rounds and remainders are linear
(`RoundsLinear`, `RemainderLinear`); and one step through the table is eight
rounds of the whole register (`TableByteByByte`). By induction over the message
the register is the remainder of what has been read (`RegisterIsRemainder`).
Second, damage shows. Since rounds are linear, the difference between the
registers for the sound and for the damaged message, together with the bits of
the burst that are still to come, is at every byte what the rounds have made of
the burst (`DamageTravels`). They shift it down until it begins at bit 0, where
a burst of at most 32 bits fits the register as a whole (`RoundsShift`); from
there on a round never turns it into nothing (`RoundsKeepDamage`), since the
table's polynomial has its highest bit set and a shift clears that bit. Hence
`BurstShows`.
`InfoInv` ties the two together: the damaged chunks are exactly those with a
checksum that is not theirs, and of these the ones looked at are reported. From
it follows `FindsTheDamage`.

The walk of findpng: `PngsBelow` is defined by recursion over the tree, and so
are the calls of `check_directory`. `TreeAssumption` gives each directory a
depth, from which it follows that `PngsBelow` and `DepthOf` are what their
recursive definitions say (`PngsBelowIs`, `DepthOfIs`) and that the equations
have no other solution (`OutputIsSolution`).
`WalkInv` says that each open call is about an entry of the call outside it and
as deep in the tree as there are calls around it, with one descriptor each, and
that what is printed is `Explained`: there is a function from the directories
whose calls have returned to what they contributed, it satisfies the equations
of `PngsBelow` for the entries they have read, and what is printed is what the
finished entries of the open calls contribute, from the outermost call to the
innermost. Opening a directory adds an empty contribution at the end
(`PushExplains`); returning from one moves its contribution from the open calls
to the function (`PopExplains`), where it can be moved only once since no
directory is listed twice (`EntryFresh`). `WalkPrintsAll` follows when no call
is open.

**`AssignmentsProofs`.** NQueens: the invariant says that every thread's board
is peaceful and begins with its own queen (`Boards`), that the semaphore is
taken exactly while one thread counts (`OneCounter`), and where `main` is
(`Creating`). `NeverPastTheLastRow` is the pigeonhole principle: the queens of a
peaceful board are in different columns, so a board of `n` has at most `n`, and
the search that goes on after a full board finds no safe column in row `n`.
`CountsEverySolution`: `Done` are the solutions that come before where their
thread's search is, in the order of the search; a column that is skipped is
attacked, so no solution goes through it, and `count` is the number of `Done`.
`TheFlash`: undoing the swaps of the open calls gives back the first route
(`Chain`); the routes tried are those that agree with the array up to a call and
have, there, a city that this call's loop has passed (`RouteInv`); one `fork`
each (`ForkInv`). `OldResultsDoNoHarm` needs `BestInv` as well: the best route
is no worse than any that a child has written.
`RogueOne`: what the server has is a prefix of the buffer (`PrefixInv`), and
`length` is its size if that fits an int (`AsIntFacts`).

Proved but in no run, since they follow from the invariants above: the ranges
of Hogwarts' semaphores (`SemaphoresBounded`), `OnlySolutionsCounted`, and the
`TypeOK` of NQueens, Labs 2, 4 and 5 and Timewar.

Only model-checked:

- the liveness properties (`Completes`, `DayEnds`, `CrawlEnds`,
  `EndsUnlessIncrementLost`, `GallifreyStands`, `EachRunEnds`): the prover does
  not reason about fairness.

## 5. Not modelled

- The accessors of `lab_png.c` that fetch the fields of a header one by one,
  and `zerr`, which prints a message. `Buffer_clean` of Lab 3 has no caller.
- Of Lab 1: the message that no PNG was found. `png_count++` moves the pointer,
  the counter stays 0 and the test is inverted, so it never appears.
- The inside of libcurl, libxml and zlib. In particular Lab 4 calls
  `curl_global_cleanup` after every request while other threads are inside
  libcurl (`curl_xml.c:270`); the models take libcurl's calls to work as
  documented.
- Signals, and `pthread_create` failing in Hogwarts and Labs 2 and 4.
- The use of freed memory: in `catpng` after an error, and in Lab 3's parent
  after `catpng` failed, where the model lets the program crash or go on.
- Restrictions on the inputs: paths fit their buffers of 256 bytes; the lengths
  in a PNG's chunks are sound and a strip has one IDAT chunk; `pnginfo` meets
  one burst of errors, inside the bytes a checksum covers or inside the checksum.
- Lab 1's `catpng` inflates into 30 instead of 100 times the compressed data and
  returns other values; Lab 2's is that of Lab 3. `CatPng` has the factor as a
  constant.
- Integer overflow, except in the buffer sizes of `catpng` and in the size of
  `rogue-one`'s file: the counters stay far below it. `CountsEverySolution` holds
  for boards whose solutions an int can count (up to 18 queens).
- What becomes of the PNGs when a crawler ends early: `CrawlEnds` says that it
  ends, and counts a crash on an unopened log file and Lab 5's return after
  `curlm_init` failed as ends; there the code loses the PNGs found so far.

## 6. Plan

Done, in this order: Lab 3 (ring, processes, abstract pipeline), Hogwarts, Lab 4
with `Crawl`, Lab 5, Lab 2, Timewar, Assignments 1 to 3, Lab 1, `RecvBuf`, the
layout of the ring, log files and threads that cannot be created; then the
proofs, in the order of section 4.

Left: one fault, Hogwarts with an elf that cannot be created.

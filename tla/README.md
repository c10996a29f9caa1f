# TLA+ models of atop

A verification development for atop, the system and process monitor: TLA+ modules translated from its C sources, TLC
configurations that check them on small instances, and theorems checked by TLAPS.

## 1. Inventory

| component | state it keeps | operations | interacts with | hard because |
|---|---|---|---|---|
| **atopacctd** (`atopacctd.c`) | current and oldest sequence number, size of the current shadow file, size of the source file, "clients present" flag | start, copy records, rotate, collect garbage, reset, stop | kernel (accounting file, netlink), clients (semaphores, shadow directory, file locks) | no lock covers reading and rotating; restarts; disk full |
| **acctproc** (`acctproc.c`) | open shadow file, its number, offset, records per file | register, count, read, skip, switch file, private accounting | atopacctd or the kernel, engine | reads three files that change under it |
| **engine** (`atop.c`, `various.c`) | sample number, interval, signal flags, roles of the counters | sample loop, timer, signal handlers, reset | all others | signals between any two statements, a GPU daemon that answers late |
| **process database** (`procdbase.c`, `deviate.c`) | tasks of the previous sample, residue list | add, find, delete, deviation | engine, acctproc | process ids are used again |
| **raw log, twin mode** (`rawlog.c`, `atop.c`) | offset table, log file, inotify watch | write a sample, roll back, read, step, branch | engine, atopsar, atopcat, atophide | written and read at the same time, partial writes |
| **system counters** (`photosyst.c`, `deviate.c`, `ifprop.c`, `netlink.c`) | previous and current counters, hash of interfaces, perf descriptors, static variables | read each section, subtract | /proc, /sys, engine | devices come, go, change places and take over names; counters start again; files are missing |
| **cgroups** (`cgroups.c`) | chains of the previous and current sample, sorted list | walk, deviation, sort, filter, merge | cgroup file system, display | the tree changes during the walk and between samples |
| **process counters** (`photoproc.c`, `utsnames.c`) | list of tasks, its size | count, read | /proc, engine | processes and threads come and go while they are read |
| **netatop interface** (`netatopif.c`, `netatopbpfif.c`) | mapped exit file, place in it | probe, read exits | netatopd through shared memory | the daemon appends and is started again |
| **GPU interface** (`gpucom.c`) | socket, request pending, list of processes | request, response, merge | atopgpud, engine | answer later than the sample; other processes than in /proc |
| **atopconvert** (`atopconvert.c`, `prev/`) | sample in two versions | convert every sub-structure through all versions | raw log | structures of fourteen versions |
| **atopcat, atophide** | position in a log, names seen | concatenate, cut, anonymise | raw log | incomplete logs, writes that fail |
| display (`show*.c`, `drawbar.c`) | position, sort order, filters | keys, layout | engine | layout |
| output (`parseable.c`, `json.c`), atopsar | – | format a sample | engine, raw log | formatting |

### What makes each component correct

* process accounting: every exited process is seen by every reader once; a file in use is not removed; locks are released; a
  reader never hangs; the daemon ends when told to;
* engine: all parts of a sample are of one interval; no trigger is lost for good; SIGUSR2 ends atop with the sample in progress;
* process database: a task is compared with the same task of the previous sample;
* raw log: a reader sees complete samples only, a failed write leaves the file as it was;
* system counters: a device is compared with itself, and what has grown by n is shown as n;
* process counters: who was there all the time is in the list with all threads;
* cgroups: a cgroup is compared with itself, sums over the tree agree with the tree, the lines drawn are those of the tree;
* GPU, netatop: a process gets what it has done itself, all of it and once;
* atopconvert, atopcat, atophide: the output is a log again, says what the input said, and no more than it may.

## 2. Modules

| module | models | code |
|---|---|---|
| `PacctShared` | shadow directory, semaphores, kernel: one operator per system call | `atopacctd.c`, `acctproc.c` |
| `Atopacctd`, `AcctClient` | the daemon, a client | `atopacctd.c`; `acctproc.c`, its callers in `atop.c` |
| `ProcAcct`, `AcctStream` | composition, properties; abstract specification: a log with readers | – |
| `ProcAcctInv`, `ProcAcct_proofs` | inductive invariants `IInv` and `AcctInv`, theorems | – |
| `PrivateAcct`, `PrivateAcct_proofs` | accounting that atops share without a daemon; theorems | `acctproc.c` |
| `TaskDb`, `TaskDb_proofs` | the database of the previous sample, deviations of tasks; theorems | `procdbase.c`, `deviate.c`, `atop.c` |
| `RawLog`, `RawLog_proofs` | a raw log, its writer and its reader, twin mode; theorems | `rawlog.c`, `atop.c`, keys in `showgeneric.c` and `drawbar.c` |
| `Engine` | the loop of `engine()` with signals and the GPU daemon | `atop.c`, `gpucom.c` |
| `EngineInv` | its inductive invariant | – |
| `PhotoProc` | the list of processes and threads | `photoproc.c`, `atop.c` |
| `GpuMerge` | GPU statistics given to tasks | `gpucom.c` |
| `NetAtop`, `NetAtop_proofs` | the exit file of netatop and its reader; theorems | `netatopif.c` |
| `SysFlow`, `SysDev`, `Ranks` | counters of the system: single ones, and tables of devices; the order of numbers | `photosyst.c`, `deviate.c`, `ifprop.c` |
| `Cgroups`, `CgroupList` | walk and deviations of cgroups; the list on the screen | `cgroups.c` |
| `Sampler`, `Sampler_proofs` | composition: the parts of a sample; theorems about `Engine`, `PhotoProc`, `GpuMerge`, `SysFlow`, `SysDev` and `Cgroups` | `atop.c` |
| `CgroupList_proofs` | theorem about `CgroupList` as a part of `Sampler` | – |
| `LogFormats`, `Convert` | the structures of all versions; their conversion | `prev/*.h`; `atopconvert.c` |
| `AtopCat`, `AtopHide` | concatenation; cutting and anonymising | `atopcat.c`, `atophide.c` |
| `LogTools`, `LogTools_proofs` | composition: one of the three programs runs; theorems about `Convert`, `AtopCat` and `AtopHide` | – |
| `MC*` | instances for TLC | – |

`Atopacctd` and `AcctClient` share the state of `PacctShared` and are composed by `ProcAcct`. In the program the other parts
meet in the engine only: a sample reads counters, cgroups and /proc, asks for GPU and netatop statistics, reads the accounting records (`AcctClient` or
`PrivateAcct`), compares (`TaskDb`, `SysDev`, `Cgroups`) and is written (`RawLog`). They share no variable but the order in which `engine()` calls
them, which is what `Engine` has; so `Sampler` follows one part per behaviour (`part`) instead of multiplying their states, and `Engine` tells of the whole sample which interval its
counters, tasks and GPU values belong to.

### Process accounting

The kernel appends a record for every process that exits to a *source* file. `atopacctd` copies the records into *shadow*
files of `MAXSHADOWREC` records each, numbered from 0, as long as there are clients; the file `current` has the number of the
newest one. A client registers by decrementing semaphore 0 under the lock semaphore 1, opens the current file and sets a
read lock on it; from then on it uses neither semaphore: it counts by file sizes, reads, and moves to the next file holding the
lock on the previous one. The daemon removes, oldest first, files on which it gets a write lock, and starts over with file 0
when it finds under the lock that semaphore 0 is back at its initial value.

State: `dir[s]` is the inode at the path of shadow file `s`; `size` and `base` are per inode (a removed file that a client
still has open exists). `base` is a history variable: the number of records logged before the file's first one; it gives every
record a position in one log. `current` is a number, empty, or absent. `users[c]` is what client `c` has taken from semaphore 0, `lock`
the holder of semaphore 1; after a restart both belong to the new semaphore group. All sizes and offsets are in records.

Grain of atomicity: one system call on shared state. `setcurrent()` is ftruncate (`DWipe`) and write (`DSetCurrent`); the
removal of a file is lock (`DGcTry`), close (`DGcClose`), unlink (`DGcUnlink`); `acctprocnt()` is fstat, reading `current`, stat of the newest
file. A test of semaphore 0 and the release of the lock are one step as nobody else can change semaphore 0 downwards in between;
`SEM_UNDO` of dying clients happens before their files are closed, as in the kernel.

What is abstracted: contents and format of records, the two record versions, netlink and polling (the daemon may look at the
source file at any time), elapsed time (garbage collection may happen in any round), the retries of `acctvers()`.

| property | kind | says |
|---|---|---|
| `AcctInv` | invariant | the inductive invariant, see 5; `IInv` and `TypeOK` are parts of it |
| `NoGap` | invariant | from a client's file to the current one every shadow file exists, all but the last are full, each continues the one before |
| `ResetAlone` | invariant | nobody is registered while all files are removed |
| `ReadsEnd` | invariant | `acctphotoproc()` never spins on a protected file; the next file is there when needed |
| `ProtectedStays` | action | a locked file of a registered client stays |
| `StaysInStep` | action | a client that agrees with the files goes on to do so |
| `ImplementsStream` | refinement | what clients in step read is the log (`AcctStream`): nothing twice, nothing left out |
| `CatchesUp` | liveness | a client reads every record |
| `Answers` | liveness | semaphore 1 is given back (`LockReleased`) and SIGTERM ends the daemon (`StopsOnSignal`) |

A client is *in step* (`InStep`) when its number, file and offset belong together. It is not when its registration overlapped a rotation
(`acctvers()` counts over two files and takes the result as an offset in the first one) or when `acctrepos()` skipped to a file that
does not exist yet. `StaysInStep` excludes the second by `Overskips`. `ReadsEnd` and `InStep` ask that there is no `leftover`: a history variable for shadow files from before a reset
that stayed because a dying client still had one of them locked. A client may take such a file for the next one, and `DRotate` truncates it when its turn comes.
`ProtectedStays` excludes by `Condemned` the file whose trial lock just succeeded; see 6.

### Private accounting

Without `atopacctd` the first atop switches on accounting to a file of its own, others join, the last one switches it off and removes
the file; a user that is alone truncates the file when it gets large. `holder` is who has decremented semaphore 0, the mutex, `counted` who
has decremented semaphore 1; both are given back by `SEM_UNDO` when a process ends (`Dies`). `accton` is the inode the kernel
writes to, `file` the one at the path. An inode that nobody has open may be used again (`FreshInode`). Each action is one system call on shared state; only unlink and
rmdir are one step. `Stop(p)` is the signal handler
`cleanstop()`, which interrupts its own process wherever `SignalAt` allows.

| property | kind | says |
|---|---|---|
| `EveryExitSeen` | action | a process that exits is recorded in the file of every user; nobody truncates the file of another |
| `PrivateSound` | invariant | types, and `NeverSpins`: `acctphotoproc()` has as many records to read as were counted |
| `LastStops` | invariant | after the last atop accounting is off and the file removed |
| `Responds` | liveness | the mutex is given back (`MutexReleased`), an atop that is told to stop ends (`Stops`) |

The exceptions in these properties are the ways in which the code does not keep the promise: `spoiled` marks the failing start of
one atop that switches accounting off for all, and the last atop that takes a file that does not grow for somebody else's.

### Tasks

`chain` is the hash table. One chain stands for the 256 buckets: an id always maps to the same bucket, and `pdb_gettask()` and `pdb_deltask()` look at entries of one id
only. `residue` is the list of entries not seen in this sample, `pr` the pointer of `pdb_cleanresidue()` to the next one. Tasks are records of an id, which of the processes with
that id it is (the start time follows from it), and whether it is the process or its main thread. The order of /proc is arbitrary except that a process comes
before its threads, as `photoproc()` lists them. The system moves only while the engine waits or between reading /proc and reading the accounting
records; what happens later in a sample makes no difference to it.

`used` is what a task has consumed, `reported` the sum of what the samples showed. It saturates one above `MaxUse`, which is enough to violate
`NoDouble`. Two histories name the situations the database cannot handle: `overlap`, tasks first seen while an entry of an earlier process with their id is there, and `unmatched`,
processes whose accounting record came too late or too early to meet their entry.

| property | kind | says |
|---|---|---|
| `NoDouble` | invariant | what a process has consumed is reported at most once |
| `AllCounted` | action | and all of it once its accounting record is read |
| `DbSound` | invariant | types; at most one entry per id when a sample is done (`OncePerId`); `pdb_cleanresidue()` never follows an entry that was removed (`NoDangling`); `deviattask()` allocates as many places for active processes as it fills (`ActiveFits`) |
| `Forgets` | liveness | entries of processes that are gone are removed |

### Raw log

`file` is a sequence of parts: the file header, then for each sample `HeadLen` parts of its record header and `DataLen` parts of its data. They appear one by one, as
`writev()` promises no more; a write can stop after any of them, the writer can be killed after any of them. `Open` scans an existing file
in one step, as there is one writer at a time. The reader keeps `rpos`, the offset, and `off`/`offcur`, the list `offlist` of offsets for
stepping back. `Take` is the body of the loop in `rawread()` up to the display, the commands are what the display returns together with what
`rawread()` does about it; both displays (text and bars) do the same. In twin mode the writer is the child: it starts with the reader, ends
with it, and `event` is the inotify event, one for all modifications since the last read. The wait of two seconds for the data of a sample (`GiveUp`) may end at any
point of the writer, as nothing bounds the time of a `writev()`. The number of a sample is its time: clocks do not go back.

| property | kind | says |
|---|---|---|
| `LogSound` | invariant | types; complete samples in ascending order, nothing behind an incomplete one (`LogWhole`); after a write that failed the file is as before (`RolledBack`); the list of offsets is that of the records up to the current one (`OffsetsInOrder`) |
| `ShownWhole` | invariant | a sample is shown that is complete in the file |
| `Navigates` | invariant | next, previous, begin, end and branch show the sample asked for |
| `EndsForCause` | action | a reader gives up on a sample (at a part of its record header, `rawlog.c:975`, or after two seconds without its data, `rawlog.c:1040`) only when just this sample is being written, a writer was killed, or a write failed and could not be rolled back before it read from it; never at data it had found to be there, nor in twin mode for lack of a file header |
| `Answered` | liveness | a command is answered by a sample or the end |

`ShownWhole` and `Navigates` make an exception for a record header that is rolled back and replaced by another writer while the reader waits for its data (a restart within two seconds).

### The loop of the engine

`pc` names the place in the loop of `engine()`; a handler (`getalarm`, `getusr1`, `getusr2`) may run between any two steps, the test of `awaittrigger` and `pause()`
are two of them (`Await`, `Pause`), and a signal wakes a paused process. What counters hold is told by when they were read: `presstat` and `cursstat` are "boot" for
zeroes and "last" for a sample. `db` says whether the tasks and cgroups of the previous sample are known. The GPU daemon is a queue of requests and one of answers;
an answer is "now" or "old". `final` follows SIGUSR2 up to the samples shown after it. `Forever` is 0xffffffff.

### Processes, GPU, netatop

`PhotoProc` has the two passes over /proc and over each `task` directory, with changes of the system between any two of their reads: the
number of threads that the status file tells, the calibration when it differs, the list that is full and is taken again by `engine()`.
`GpuMerge` is a function with all answers of up to `MaxEntries` entries and all sets of present and exited tasks as its inputs; what a process does on a GPU is
the number of the GPU, so a sum is a set and a part of it can be seen. In `NetAtop` a record is two places (the byte with its length, the data), so that
reading one byte too many is seen.

### Counters of the system

`SysFlow` follows one section of `struct sstat` per behaviour from its file, which may be missing in any sample, through `photosyst()`, with the static variables it keeps, to
`deviatsyst()`. A section has a counter `c`, a gauge `g` and a counter `o` that only some kernels have: fields that are read and subtracted alike are one.
`SysDev` follows one table: interfaces with the hash of their types and its refresh, the limit `MAXENT` and the way virtual ones make room; disks, which are searched from where the
previous one was found; NFS mounts, which are recognised by their age; CPUs, which go offline and keep their counters, with perf descriptors and the sums of a NUMA node. A device
has an identity that the program does not see. What is summed for a node is `Summed`: the test `(online && word >> i) & 1` (`photosyst.c:1244`) holds of every CPU that is online and not above
the highest of the node in its word of 64, so that CPUs of other nodes are summed too (see 6).

### Cgroups

`todo` is the stack of `walkcgroup()`; directories and processes come, go and move between any two of its steps. `cgdev` tells with which entry of the
previous chain an entry is compared: side by side as long as both agree (`InSync`), from then on by `hashfind()`. The directories below a cgroup come in any order, as `readdir()` gives them. A name is one character, and two different characters
have different hashes. `CgroupList` is `cgsort()` and `mergecgrouplist()` for every tree up to `MaxCgroups` and every use of the resource. The root always counts as used, as it has the kernel threads; any other cgroup may count
as unused above a used one, since the -1 that `walkcgroup()` returns for a directory that is gone is added to the processes below its parent (`SkipsEmpty`).

| property | kind | says |
|---|---|---|
| `OwnInterval` | invariant | the first sample and the first after a reset are since boot, in counters, tasks and cgroups alike, all others since the sample before (`SinceBoot`); GPU values never answer an earlier request (`GpuFresh`) |
| `OneMore` | invariant | at most one sample is shown after SIGUSR2 |
| `Served` | liveness | a sample follows each trigger; atop ends after SIGUSR2 |
| `Complete` | invariant | who was there all the time is in the list, its threads behind it, their number right; the list fits |
| `GpuGiven` | invariant | a task gets what its process did on all GPUs or nothing, and when it must get it |
| `NetOnce` | invariant | every record since the subscription is read once, in order |
| `DevicesRight` | invariant | a device is compared with itself (`Attributed`), virtual interfaces make room for others (`PhysicalKept`), perf counters are read from own descriptors (`PerfOwn`) |
| `CpuContinues` | action | a CPU that comes back shows what it did since it was seen last; a NUMA node the growth of the CPUs that the code sums for it (`Summed`), as long as they are the same |
| `FlowRight` | invariant | a counter gives its growth whatever was missing before; memory and NFS counters never go negative |
| `OwnCounters` | invariant | a cgroup is compared with itself, or with none if it is new, unless two paths have the same hash (`SameHash`) |
| `BelowAddsUp` | invariant | the number of processes below a cgroup is that of its part of the chain |
| `ListRight` | invariant | the sorted list is the tree, larger consumers first (`SortedTree`); corners and lines fit what is shown (`LinesFit`) |

### Programs that make a log of logs

`LogFormats` has for each of the fourteen versions (2.0 to 2.13) every sub-structure of a sample as a sequence of members; neighbours that no version separates are one.
`Convert` runs `convert_samples()`: each sub-structure of each version goes through the function of the table `convs` into the next one. A word that was measured is
its own name <<member, entry, number>>, so where it ends tells whether it was converted rightly. `AtopCat` and `AtopHide` are the `main()` of their programs; every read and
write may fail. In atopcat a failure of a header or of a record is not noticed, as -1 is compared with the unsigned `sizeof` (`atopcat.c:116`, `146`, `328`), and one in reading a record ends the file
(`atopcat.c:192`): `catout` is what is given to `write()`, `lost` what of it is not written.

| property | kind | says |
|---|---|---|
| `Faithful` | invariant | a value that no version in between drops is in its own member of its own entry (`Kept`); cgroups are announced exactly when they are there (`Announced`) |
| `NotInvented` | invariant | what the log did not have is zero or says that it is not known |
| `WholeSamples` | invariant | whatever write fails, the converted log has whole samples in order |
| `Concatenates` | invariant | atopcat gives to `write()` the first header and the complete samples of the files that fit, in their order, all of them when it ends with 0 or at a file that does not fit; of this only headers and records can be missing from the result unnoticed, and another piece that is missing is the last one and ends it with 11 |
| `CutOut` | invariant | atophide writes the samples of the window, all of them and no other |
| `Anonymous` | invariant | no private name is left (`Hidden`), a name has one stand-in and no two share one (`OneStandin`) |

`Kept` and `NotInvented` leave out what is known to be lost (`KnownLoss`): the last level caches, the second and later NUMA nodes from before 2.10, InfiniBand ports from before 2.11,
and the cgroup index and long names of 2.12: sub-structures whose table entry is `justcopy` although their entries have grown.

## 3. Runs

Clients and atops are model values, symmetric where no liveness is checked. `MaxSeq`, `MaxExits`, `MaxStarts`, `MaxKills`, `MaxGen`, `MaxUse`, `MaxSamples`, `MaxEvents`, ... are bounds that
guard actions; a daemon at `MaxSeq` cannot rotate, so liveness is checked with `MaxSeq` at least the number of records. `CHECK_DEADLOCK FALSE`
everywhere: bounds are reached and the programs end.

| run | instance | shows |
|---|---|---|
| `pacct_restart` | 1 client that reads 1 record a sample, files of 2 records, 4 records, 2 starts, 1 kill, stop, disk faults, truncation | safety and refinement across restarts and faults, skipping |
| `pacct_two` | 2 clients, 3 records, 3 files | registration against reset and garbage collection, `AcctInv` |
| `pacct_live` | 1 client, files of 1 record, stop | the liveness properties |
| `private` | 2 atops, 3 starts, 1 kill, 2 exits, failing calls, signals where the handler can work | private accounting |
| `taskdb` | 1 id used by 2 processes with a thread each, late records, zombies, resets | database and deviations |
| `rawlog` | 3 samples, 2 writers one after the other, failing writes, 1 kill, with and without twin mode, `-b` and `-e` | raw log |
| `sampler` | loop: 2 samples or no end, 2 signals, 1 reset; 3 processes of up to 2 threads and 3 changes; 3 GPUs; 2 netatop files of 4 records; 3 devices in a table with room for 2, 2 changes, 3 samples; trees of 2 levels, 2 changes, 2 walks; lists of 5 cgroups | the parts of a sample |
| `logtools` | every pair of versions, 3 entries per table, 2 samples; 2 files for atopcat; 3 samples, 4 names, 3 times for atophide | conversion, concatenation, anonymising |
| `taskdb_vreuse`, `sampler_vskips`, `logtools_vcopied`, `logtools_vzombie` | the same | the findings, see 6 |

Two records per file are the least with a file that is neither empty nor full; three files the least with one between the oldest and
the current; two starts the least for a client with files of another daemon. Two clients are enough for one that registers while the other
goes: the semaphores tell only "none" from "some", and file locks only "locked" from "not". The same holds for two atops with private accounting, where the code
asks "am I the only one"; the third start is for one that comes back. Ids are independent of each other, so one is enough; two processes are the
least for an id that is used again (three were checked with nothing consumed). Three samples have a first, a last and one in between (four were checked). A record header of
two parts can be torn; data of one part is there or not.

`sampler`: two samples have a first and a later one, after which every round is the same (the count is capped at `MaxCnt`); two signals are the least for one that comes in
the handling of another. Three devices are the least for a search that wraps round; a third sample is the first with a previous one that already had a predecessor. Two levels of
cgroups have a directory with siblings and with one below it. Five cgroups are the least for a corner that is passed to a cgroup that has others below it, under a level that goes on. The NUMA node has the CPU 1, so that CPU 0 is summed although it is not of the node. The CPUs of the run satisfy `SquaresTell` (see 5), which `MCSampler` states as an assumption.
`logtools`: a sample is converted independently of all others, two are enough for the order; three entries have a first, which is where it always was, and two that move.

## 4. Fairness

`FairSpec` has weak fairness for the daemon and for each client or atop that is running, for the engine, and for the writer and the reader: these are processes the kernel
schedules, and none of their steps waits for another process except where the step is disabled (records to come, a mutex, an event). A step on the mutex of
private accounting needs no strong fairness here: with a bounded number of starts and exits nobody takes it for ever. Exits, starts, kills, signals, keys, failures and what the system's processes do are not fair: they need
not happen. In `Engine` the steps of the loop are weakly fair, and so is `getalarm`: once `alarm()` is set the kernel delivers the signal; SIGUSR1, SIGUSR2, resets and the answers of the GPU daemon are not
(its silence is ended by the time limit, a step of the loop). `Served` is checked with an interval: without one, a signal that comes between the test and `pause()` is followed by a sample only when another one comes.
Taking `netlink_recv()` for a step the daemon can always take is justified by its callers: the daemon itself polls
when netlink fails, and any exit wakes it; an idle system on which SIGTERM hits the instant before the wait is described in 6.

## 5. Proofs

### Process accounting

`ProcAcct_proofs` proves, for every number of clients, every file size and all bounds:

* `Invariance`: `Spec => []IInv`
* `TypeCorrect`, `ResetIsAlone`, `NoGapAhead`: the invariants `TypeOK`, `ResetAlone`, `NoGap`
* `LocksProtect`: the action property `ProtectedStays`
* `ReadersInvariance`: `Spec => []AcctInv`
* `ReadsComeToAnEnd`: the invariant `ReadsEnd`
* `ReadersFollowTheLog`: `Spec => ImplementsStream`, the refinement of `AcctStream`
* `StepIsKept`: the action property `StaysInStep`

The assumptions are the named ones on the constants: positive sizes, a batch of at most one file (16000 bytes against 10000
records), clients different from "daemon" and "free", naturals as bounds. None of the properties is inductive. `IInv` adds: the sequence
numbers and sizes at each point of the daemon (`SeqInv`, `SizeInv`), that two paths never share an inode (`DirInv`), that the files from the oldest
to the current are full and contiguous whether or not a client looks at them (`FilesInv`), that the holder of the lock is registered and that
a reset holds it (`LockInv`), at which points a client has which files (`FdInv`), that its number is not behind its file
(`ClientSeqInv`), and that the file `switchshadow()` has just opened stays as long as the previous one is locked (`NextFileInv`). The argument for
`LocksProtect`: the daemon removes only the oldest file and only after a trial of the lock, a client only moves to higher numbers, and a new file never gets an
inode that somebody has open.

`AcctInv` is `IInv` with `ReadersInv`, what the clients have counted and read. No file is longer than `MAXSHADOWREC` (`RoomInv`); the size and number of the current file tell
where each file begins in the log (`BaseInv`); without a `leftover` the current file is the last one (`NewestInv`); who registers before a new daemon has renamed the
directory sees numbers that no longer grow (`StaleInv`). Then, per client: `OffsetInv` keeps the numbers of `acctprocnt()` and `acctphotoproc()` in their ranges; `CountedInv`
says at each of their points that the records counted but not yet read or skipped are in the file that is open, or that this file is full and they are in the next ones;
`InPlaceInv` that the offset in the file is `acctsize`, and that the next file could be opened, as long as the lock protects the file; `KilledInv` that a client that was killed is not
counted as a user any more. `CountedInv` does not need the protection of the file: a client that has lost it still has it open.

These proofs do not go through the actions of the daemon one by one. `DaemonKinds` shows that each of them is of one of a few kinds by what it does to the files:
it `Halts`, `Renames`, `Idles`, `Makes` a file, `Writes` to one or `Unlinks` one. `KindsGrow` shows that under each kind what a client has open only grows and what was in later files is still
there, and `StillReads` follows for all clients at once. For the client's own steps `OwnReads` has one case per point of its program.

The refinement takes a client in step for a reader whose cursor is `Position` and whose quota is what it has still to read. `InLog` shows that what was counted is in the log, so
the quota promises nothing that is not there; `OthersGain` and `OthersKeepPlace` that a step of the daemon or of another client leaves the cursor alone, while readers can come and go all together
when the daemon begins or ends to serve (`Attach` and `Detach` of `AcctStream` take sets of readers); `OwnMoves` that a client's own step leaves its place alone, counts, takes the next
record, or skips. `StreamStep` puts them together. `StepIsKept` comes from the same lemmas.

### Private accounting

`PrivateAcct_proofs` proves about `Spec`, for any number of atops, starts, exits and kills:

* `PrivateInvariance`: `Spec => []PrivateInv`
* `PrivateCounts`: the invariant `PrivateSound`
* `EveryExitIsSeen`: the action property `EveryExitSeen`
* `LastTurnsOff`: the invariant `LastStops`, provided that signals do not hit an atop that starts or ends (`KeptSignals`: where the handler can do its work; 6 tells what happens elsewhere)

`PrivateInv` says who has the mutex at which point, and that an atop can end with the mutex in its hands only where a signal stops it (`MutexInv`); who is counted, and that nobody else
is while accounting is switched on or off (`CountInv`); who has the file open (`FdInv`) and for whom `acctswoff()` has something to do (`OwnInv`); that accounting is off, or on for the file in
the directory (`DiskInv`), and that it is off with the file there only while the one who has the mutex is the only user (`OnInv`). `UserInv`, every user has the file open that is there now, and `PlaceInv`, what
was counted is in it, follow along: a user may truncate the file because it takes the count under the mutex. `LastStops` needs one part more, `KeptInv`: as long as nobody was killed or has spoiled it, what is
switched on has an atop that will switch it off.

### Tasks

`TaskDb_proofs` proves about `Spec`, for any process ids, any number of processes with one id and any use of resources:

* `TaskInvariance`: `Spec => []DbInv`
* `DbIsSound`: the invariant `DbSound`
* `NoneTwice`: the invariant `NoDouble`
* `EveryUseCounted`: the action property `AllCounted`

Assumed is that the processes with one id start two seconds apart at least (`Gap`), as the code takes times that differ by one for the same. Two entries with one id are
in the database only in the middle of a sample, and then one of them is in the residue list (`ChainInv`, `ResidueInv`), still ahead of `pdb_cleanresidue()` when that is at work. When the record of a process is read,
`pdb_gettask()` takes its entry off the residue list, and `pdb_deltask()` then removes the first entry with the id from the hash table: with a later process of that id in the database it is the entry of the later one that goes, and the one whose record was read
stays, on no list, until the next sample. `CountInv`: the reports of a
process sum up to what its entry has; with `SampleInv`, by which no counter goes back, this gives both `NoDouble` and `AllCounted`. `ActiveInv` ties the number of active processes that one loop of
`deviattask()` counts to the set that the other one fills.

### Raw log

`RawLog_proofs` proves about `Spec`, for any length of record headers and data and any number of samples, writers and kills:

* `RawInvariance`: `Spec => []RawInv`
* `LogIsSound`, `ShownIsWhole`, `NavigatesRight`: the invariants `LogSound`, `ShownWhole`, `Navigates`
* `EndsOnlyForCause`: the action property `EndsForCause`

`RawInv` has the file (`FileInv`: a part is at its place in its sample, later samples have higher numbers), the writer (`WriterInv`: the sample in progress begins where the last complete one ends, which is where a
roll-back returns to), the list of offsets (`ListInv`: one record behind the other, and the record read now is the next), what the reader has found (`ReadInv`) and what it was asked for: `AskInv` tells for each
command how far the reader is on the way to its sample, among those that were complete when the command was given (`SeenInv`). Constants have to allow one writer at least, as twin mode starts with one.

### The engine

`Sampler_proofs` (its last part) proves about `EngineSpec`, for any interval, number of samples, signals and resets:

* `EngineInvariance`: `EngineSpec => []EngineInv`
* `SampleIsOwn`: the invariant `OwnInterval`
* `LastIsLast`: the invariant `OneMore`

Assumed is that `Forever`, the unsigned -1, is larger than any number of a sample that is counted. `EngineInv` is needed because the properties speak of single points of the loop:
`RoundInv` carries from point to point that the number of the sample is 0 exactly as long as counters and tasks are those of the boot, and that it is -1 only between a
reset and the next round; `AskInv` that a daemon that is still connected owes at most the answer of this sample, and none at all outside `photo` and `response`, which is why
closing the connection on a time-out is needed; `StopInv` that after SIGUSR2 the number of samples is not above the count and the round in progress has not been shown.

### netatop

`NetAtop_proofs` proves about `NetSpec`, for files of any length and any number of daemons, `NetInvariance` and `NetReadOnce`, the invariant `NetOnce`. The invariant `NetInv` adds that
the place is even and right behind the records read (`PlaceInv`), that the number remembered is never ahead of the header (`CountingInv`), and that the header
never counts a record that is not there (`DaemonInv`): together they make the number of records to read one that is never negative and never beyond the file.

The theorems about the engine and netatop are proved for the component on its own: in `Sampler` it either does its steps or stays.

### The parts of a sample

`Sampler_proofs` proves about `Sampler`'s `Spec`, in which one part moves and the others stay:

* `ListIsComplete`: the invariant `Complete`, for any number of processes, threads and changes while /proc is read
* `CountersAreRight`: the invariant `FlowRight`, for all sections, values, missing files and resets
* `OwnIsCompared`: the invariant `OwnCounters`
* `BelowIsCounted`: the invariant `BelowAddsUp`, for trees of any depth and width, any order of the subdirectories and any number of changes
* `CountersAreAttributed`, `InterfacesAreKept`: the parts `Attributed` and `PhysicalKept` of `DevicesRight`, for any number of devices, samples, changes and any size of the table
* `DevicesAreRight`: the whole of `DevicesRight`, for CPUs of which `SquaresTell` holds, see below
* `CpusContinue`: the action property `CpuContinues`, for any number of CPUs and changes
* `GpuIsGiven`: the invariant `GpuGiven`, for any answers of the GPU daemon and any tasks
* `ListIsRight` (in `CgroupList_proofs`): the invariant `ListRight`, for chains of any length and shape, any use of the resource and any choice of what is shown

`PhotoInv` is the invariant of the reading of /proc: where entries are (`PlaceInv`), that the process being read has only its threads behind it and that what its status file told is true as long as it has not changed (`OpenInv`),
that every process read before is as `Complete` asks (`SettledInv`), and that nobody who was there all the time has been passed over (`PassedInv`). It needs a finite set of processes. `FlowInv` says that a sample of a section that could be read holds the
counter of that time, whatever the static variables of `photosyst()` remember. `ChainsInv` says that entries have the hash of their path and deviations are those of the two chains at hand.

`WalkInv` is the invariant of the recursive walk, with its stack made explicit: paths on the stack are new to the chain, members of a subtree follow each other, what is open is a path from the root, and the number
below a cgroup that is still open is the sum over the subtrees that have returned (`SumInv`). Sums are folds, which the library defines by recursion; as induction is out of reach, that a sum exists, takes one more
element and splits at a disjoint union is proved from the smallest counterexample (`WFMin` of `WellFoundedInduction`).

`ListsInv` is the invariant of the tables of devices: a table names no device twice, the place at which `deviatsyst()` looks for an entry is that of the same device or none, and every device in the kernel has counted on
from what the previous sample has of it, or is new (`Since`). The functions of a table are recursive (the search for disks goes on from the last place found): `Iterated` gives
a value to any recursion over 1 to n and `Upwards` carries a statement along it, both from smallest counterexamples. `PropInv` says of the hash of interfaces that it has the types the kernel had
when it was last refreshed, `CountInv` of CPUs that what was seen last is in the place of the CPU, and that the node is the sum over `Summed` of those that are on line.

`PerfInv` ties the perf descriptors to the set of CPUs for which they were opened. `getperfevents()` compares the highest CPU, their number and the sum of the squares of their numbers, so it takes different sets for the same
when these three agree. `SquaresTell` says that they never do. TLC finds it true for the CPUs 0 to 7 and false for 0 to 8 ({0, 1, 5, 6, 8} and {0, 2, 3, 7, 8}); `MCSampler` assumes it of its instance. It is a hypothesis of
`DevicesAreRight` and of no other theorem.

For `GpuGiven` three loops are followed: the sorted answers (`PidSorted`), the list in which each process has one entry with all its GPUs (`Accumulated`), and the merge (`Merged`, `Taken`): an entry that is empty has been given to its
task, and as long as no process below the last task is missing, what is before the place looked at is exactly what has been taken. It assumes a finite set of process ids.

For `ListRight` the inductive invariant `ListInv` keeps more than the property. Of the sorted list it says that it is a `Forest`: it has every member of a set of cgroups once (`Covers`), what is below a cgroup follows it
in one piece (`Nests`), siblings fall in their use (`Falls`), a corner is at the last of its level (`StubMarks`), a line goes on as long as its level does (`LineMarks`), and the lines of the levels above the subtree are those that were
passed down (`LinesAbove`). `mergelevel()` is followed from the last cgroup of the chain to the root, as what it makes of a cgroup depends only on later ones: a head laid before a forest is a forest (`HeadAdded`), the forests of
all children laid one behind the other are one (`Joined`). Of the list that is shown `ShownRight` says that a set of cgroups was wanted that has the root (`Wanted`), that the list comes from the places
of these in the sorted list (`Selects`), and that its marks are right among them (`Marked`); while `mergecgrouplist()` goes through the list, a level counts as going on when one of it is kept later or is still to come (`Goes`). The step that
makes this work is that of a corner that is left out: the last one kept that is not deeper either is of its level and becomes the corner, or no one of that level is kept; below it there is no line of the level to end but that one (`StubGiven`).
This needs nothing of what is wanted but the root: the loop that looks for it stops before the first entry (`cgroups.c:1241`), so a corner of a list without the root would find none.

### Programs that make a log of logs

`LogTools_proofs` proves about `LogTools`' `Spec`, for any logs, options, sizes and failing reads and writes:

* `StandinsInvariance`: `Spec => []HideInv`
* `NamesAreReplaced`: the invariant `Anonymous`, for logs without names that look like a stand-in (`NewNames`)
* `WindowIsCutOut`: the invariant `CutOut`
* `SamplesAreWhole`: the invariant `WholeSamples`
* `LogsAreConcatenated`: the invariant `Concatenates`

`HideInv`: a name never has two stand-ins and keeps the one it has (`StandinsInv`), samples are sequences of items (`SamplesInv`), and what has been written had been given its stand-ins (`WrittenInv`). `CutInv`,
`ConvertInv` and `CatInv` tell for each point of the three programs what the output is: the complete samples before the one in progress, and of that one the chunks that have been written. What is to be written is a
concatenation (`FlattenSeq`) or a selection; that it grows by one sample with each sample, and that what has been written begins it, is proved from the smallest counterexample (`LeastNat`).

### Only model-checked

* Liveness: `CatchesUp`, `Answers`, `Responds`, `Forgets`, `Answered`, `Served`. TLAPS has no rule for fairness and ENABLED.
* `Faithful` and `NotInvented`: a conversion is the composition of up to thirteen functions on structures whose layouts are data; the statement is about that data, all of which TLC runs through.

## 6. Findings

Each has a run that ends with a counterexample.

* `IdsTold`: `pdb_deltask()` deletes by id only: when an id is used again within an interval it removes the entry of the new process, in every sample.
* `SkipsEmpty`: a cgroup removed during the walk counts as -1 processes: its parent passes for empty and is left out with a process below it.
* `ProperLocation`: `convert_samples()` never converts the last level caches: they are zero in every converted log.
* `PlaceHolders`: a zombie has no memory, so atophide takes it for a kernel process and keeps its name.

Met while modelling, not kept as runs:

* process accounting: `gcshadows()` gives up its write lock before it unlinks (`atopacctd.c:1020`), so a client can lock the file in between and loses it; a re-registration that finds `current` empty ends
  the client's accounting for good (`acctproc.c:492`); `acctprocnt()` returns a negative number as an unsigned one after a registration that straddles a rotation; after a
  kill and restart of the daemon a client never notices, as the old files keep their links in the renamed directory; skipping exactly to the end of a full file
  goes to a file that is not there; files survive the reset when a dying client still has a lock (the collection stops at `atopacctd.c:1013`, numbers restart at
  0), and a client may take one of them for the next file, which the daemon truncates when its turn comes (the proof of `ReadsEnd` failed on this); a client that registers during
  a rotation starts beyond the end of its file; a registration that spans a restart is not counted; two daemons started together both pass the check that only one runs
  (`atopacctd.c:244`); a SIGTERM between the test of `cleanup_and_go` and `netlink_recv()` waits for the next process that exits (`atopacctd.c:589`);
* private accounting: SIGTERM between `acct()` and `acctatop = 1` leaves accounting on with nobody to use it (`acctproc.c:328`); a signal while `acctrestarttrial()` has the mutex makes the handler wait for its own process
  (`acctproc.c:576`); an atop killed between `semget()` and `SETALL` (`acctproc.c:243`)
  blocks all later ones; records between the comparison of sizes and the truncation are lost; a start that fails after `acct()` switches off accounting for the others;
* tasks: a zombie whose record was read is counted again; so is a main thread that is listed again when the process gets threads again (`photoproc.c:246`), and a process whose record comes after its entry was removed;
* raw log: a `writev()` that returns -1 is not noticed, as -1 is compared with an unsigned length (`rawlog.c:257`), and the sample is lost without a message; a reader that
  meets a part of a record header ends with "inconsistent raw file" (`rawlog.c:975`) although the writer is just writing it, the wait is only for the data, and it does not ask whether a writer is still at work; a branch to the time of the current sample goes to the next one; a log
  without a sample keeps the reader busy; the upper half waits for ever for the first sample of a lower half that has ended (`atop.c:1403`); inotify events are merged, the display takes one for one sample and stays behind (`showgeneric.c:1134`); two
  writers of one file write at their own offsets (`rawlog.c:290`);
* engine: a signal between the test of `awaittrigger` and `pause()` waits for the next one (`atop.c:858`); SIGUSR2 right after a reset sees the count -1 and takes it for an unsigned number: atop goes on for ever (`atop.c:1166`); SIGUSR2 in the
  sample of a reset allows as many samples as were counted before;
* counters: two sets of CPUs with the same highest number, the same size and the same sum of squares are taken for the same (`photosyst.c:2945`), although the comment has the sum
  tell the set (`photosyst.c:2936`): when several CPUs go and come within one interval, perf descriptors of CPUs that are gone are kept (found by the proof of `PerfOwn`; it takes nine CPUs at least); the comment has each CPU accumulated for its NUMA node (`photosyst.c:1217`), but the `& 1` comes after the
  `&&` (`photosyst.c:1244`), so that a node has all CPUs that are online up to its highest one, those of other nodes included; these sums are wrong as well when one of the CPUs goes offline or comes back (`photosyst.c:1249`);
* cgroups: names of several characters share a hash easily, and then a cgroup is compared with another one; a cgroup that is removed and made again gives negative
  values; a process that moves during the walk is listed twice in a list with one place for it (`cgroups.c:1207`);
* atopconvert: what `KnownLoss` lists; `snet_to_28()` writes a counter beyond its structure, which does no harm because the interfaces are converted later; logs of 2.4 to 2.6 are refused, as their headers are compiled with the present
  length of a port's name; a log of 2.10 with cgroups keeps the flag in its header, so a second conversion ends with an error;
* atopcat, atophide: a log that is cut off in a record, or of which a record cannot be read, ends silently, although the manual promises a message (`man/atopcat.1:74`); a header or a record whose `write()` returns -1 is missing from the
  result and atopcat goes on, with status 0 when there is nothing else to write (`atopcat.c:146`, `328`); a directory among the later files is taken for an empty log (`atopcat.c:116`); a short write of atophide goes unnoticed; from the 100000th name on stand-ins are shared
  (`atophide.c:473`); the names of exited kernel threads are replaced.

## 7. Not modelled

* The display (`show*.c`, `drawbar.c`): layout, sorting and colours on a screen; the keys that move through a log are in `RawLog`, the list of cgroups in `CgroupList`.
* Output as text or JSON and the reports of atopsar: formatting of a sample; they read a log with the same functions as `rawread()`.
* The text of /proc and /sys, the values of tasks and cgroups, totals: what is modelled is which counter goes where and what is subtracted from it.
* Options, rc files, regular expressions, time stamps and compression of all programs.
* Hashes of names longer than one character, the lines of processes in the list of cgroups, the search for the cgroup of a process, the cache of container names.
* The BPF variant of netatop and the search for an exited task in what netatop told; what the GPU daemon gathers (its answers come from `GpuDaemon`); service scripts.

## 8. Plan

Done: all modules of section 2; proofs of every safety invariant and action property the runs check but `Faithful` and `NotInvented`, and of the refinement of `AcctStream`.

Left, in this order:

1. two atopacctd started at the same time, and two writers of one log, each with the line that should prevent it;
2. the lines of processes in the list of cgroups and the lookup of a task's cgroup.

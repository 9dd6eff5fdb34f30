# A TLA+ verification development for PIM-OFIS

PIM-OFIS is a fork of the UPMEM SDK in which a host program can hand new work
to some DPUs of a rank while the others still compute. The development models
that on-the-fly protocol, the library code it stands on, and the DPU side of it.
Line numbers below are those of the sources; `B/` is
`ofis-source/backends/`, `RT/` is `ofis-source/dpu-rt/src/syslib/`.

## 1. Inventory

### 1.1 How the parts interact

    application thread (one per rank)          DPU program (NR_TASKLETS tasklets)
        |  OFIS_* calls, dpu_push_xfer             ^  barriers, WRAM variables
        v                                          |
    host API (B/api) --> UFI (B/ufi) --> control interface, MRAM writes --> DPU

* An application thread reads and writes one WRAM word per DPU,
  `OFIS_dpu_state`: 0 initial and exit, 1 finished, 2 run. This word is the only
  synchronisation between a host thread and a DPU.
* Bulk data are in MRAM. A multiplexer gives a bank to the host or to the DPU; one
  multiplexer serves the two lines of a pair (DPU0-DPU1, DPU2-DPU3, ...) in one
  control interface.
* Threads of one application share `p_count` (the next piece of work) under
  `p_count_mutex`, and write disjoint slots of the result array.
* Ordinary SDK programs reach the same hardware through a job queue per rank, one
  worker and one polling thread per NUMA node, and the rank's lock.

### 1.2 Components

| component | sources | state it keeps | operations | what makes it correct |
|---|---|---|---|---|
| OFIS device calls | `B/api/src/api/dpu_memory.c` 987-1273, `dpu_runner.c` 112-192 | `state_var`; in hardware the state words and multiplexers | set/get state, set mux, launch, parallel_exec, prepare_xfer | a report means finished DPUs; no bank is moved under a computing DPU |
| SpMV host, IG granularity | `SpMV/SpMV_OFIS/CSR_host_OFIS_ig.c` | `p_count`, `part_dpu`, `finish_ig`, `output_vec` | first send, poll, collect, claim, send, trigger | each partition dealt once; every result is collected before its DPU is reused; all threads and DPUs end |
| SpMV host, rank granularity | `CSR_host_OFIS_rank.c` | the same | the same, by whole ranks | the same, and the rank report |
| SpMV kernel | `CSR_dpu.c` | `OFIS_dpu_state`, `DPU_INPUT_ARGS`, the WRAM heap | main loop with three barriers | the state 1 means that all tasklets are done; all tasklets leave |
| MRAM transfers | `B/ufi/src/ufi_memory.c`, `ufi_config.c` 1280-1502, `ufi_runner.c`, `B/api/src/dpu_runner.c` | `host_mux_mram_state`, `run_context` | copy (split, access, transfer), boot, poll | right banks and only those are written; running DPUs keep their banks |
| barriers | `RT/barrier.c` | count, wait queue, lock, the shared link table | `barrier_wait` | nobody returns early, nobody is left behind |
| WRAM FIFO | `B/api/src/dpu_memory.c` 240-430, `B/api/src/api/dpu_fifo.c`, `RT/wramfifo.c` | read and write pointers and the slots of both FIFOs, `nb_reserved` | push with retries, flush, both loops of the runtime | no element lost, doubled or overwritten; an error means that nothing was sent; all inputs are answered |
| PageRank | `PageRank/src/pr/w_ofis/main.c`, `pr_kernel.c` | `p_count`, `sg_pos`, `result_rank` | the rounds of three granularities | indexes stay in range, each slot holds its own subgraph's ranks, all of them at the join; threads and DPUs end |
| thread jobs, polling | `B/api/src/api/dpu_thread_job.c`, `dpu_polling.c` | job slots, FIFO per rank, queue per node, `jobs_thread` | get, add, compute, wait, poll, callbacks | a rank with jobs is in exactly one hand; serial jobs wait for the DPUs; slots come back; no waiter is forgotten |
| command protocol | `B/ufi/src/ufi_ci.c`, `ufi.c` | colour, fault flags | send, wait, retry | an answer belongs to its command |
| other runtime services | `RT/sem.c`, `handshake.c`, `buddy_alloc.c`, `fsb_allocator.c` | wait queues, free lists | give/take, wait/notify, alloc/free | no lost wake-up, no overlap |
| rank allocation | `B/api/src/dpu_rank_handler_allocator.c`, `dpu_management.c` | use counts, the rank list | get, release, iterate | a library in use is not freed |

Behaviours that are hard: DPUs go on while the host reads them line by line; a
word written by the host starts a DPU at once; a pair of lines shares a multiplexer;
a refused or split copy leaves some banks moved; a tasklet releases a barrier's
lock before it stops. The list with lines is `hazards` in PROJECT.json.

## 2. Plan

The order in which the modules were written, the most important behaviour first:

1. `OfisDevice`, `SpmvIg` with `PartitionPool` as what it promises, `SpmvRank`: the
   on-the-fly protocol. `OfisDeviceProofs`, `SpmvIgProofs` and `SpmvRankProofs` prove
   about it.
2. `MuxTransfer`, `MuxTransferProofs`: the copies below it.
3. `SyslibBarrier` with `BarrierPromise`, and `OfisKernel`, which composes the
   barriers with the SpMV kernel and implements the DPU of `OfisDevice`.
   `OfisKernelProofs` proves about them.
4. `WramFifo`: the other way to give work to running DPUs; it takes its barrier
   from `BarrierPromise`. `WramFifoProofs` proves about it.
5. `PageRank`: the second application over `OfisDevice`, at three granularities, and
   `PageRankProofs`.
6. `ThreadJob`: the asynchronous library calls of ordinary programs, and
   `ThreadJobProofs`.

What the plan has left:
* a command protocol (`ufi_ci.c`): commands, colours, retries, and with it copies
  and boots of which one command fails;
* semaphores, handshakes and virtual mutexes of the DPU runtime, the way
  `SyslibBarrier` does barriers;
* `ThreadJob` with two callers, faults and failed polls, once the deadlock of two
  overlapping callers (section 7) is settled in the code;
* a theorem about `SlotsConserved`: the slots of a rank are the free ones, its jobs, those
  of the callers in between and those of master jobs.

## 3. Modules

**OfisDevice** - a DPU is `<<rank, interface, line>>`. `state` is
`OFIS_dpu_state`, `dpuPc` the program's place (`off`, `boot`, `spin`, `run`,
`end`, `halted`), `mux` the side of its bank. Data are the number of the partition
they belong to: `args` what `DPU_INPUT_ARGS` describes, `data` the matrix in MRAM,
`output` the result in MRAM; `Junk` is anything else, such as bytes sent to a bank
the DPU owned. The operators named `OFIS_*` are conjuncts of a host thread's
actions. The multiplexer's pairing is hardware and marked external; it comes from
the comment at `ufi_memory.c` 175.

**SpmvIg** - `thread_fct` of `CSR_host_OFIS_ig.c`. Every device command is a step
of its own where others could see the difference: the report reads one line per
step, the loops that move banks and set states take one line per step, and the DPUs
run in between. A push is one step, since it only touches DPUs that wait. Claim is the
section under `p_count_mutex`.

**PartitionPool** - the promise: partitions are reserved in order, dealt to one DPU
each and stored from there.

**SpmvRank** - the same application by whole ranks. `BootSettles` says whether every
DPU has executed its first statement before the first poll.

**PageRank** - `thread_fct_dpu`, `thread_fct_ig` and `thread_fct_rank` of `main.c`;
`mode`, `num_SGs` and `empty` are the program's inputs. The three threads have the
same shape, so one action stands for the same statement of the three, and `Reported`,
`Unit` and `GuardsEnd` for what differs. Of OfisDevice, `data` stands for the row
pointers and `output` for the ranks, which all live in WRAM. A DPU that gets an empty
subgraph leaves `main` (`PrReturn`); a thread that would index past `dpu_args` stops
at `overrun`. `BootSettles` says, as in SpmvRank, whether every DPU has executed its
first statement before the first poll by whole ranks; nothing in `main.c` waits for it.

**MuxTransfer** - one rank. `mux` is the hardware, `cache` is
`host_mux_mram_state`, `running` is `run_context.dpu_running`. `Copy` chooses
any matrix; the split decision, the access per pair with its busy check and
assertion, and the transfer are steps, and DPUs may stop between them. `missed` and
`overwritten` collect the banks a transfer passed by or hit by accident. A program
with `ofis` also uses the OFIS calls, which leave the record alone; such a program
opens the banks it copies, as the SpMV hosts do. `Asserts` tells builds with
assertions, which is what the build files give by default, from those without.

**SyslibBarrier** - `barrier_wait`, with separate steps for queueing under the lock,
stopping after its release, and each resume of the last tasklet. `__resume` retries
until its target has stopped (`dpuruntime.h` 39). The load of the next link after a
resume comes before the resumed tasklet queues itself elsewhere, because the pipeline
issues tasklets in turn; the model takes this from the hardware and does not check it.
**BarrierPromise** is what a barrier promises: nobody leaves a wait before everybody
has entered it.

**OfisKernel** - the tasklets of `CSR_dpu.c`: one step per access to the volatile
`OFIS_dpu_state`, barriers from SyslibBarrier, and the host as the DPU sees it.
`ActsAsDevice` maps it to `DpuStep` of OfisDevice, which justifies giving a DPU one
thread there: what is shown with OfisDevice holds for the kernel with its tasklets.

**WramFifo** - one DPU's input and output FIFO. `in_*` and `out_*` are the DPU's
pointers and slots, `h_rd`, `h_wr`, `h_data` the host's copies, which are old as soon
as they are read. `mode` says which of the two loops of `wramfifo.c` runs. Every
access to a FIFO outside the mutex, every memcpy and every pointer increment is a
step; the barrier of the first loop is `BarrierPromise`, which `OfisKernel` checks
SyslibBarrier to implement. The calls of the host are push and flush, one at a time,
as the rank's lock makes them. With `Drains` the application collects all
outputs before it clears `*active`. The DPU finds a slot by its pointer, the host keeps
the slot's number in a `uint8_t` (`HostSlot`): `NrIndexes`, 256 in the code, is how many
slots it tells apart.

**ThreadJob** - application threads take slots (`TakeSlots`, `TakeMaster`), add jobs
rank by rank (`AddRank`, `AddQueued`) and wait (`WaitSync`); workers take a rank from
the work queue and execute its jobs (`Pick` to `NextAfterWake`, with `Callback` to
`ReleaseMaster` for callbacks); `PollerTop` and `PollerRank` are the polling thread.
Each section under `jobs_mutex`, the queue's mutex or the rank's mutex is one step
unless it takes a second mutex inside. Calls are data: kind, ranks, synchronous or
not, flags; transfers and the functions of callbacks may fail. A condition variable is
a set of waiting threads, and a signal removes one of them. `crashed` stands for a failed assertion and for the null pointer that
`dpu_thread_handle_global_block` (line 180) goes through.

**MCMuxTransfer** and **MCThreadJob** hold the values of constants for TLC.
The modules named `...Proofs` hold theorems and lemmas; each EXTENDS the module it is
about, and **OfisDeviceProofs** holds what they share about sets of DPUs.
Definitions marked "Fault" in the modules are deliberate mistakes: each shows that a
property would notice it; no specification uses them.

## 4. Runs

| run | instance | what it shows |
|---|---|---|
| `ig` | 2 ranks, 1 interface, 2 lines, 7 partitions | two threads race for the last partitions while DPUs compute: right, kept and complete results, banks, indexes, the partition pool, termination |
| `rank_settled` | 2 ranks, 1 interface, 2 lines, 8 partitions | the rank host when no poll happens during a boot: a report is true, banks, complete results, termination |
| `rank_booting` | the same, polls during the boot | counterexample: 2 + 0 sums like 1 + 1 |
| `pagerank` | 1 rank, 2 interfaces, 2 lines, 7 or 8 subgraphs, one of them empty or none, three granularities | which granularities keep their indexes in range, results, the join, the end; by whole ranks when no poll happens during the boot |
| `mux_sdk` | 2 interfaces, 4 lines, one disabled DPU, with and without OFIS calls | copies, refusals, boots, stops; the record and the banks |
| `mux_conflict` | 3 interfaces, 2 lines | counterexample: an unsplit matrix with a conflict |
| `mux_ofis` | 2 interfaces, 2 lines, OFIS calls | counterexample: a stale record, and other banks written |
| `kernel` | 3 tasklets, 3 barriers, 3 partitions | the kernel's and the barriers' promises, and its refinement of the device |
| `fifo` | 2 slots, 2 tasklets, 3 items, 1 retry, both loops | no element lost, doubled or overwritten; order; every input answered |
| `fifo_refused` | the same | counterexample: an error for data that was sent |
| `jobs` | 2 ranks, 1 DPU each, 3 slots, 2 workers, 1 caller, eight programs | serial jobs wait, assertions hold, one hand per rank, slots return but for single calls that never ran, calls return |
| `jobs_missed` | 1 rank, 1 worker, DPUs that wait for the host | counterexample: a push nobody wakes the worker for |

**Bounds.** The sources fix 8 interfaces, 8 lines and 64 DPUs per rank; the constants
replace those numbers. Two lines are a pair, the least that shares a multiplexer, and
two ranks the least that share `p_count`; seven partitions for four DPUs do not
divide, so rounds end in the padding and one line gets work while another exits. More
pairs and interfaces are what the theorems are for: every safety property of `ig`,
`rank_settled`, `pagerank` and `kernel` is proved for all of them. PageRank has two interfaces because its per-DPU
report pairs the DPUs of one interface, and 7 and 8 subgraphs because one of them
fills whole rounds. Three interfaces let one mismatch of a pair hide both a match and
another mismatch. With three tasklets a barrier's list has a first, a last, and a
waker outside it; three partitions use each barrier again after its reset. Three items
in two slots fill a FIFO and wrap around it. Three slots per rank let a program have two
calls under way and make the third wait for a slot, since a synchronous call takes two;
with two, three or four slots the same properties hold, and `SlotsConserved` needs its
allowance with each. `NrIndexes` is the code's. `NrItems`, `MaxRetries`,
`NrJobs` and the length of programs only bound the length of a run; nothing else is
cut off.

**Deadlock** is checked except where a program really stops: in MuxTransfer after a
failed assertion (`pc = "abort"`), in PageRank after `overrun` or when all is done,
and in WramFifo and ThreadJob at the end of the
program. There the liveness properties say that it is the end. In the others a final
stutter stands for the normal end.

**Fairness.** Weak fairness of each host thread (the operating system runs it; it
never blocks except on mutexes, whose sections are steps), of each booted DPU, of each
tasklet that has not stopped (the pipeline issues them in turn), and in ThreadJob of
callers, workers, the polling thread and, with `DpusStop`, of the DPUs. WramFifo asks
strong fairness in two places: of taking the mutex, which the other tasklets take and
release for ever while one tries, and of beginning a push, beginning a flush and
clearing `*active`, which an application does again and again in some order of its
own. No fairness is assumed of MuxTransfer; its properties are safety.

## 5. Findings

* `rank_booting` / `FinishedRankSound`: `OFIS_get_finished_rank` sums the states
  (`dpu_memory.c` 1222) where README.md 17 promises that it "returns 1 only if all DPUs
  in a given rank have finished". With `BootSettles` the report is sound: after the
  boot the rank host only polls while states are 1 and 2, whose sum is the number of
  DPUs in one way only. `thread_fct_rank` of PageRank calls the same function right after
  the launch (`main.c` 249-251): with `BootSettles = FALSE`, one interface with two lines,
  four subgraphs and rank granularity alone, TLC refutes `RanksCorrect` (`result_rank`
  receives what an unfinished DPU happens to hold) and `RanksComplete` (ranks are collected
  before they are computed, and never again) of `PageRank`.
* `mux_conflict` / `NoMuxConflict`: `duplicate_transfer_matrix` stops looking at the
  first mismatch of a pair of lines (`ufi_memory.c` 280) and does not split a matrix
  such as {(CI0, line 0), (CI1, line 1)}; the assertion at 420 fails. Pairs with a
  disabled DPU are skipped altogether (244-247) and can lead to the same assertion.
* `mux_ofis` / `OnlySpecified`: `OFIS_set_mux_ig` (`dpu_runner.c` 177) does not
  update the record, so a later write for some DPUs of a line reaches others. The SpMV
  programs do not meet this: the DPUs of a reported line are written together, except
  for the last, partial batch, whose spare DPUs get a padding partition.
* `fifo_refused` / `RefusedNotSent`: once a FIFO was full `retry` stays true, so the
  round that at last sends the input counts as a retry as well (`dpu_memory.c` 376-379);
  with `max_retries` reached the call returns `DPU_ERR_WRAM_FIFO_FULL` for an input it
  has sent. `ExactlyOnce` is about the inputs that were sent and holds; a caller that
  believes the error pushes the input a second time.
* `jobs_missed` / `PushServed`: the worker counts the queued jobs (`dpu_thread_job.c`
  538) after it has released `jobs_mutex` (512). A parallel job added in between is
  neither executed nor noticed by the polling thread until a DPU stops. In the run
  `jobs` DPUs stop by themselves and every call returns.

## 6. Proofs

All theorems hold for every value of the constants that satisfies the named
assumptions of the modules.

**OfisDeviceProofs** (`TopologyAssumption`) states no property; it holds what the
applications' proofs share. Positions in `DPU_FOREACH` number the DPUs of a rank
without gaps or repetition (`PosOnce`, `PosRange`, `PosCovers`). When a set of DPUs is
dealt consecutive numbers, each gets the first one plus the number of DPUs ahead of it
(`Ahead`): all in range, no two the same, none skipped (`AheadRange`, `AheadOnce`,
`AheadCovers`). And a counter that advances by whole ranks stays a multiple of a rank's
size, so a block that begins below a whole number of ranks ends there too (`Aligned`,
`NextBlock`).

**SpmvIgProofs** (`TopologyAssumption`, `FirstAssignmentFits`). `OutputCorrect` and
`MuxExclusive` are not inductive: that a pulled result is the right one depends on
where the host thread is and on what it believes. `IInv` adds
* `FinishedDpusWait`: a DPU that says 1 spins, and keeps saying 1 from the moment a
  poll counts it until the host gives it its next state (`Holds`); so the line-by-line
  report is still true when it is used;
* `BanksFollow`: a bank is on the host's side only before the boot or while its DPU
  says 1; reported lines come in whole pairs, so moving one moves no computing DPU;
* `DataFollow`: arguments, matrix and result in a DPU belong to the partition the host
  recorded for it, except in the window between sending arguments and matrix.

One lemma per action shows that each preserves `IInv`; the theorems are
`TypeCorrect` (`TypeOK`), `MuxSafe` (`MuxExclusive`), `InvariantHolds` (`IInv`) and
`ResultsCorrect` (`OutputCorrect`). The run `ig` checks `IInv` as well. On top of it:
* `ResultsKept` (`NoResultOverwritten`): a DPU may be given something new only once its
  last result is in `output_vec`. The invariant `SavedInv` says so for the window from
  the pull to the new state. Padding is the difficulty: a DPU with a padding partition
  writes nothing, so the result of the partition before it stays in MRAM; `SavedInv`
  therefore also says that a DPU with a padding partition holds nothing new.
* `IndexesStayPadded` (`IndexesPadded`): a thread that deals partitions starts at one
  that exists, and a DPU comes after less than a rank's worth of others.

`PoolImplemented` (`ImplementsPool`) is the refinement of `PartitionPool`: `SendFirst`
and `SendArgs` are `Deal`, `Retrieve` is `Store`, `Claim` is `Reserve`, and every other
step of threads and DPUs leaves the pool alone. The invariant `DealInv` is about
`Reserved(r)`, the partitions that thread `r` has taken and not handed out. They lie
behind `p_count`, belong to one thread, and no DPU and no slot of `output_vec` has them
(`Behind`, `Fresh`); no two DPUs were last given the same partition (`DealtOnce`); and a
DPU gets its next one after the pull stored its last (`GivenBack`). `p_count` advances
by exactly the number of reported DPUs (`ReportedSize`).

`JoinComplete` (`CompleteAtJoin`): once a thread is joined, every DPU of its rank was told
to exit, and once all are, `output_vec` is complete. Its invariant `JoinInv` has three
parts. `CountInv`: `finish_count` is the number of DPUs of the lines told to exit, each
counted once, so reaching the rank's size means all lines. `ToldLast`: a DPU is told only
when nothing is left in the queue and its last result is stored. `NothingLost`: every
partition behind `p_count` is stored, in a DPU, or reserved by a thread. At the join the
last two cases are excluded by the first two parts, so only "stored" remains.

**SpmvRankProofs** (`TopologyAssumption`, `WholeRanks`; the last three also
`BootSettles`).
* `RankTypeCorrect` (`TypeOK`) needs nothing of the boot: `NumberInv` says that
  `p_count` and every thread's `curr` are multiples of a rank's size, so that no index
  passes the last partition although the loop of line 239 has no guard.
* `RankReportSound` (`FinishedRankSound`): the words read are 1 and 2, so their sum is at
  least their number, and equal to it only if all are 1 (`SumTells`); a DPU that says 1
  waits, so the words read first are still true at the end of the poll. Where the
  assumption enters is that no word is 0, which is what `rank_booting` exploits.
* `RankMuxSafe` is `MuxExclusive` for this host.
* `RankJoinComplete` (`CompleteAtJoin`): `DataFollows` says whose arguments, matrix and
  result a DPU has at each statement of the thread, `NothingLost` that every partition
  behind `p_count` is stored, with a DPU, or owed by a thread (`Owed`) that has reserved
  it. Without `BootSettles` it fails together with the report it rests on.

**PageRankProofs** (`TopologyAssumption`, `PageRankAssumption`), for the three
granularities at once; `NoRankMisplaced` and `NoRankMissing` assume `Settled`, which is
`BootSettles` for the rank granularity and nothing for the others. `UnitOf(d)` is the pass of the state loop that reaches a DPU, and
`Held(d)` says that it was reported and not yet reached, which is when it surely says 1.
`Follows` relates a DPU's state to its thread's statement with these two; at rank
granularity it also needs `SumTells`, as for SpMV, and `BootSettles`.
* `NoRankMisplaced` (`RanksCorrect`): `DataInv` says that a DPU that says 1 has the ranks
  of `sg_pos`, its last subgraph, but for the reported ones that were given another
  between `SendArg` and their state.
* `IndexesGuarded` (`IndexesInRange`): when whole ranks divide the subgraphs, a rank that
  is dealt any is dealt a whole rank of them (`WholeRanks`). This needs nothing of the
  boot: a report may be false and the indexes are still in range.
* `NoRankMissing` (`RanksComplete`): `finish_count` is the number of DPUs told to stop
  (`Counts`), which happens only when nothing is left to deal; those have delivered
  (`Delivered`); and every subgraph behind `p_count` is stored, with a DPU, or owed
  (`NothingLost`).

**MuxTransferProofs** (`MuxTransferAssumption`).
`RecordTrue` and `RunningKeepsBank`, which are about programs without OFIS calls, hold
by one invariant: the record equals the hardware and running DPUs have their banks.
Each needs the other: the busy check looks at lines whose *record* differs, so it
protects a running DPU only if the record is true, and lines that are skipped as
already right keep the record true. Theorems: `RecordIsTrue`, `RunningDpusKeepBanks`.
* `MuxTypeCorrect` (`TypeOK`) and `NoBankMissed` (`NothingMissed`) hold with and without
  OFIS calls. The invariant `CopyInv` says that the banks of the pairs the access loop
  has passed are open (`Opened`). After a split this needs more: the first half may
  close banks that the second half is for, and the loop opens them again only if the
  record says so. `PairKnown` is what makes it right: a pair of lines is either still as
  the program opened it, or was moved by the library, which then knows its sides.
* `NoBankOverwritten` (`NothingOverwritten`) also assumes `Asserts`: `CloseInv` says that
  a passed pair gives the host no bank of an interface without a buffer, which follows
  from the assertion of `ufi_memory.c` 420 and a true record. Without assertions
  the matrix of `mux_conflict` goes on to overwrite a bank.

**OfisKernelProofs** (`KernelAssumption` and `BarrierAssumption`).
* Its first part is about `barrier_wait`, whoever calls it, and `NobodyForgotten`. All
  barriers share one table of links, and the list of a barrier is a circle until its last
  tasklet takes the lock and keeps its first in hand. `BarrierInv` says so: `LockInv` and
  `CountLeft` tie lock, count and waiting tasklets together, and `Queues` says that some
  sequence (`Links`) without repetition runs through all waiting tasklets along the
  table. The property walks the links by a recursive function, so that its value is found
  by induction on the length. The library's induction theorems take an operator, which
  the provers cannot supply; `LeastNumber` and `Induction` say the same of sets of
  numbers, from the well-foundedness of `<`.
* `TypeCorrect` (`TypeOK`), `NobodyLost` (`NobodyForgotten`), `ResultComplete`
  (`FinishedIsComplete`) and `HeapSafe` (`HeapIdleAtReset`) follow from `IInv`
  (`InvariantHolds`). `RoundInv`: each finished round of `main` is three waits, so the
  number of waits tells where a tasklet is. `Together`: nobody has ended more waits than
  another has begun. `StateInv`: what the state word and the partition are when tasklets
  are in round `Flags`, the round of tasklet 0, who writes them.
* `PromiseKept` (`KeepsPromise`) refines `BarrierPromise`: a step of the tasklets enters
  one wait, leaves one or more, or does neither, and `Together` is the guard of leaving.
* `OneDpu` (`ActsAsDevice`) refines the DPU of `OfisDevice`: it boots with the first
  tasklet's first statement, runs from the first tasklet past the first barrier of a
  round to the last one at the second, ends with the flag and halts with the last
  return; no other step shows. `HeldBack` is needed to know these firsts and lasts: who
  waits at a barrier has nobody past it, unless the waker is letting its tasklets out,
  and then those not yet out are still queued.

**WramFifoProofs** (`WramFifoAssumption`; all but `FifoTypeCorrect` also `IndexFits`: the
slots are at most as many as the host's `uint8_t` numbers). `FifoTypeCorrect` (`TypeOK`) and
`FifosKeepTheirSlots` (`WithinSlots`, and `UnreadKept`: a push changes no slot of the input
FIFO that is still to be read), for any number of tasklets, in both loops. `HostSlotFits`
is where `IndexFits` enters: the slot the host takes is then the pointer's own. Three
invariants carry `WithinSlots`:
* `HostInv`: the host's copies of the pointers may be old, but err on the safe side: the
  DPU only ever frees input slots and fills output slots;
* `TaskletInv`: whoever holds the mutex is alone in the sections under it, and
  `nb_reserved` is the number of tasklets with an output slot;
* `RoomInv`: for each reservation there is a free output slot. Between the increment of
  the write pointer and that of `nb_reserved` a tasklet counts twice (`Needed`), so the
  sum errs on the safe side as well.
The full test compares pointers modulo the size; `NotFull` says that this is right as
long as the pointers are no further apart than the size, and `SlotsDiffer` that until
then every position has a slot of its own. About the data:
* `SentInv`: position `p` of the input FIFO has the input before which `p` others were
  sent (`Nth`), and what the host writes at the write pointer is no other's.
* `AnswersInOrder` (`InOrder`), for the loop of all tasklets. `RoundsInv` says that each
  input is three waits, so that a tasklet that processes is at the head of the FIFO, and
  tasklet 0 that reduces has everybody's part of it (`AtHead`, `AllParts`). `OrderInv`
  follows the output through the output FIFO to the host; `CopyInv` says that what the
  host copied is still there when it releases it.
* `EveryInputOnce` (`ExactlyOnce`), for both loops. `OnceInv` says that an input sent is
  at one place (`Placed`) and one not sent at none; each step moves at most one input,
  but for the host's release, which moves all it has read. `CopyOf` bridges the two steps
  between the copy of an element and that of the pointer. In the loop of all tasklets the
  place changes when the output is published, before the input is popped, and it is
  `OrderInv` that says that both are of the same input.

**ThreadJobProofs** (`ThreadJobAssumption`, `OrdinaryPrograms`), for any number of
ranks, workers, callers and slots, whatever the callers call. `OrdinaryPrograms` asks
that a parallel job is infallible and neither a nonblocking nor a single callback; section
7 says what happens otherwise. The theorems are
`RankAlwaysInOneHand` (`RankInOneHand`), `SerialJobsAlwaysWait` (`SerialJobsWait`) and
`AssertionsAlwaysHold` (`AssertionsHold`), from `ThreadJobInv` (`IInv`). None of them can
be proved alone: that a job from the work queue is ready depends on nobody else having
the rank, and that nobody has it on the run of the DPUs having been noticed. `HandInv`
says all of it, but for the step in which the end of a blocking single call meets a null
pointer, after which there are no more steps:
* `WorkInv` and `QueueInv`: a worker that executes, and an entry of the work queue, has the
  head of its rank's list, which is ready, and `jobs_thread` is set; `LockInv`: a worker
  in the loop has the rank's mutex.
* `OneInv`: no two hands of a rank. `IdleInv`: a rank nobody has runs no DPU, and its list
  is empty or its head waits for a blocking single call; an empty list without
  `jobs_thread` is exactly when it is nobody's, which is what `dpu_thread_job_add_jobs`
  relies on. `CallerInv`: between the two mutexes that a caller takes there, no one else
  touches the list.
* `RunInv`: nobody but a worker that sleeps or is about to ask for the status leaves the end
  of a run unnoticed; the polling thread watches no other rank.
* `GatherInv`: the ranks that wait for a blocking single call are as many as have been
  taken off its counter (`At`), so the one that comes last finds all others waiting, and
  nobody has them when it takes their jobs away (`RunOk`).

Each action has a lemma that it preserves `HandInv`. Steps of a worker that neither give
nor take a rank are cases of `MoveStep`; `PopStep`, `PassStep` and `NextStep` are for those
that do. `GlobalBlockInv` needs that the other ranks are each named once (`RemoveFacts`).

**Only model-checked**: liveness (`Terminates`, `AllReturn`, `AllServed`, `Finishes`,
`CallsReturn`) and everything under fairness or ENABLED, which the prover does not
reach; and `SlotsConserved`. That property lets a rank lack the master slots of the single
calls that never ran there (`NeverRun`), and this is what the code does: a nonblocking
single callback of which a rank is in error after its slots were taken does not run there,
and its master job's slot does not return; when a synchronous call then clears the error,
the slot is missing although all is done. TLC finds it in a program of the run `jobs` when
the allowance is dropped. The library does not promise otherwise ("In the general async
case, we do not handle a clean restart", `dpu_thread_job.c` 769). Induction is limited to sets
of numbers, as above; nothing is proved about a function by induction over its data. No
module uses RECURSIVE.

## 7. Not modelled

* **Control interface** (`ufi_ci.c`, `ufi.c`): a command is a step that succeeds. The
  answer times of the device, which decide the retries, are not in the sources. So a
  command that fails after the record of the multiplexers was written
  (`ufi_config.c` 1401), and a failed thread creation, are outside the models.
* **ThreadJob** has one NUMA node, polls that succeed and DPUs that do not fault.
  Calls from inside callbacks, stop and free are left out. Known hazards outside the
  run's programs, and outside those of the theorems: a parallel nonblocking callback after
  a launch clears `jobs_thread` while DPUs run (line 315), and so does a parallel job that
  fails while they run, such as a push on a full FIFO or a callback whose function returns
  an error (398). Nobody then has the rank whose DPUs run, and the next job of the rank
  comes from the work queue without being asked whether it is ready (484). In the program
  of an asynchronous launch, the parallel job and a synchronous copy on one rank TLC
  refutes `SerialJobsWait` for the three parallel jobs named, and `RankInOneHand` as well
  for the nonblocking callback. Two callers whose calls overlap
  in ranks can each hold what the other waits for, the queue's mutex and a `jobs_mutex`
  (669); ranks that come early to a blocking single call are stranded when the last
  one's earlier job fails (360); a failed poll unlocks the rank twice (528).
* **WramFifo**, beyond the slots the host can number: `get_fifo_wr_ptr` and `get_fifo_elem`
  (`dpu_fifo.c` 48, 165, 173) and the senders (`dpu_memory.c` 297, 334) keep a slot's number
  in a `uint8_t`, while `init_fifo` accepts a `ptr_size` of up to 10, that is 1024 slots. The
  model has the width (`NrIndexes`), the run and the theorems stay within it. With 4 slots
  and 2 numbers in place of 512 and 256, TLC refutes `ExactlyOnce` (a push overwrites an
  input that was not read) and `InOrder`; `WithinSlots` and `AllServed`, which are about the
  pointers, hold.
* **WramFifo** has one DPU per push. A broadcast to DPUs whose absolute pointers differ by
  a multiple of the FIFO's size (`dpu_memory.c` 286) is outside it.
* **Two commands per OFIS call** (`dpu_memory.c` 1043): the select and the access are one
  step, since the modelled applications make no other call to a rank while they run.
  `state_var`'s lazy initialisation is left out; all threads store the same value.
* **Rank allocation, sets, programs, loader**: happen before the protocol, in one
  thread, over ELF files and dynamic libraries.
* **Hardware mappings, MRAM wavegen, byte interleaving**: device I/O; their effect on
  banks is the external part of MuxTransfer.
* **Semaphores, handshakes, allocators of the runtime**: the applications do not use
  them, beyond the heap reset of the SpMV kernel and the mutex of the FIFOs.
* **The arithmetic** of a partition or subgraph, vector contents, timers, affinity: data
  are the numbers of the partitions they belong to.
* Debugging, profiling, checkpoints, bindings, and the baseline programs, which hold no
  part of the on-the-fly protocol.

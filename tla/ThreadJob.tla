----------------------------- MODULE ThreadJob -----------------------------
(***************************************************************************)
(* The host library's asynchronous calls: application threads put jobs in  *)
(* the lists of their ranks (api/src/api/dpu_thread_job.c), worker threads *)
(* take a rank from the work queue and execute its jobs, and the polling   *)
(* thread (dpu_polling.c) watches the ranks whose DPUs run.                *)
(*                                                                         *)
(* All ranks are of one NUMA node, so there is one queue and one polling   *)
(* thread.  Polls succeed and DPUs do not fault; a fallible transfer may   *)
(* fail, and so may the function of a fallible callback.                   *)
(***************************************************************************)
EXTENDS Integers, FiniteSets, Sequences, SequencesExt

CONSTANTS
  NrRanks, NrDpus,  \* ranks; DPUs that a launch starts on a rank
  NrSlots,          \* job slots of a rank (nr_jobs)
  Workers, Apps,    \* worker threads; threads that call the library
  Programs,         \* sequences of calls for an application thread
  DpusStop          \* whether the DPU programs end by themselves

Rank == 1 .. NrRanks
None == 0
NoJob == [kind |-> "none", app |-> None, n |-> 0, flags |-> {}]

\* A single call on one rank is an ordinary callback.
Single(c) == "single" \in c.flags /\ Len(c.ranks) > 1

\* What a program may call.  A launch is never parallel; only transfers and callbacks
\* are fallible; a callback that is single or nonblocking is asynchronous.
Calls ==
  {c \in [kind  : {"launch", "copy", "push", "callback", "sync"},
          ranks : Seq(Rank) \ {<<>>},
          sync  : BOOLEAN,
          flags : SUBSET {"parallel", "fallible", "nonblocking", "single"}] :
     /\ IsInjective(c.ranks)
     /\ c.kind = "launch" => "parallel" \notin c.flags
     /\ c.kind = "sync" => c.sync
     /\ "fallible" \in c.flags => c.kind \in {"copy", "push", "callback"}
     /\ "nonblocking" \in c.flags \/ Single(c) => c.kind = "callback" /\ ~c.sync}

ASSUME ThreadJobAssumption ==
  /\ {NrRanks, NrDpus, NrSlots} \subseteq Nat \ {0}
  /\ None \notin Workers \cup Apps
  /\ DpusStop \in BOOLEAN
  /\ \A p \in Programs : p # <<>> /\ p \in Seq(Calls)

\* A parallel job, which may meet running DPUs, neither fails nor leaves its rank.
\* dpu_thread_job.c does not ask this of its callers.
OrdinaryPrograms ==
  \A p \in Programs : \A i \in DOMAIN p :
    "parallel" \in p[i].flags => p[i].flags \cap {"fallible", "nonblocking", "single"} = {}

VARIABLES
  calls, n, step, at, got,       \* application threads: program, call, position
  left, failed, owner,           \* of each call: sync.nr_ranks, status, slot_owner
  jobs, avail, waiting,          \* api.jobs; free slots; threads waiting for one
  jobs_thread, job_error, jlock, \* api.jobs_thread, api.job_error, jobs_mutex
  queue, qlock,                  \* the work queue and its mutex
  rlock,                         \* the rank's mutex
  wpc, wrank, wjob, was, size, wat,  \* workers, with their local variables
  hw, nb, launched,              \* DPUs that run; nb_dpu_running; running state
  last, active,                  \* last_jobs_list_length, is_polling_active
  ppc, is_dpu_running, one_rank_running,  \* the polling thread
  crashed                        \* a failed assertion or a null pointer

appVars    == <<calls, n, step, at, got>>
callVars   == <<left, failed, owner>>
slotVars   == <<avail, waiting>>
queueVars  == <<queue, qlock>>
workerVars == <<wpc, wrank, wjob, was, size, wat>>
pollVars   == <<ppc, is_dpu_running, one_rank_running>>
rankVars   == <<jobs, jobs_thread, job_error, jlock>>
runVars    == <<hw, nb, launched>>
sleepVars  == <<last, active>>
vars == <<appVars, callVars, slotVars, queueVars, workerVars, pollVars, rankVars,
          runVars, sleepVars, rlock, crashed>>

-----------------------------------------------------------------------------
(* Calls: [kind, ranks (a sequence), sync, flags].                         *)

Call(a) == calls[a][n[a]]

Job(a, c, k) == [kind |-> k, app |-> a, n |-> n[a], flags |-> c.flags]

\* DPU_THREAD_JOB_SET_JOBS: a synchronous call adds a job that tells its caller.
JobsOf(a) ==
  LET c == Call(a)
  IN IF c.sync /\ c.kind # "sync" THEN <<Job(a, c, c.kind), Job(a, c, "sync")>>
     ELSE <<Job(a, c, c.kind)>>

CallOf(j) == calls[j.app][j.n]
Parallel(j) == "parallel" \in j.flags

\* dpu_thread_is_job_ready, for the head of a list.
NextJob(list, r) ==
  IF list # <<>> /\ (Parallel(Head(list)) \/ nb[r] = 0) THEN Head(list) ELSE NoJob

Init ==
  /\ calls \in [Apps -> Programs]
  /\ n = [a \in Apps |-> 1]
  /\ step = [a \in Apps |-> "slots"]
  /\ at = [a \in Apps |-> 1]
  /\ got = [a \in Apps |-> 0]
  /\ left = [a \in Apps |-> [i \in DOMAIN calls[a] |-> Len(calls[a][i].ranks)]]
  /\ failed = [a \in Apps |-> [i \in DOMAIN calls[a] |-> FALSE]]
  /\ owner = [a \in Apps |-> [i \in DOMAIN calls[a] |-> calls[a][i].ranks[1]]]
  /\ jobs = [r \in Rank |-> <<>>]
  /\ avail = [r \in Rank |-> NrSlots]
  /\ waiting = [r \in Rank |-> {}]
  /\ jobs_thread = [r \in Rank |-> FALSE]
  /\ job_error = [r \in Rank |-> FALSE]
  /\ jlock = [r \in Rank |-> None]
  /\ queue = <<>>
  /\ qlock = None
  /\ rlock = [r \in Rank |-> None]
  /\ wpc = [w \in Workers |-> "idle"]
  /\ wrank = [w \in Workers |-> 1]
  /\ wjob = [w \in Workers |-> NoJob]
  /\ was = [w \in Workers |-> 0]
  /\ size = [w \in Workers |-> 0]
  /\ wat = [w \in Workers |-> 1]
  /\ hw = [r \in Rank |-> 0]
  /\ nb = [r \in Rank |-> 0]
  /\ launched = [r \in Rank |-> FALSE]
  /\ last = [r \in Rank |-> 0]
  /\ active = [r \in Rank |-> FALSE]
  /\ ppc = 0
  /\ is_dpu_running = FALSE
  /\ one_rank_running = FALSE
  /\ crashed = FALSE

\* Fault: nobody is told that there are slots again.
ReleaseSilently(k) ==
  /\ avail' = [r \in Rank |-> avail[r] + k[r]]
  /\ UNCHANGED waiting

\* dpu_thread_release_job_slot_unlocked, of k slots of each rank: a thread that
\* waits for one is woken when there was none.
Release(k) ==
  /\ avail' = [r \in Rank |-> avail[r] + k[r]]
  /\ \E woken \in [Rank -> SUBSET Apps] :
       /\ \A r \in Rank :
            /\ woken[r] \subseteq waiting[r]
            /\ Cardinality(woken[r]) =
                 IF k[r] > 0 /\ avail[r] = 0 /\ waiting[r] # {} THEN 1 ELSE 0
       /\ waiting' = [r \in Rank |-> waiting[r] \ woken[r]]

One(r) == [s \in Rank |-> IF s = r THEN 1 ELSE 0]

-----------------------------------------------------------------------------
(* Application threads.                                                    *)

Finish(a) ==
  /\ n' = [n EXCEPT ![a] = @ + 1]
  /\ at' = [at EXCEPT ![a] = 1]
  /\ got' = [got EXCEPT ![a] = 0]
  /\ step' = [step EXCEPT ![a] = IF n[a] = Len(calls[a]) THEN "done" ELSE "slots"]

Goto(a, s) == step' = [step EXCEPT ![a] = s]

RankAt(a) == Call(a).ranks[at[a]]

\* get_jobs_internal at one rank, with the wait of get_job_unlocked.
TakeSlots(a) ==
  LET r == RankAt(a)
      need == Len(JobsOf(a)) - got[a]
  IN /\ step[a] = "slots"
     /\ jlock[r] = None
     /\ a \notin waiting[r]
     /\ \/ /\ job_error[r]
           /\ avail' = [s \in Rank |->
                          IF \E i \in 1 .. at[a] - 1 : Call(a).ranks[i] = s
                          THEN avail[s] + Len(JobsOf(a)) ELSE avail[s]]
           /\ Finish(a)
           /\ UNCHANGED waiting
        \/ /\ ~job_error[r]
           /\ avail[r] >= need
           /\ avail' = [avail EXCEPT ![r] = @ - need]
           /\ got' = [got EXCEPT ![a] = 0]
           /\ IF at[a] < Len(Call(a).ranks)
              THEN at' = [at EXCEPT ![a] = @ + 1] /\ UNCHANGED step
              ELSE at' = [at EXCEPT ![a] = 1]
                   /\ Goto(a, IF Single(Call(a)) THEN "master" ELSE "add")
           /\ UNCHANGED <<n, waiting>>
        \/ /\ ~job_error[r]
           /\ avail[r] < need
           /\ got' = [got EXCEPT ![a] = @ + avail[r]]
           /\ avail' = [avail EXCEPT ![r] = 0]
           /\ waiting' = [waiting EXCEPT ![r] = @ \cup {a}]
           /\ UNCHANGED <<n, at, step>>
  /\ UNCHANGED <<calls, callVars, queueVars, workerVars, pollVars, rankVars, runVars,
                 sleepVars, rlock, crashed>>

\* dpu_callback's master job, from the first rank; for a nonblocking callback from
\* any: the lengths it compares are read without a lock.
MasterRanks(a) ==
  IF got[a] = 1 THEN {owner[a][n[a]]}
  ELSE IF "nonblocking" \in Call(a).flags THEN Range(Call(a).ranks)
  ELSE {Call(a).ranks[1]}

TakeMaster(a) ==
  /\ step[a] = "master"
  /\ \E r \in MasterRanks(a) :
       /\ jlock[r] = None
       /\ a \notin waiting[r]
       /\ owner' = [owner EXCEPT ![a][n[a]] = r]
       /\ \/ /\ job_error[r]
             /\ avail' = [s \in Rank |-> IF s \in Range(Call(a).ranks) THEN avail[s] + 1
                                         ELSE avail[s]]
             /\ Finish(a)
             /\ UNCHANGED waiting
          \/ /\ ~job_error[r]
             /\ avail[r] > 0
             /\ avail' = [avail EXCEPT ![r] = @ - 1]
             /\ got' = [got EXCEPT ![a] = 0]
             /\ Goto(a, "add")
             /\ UNCHANGED <<n, at, waiting>>
          \/ /\ ~job_error[r]
             /\ avail[r] = 0
             /\ got' = [got EXCEPT ![a] = 1]    \* waits at this rank
             /\ waiting' = [waiting EXCEPT ![r] = @ \cup {a}]
             /\ UNCHANGED <<n, at, step, avail>>
  /\ UNCHANGED <<calls, left, failed, queueVars, workerVars, pollVars, rankVars,
                 runVars, sleepVars, rlock, crashed>>

\* dpu_thread_job_add_jobs at one rank; the queue's mutex, once taken, is kept to
\* the end of the call.  A rank without jobs needs it.
First(a, r) == [rank |-> r, job |-> Head(JobsOf(a))]
Added(r, a) == jobs' = [jobs EXCEPT ![r] = @ \o JobsOf(a)]
NextRank(a) == at' = [at EXCEPT ![a] = @ + 1]

\* Fault: nothing asks whether a worker has the rank.
AddRankAlways(a) ==
  LET r == RankAt(a)
  IN /\ step[a] = "add"
     /\ at[a] <= Len(Call(a).ranks)
     /\ jlock[r] = None
     /\ qlock \in {None, a}
     /\ qlock' = a
     /\ queue' = IF jobs[r] = <<>> THEN Append(queue, First(a, r)) ELSE queue
     /\ Added(r, a)
     /\ NextRank(a)
     /\ UNCHANGED <<calls, n, step, got, jlock, jobs_thread, job_error, callVars, slotVars,
                    workerVars, pollVars, runVars, sleepVars, rlock, crashed>>

AddRank(a) ==
  LET r == RankAt(a)
  IN /\ step[a] = "add"
     /\ at[a] <= Len(Call(a).ranks)
     /\ jlock[r] = None
     /\ \/ /\ jobs[r] = <<>> /\ qlock # a
           /\ jlock' = [jlock EXCEPT ![r] = a]
           /\ Goto(a, "addq")
           /\ UNCHANGED <<jobs, queue, at>>
        \/ /\ jobs[r] # <<>> \/ qlock = a
           /\ queue' = IF jobs[r] = <<>> /\ ~jobs_thread[r] THEN Append(queue, First(a, r))
                        ELSE queue
           /\ Added(r, a)
           /\ NextRank(a)
           /\ UNCHANGED <<jlock, step>>
  /\ UNCHANGED <<calls, n, got, qlock, jobs_thread, job_error, callVars, slotVars,
                 workerVars, pollVars, runVars, sleepVars, rlock, crashed>>

AddQueued(a) ==
  LET r == RankAt(a)
  IN /\ step[a] = "addq"
     /\ qlock = None
     /\ IF jobs_thread[r] THEN UNCHANGED <<queue, qlock>>
        ELSE queue' = Append(queue, First(a, r)) /\ qlock' = a
     /\ Added(r, a)
     /\ jlock' = [jlock EXCEPT ![r] = None]
     /\ NextRank(a)
     /\ Goto(a, "add")
  /\ UNCHANGED <<calls, n, got, jobs_thread, job_error, callVars, slotVars, workerVars,
                 pollVars, runVars, sleepVars, rlock, crashed>>

AddEnd(a) ==
  /\ step[a] = "add"
  /\ at[a] > Len(Call(a).ranks)
  /\ qlock' = IF qlock = a THEN None ELSE qlock
  /\ IF Call(a).sync THEN Goto(a, "wait") /\ UNCHANGED <<n, at, got>> ELSE Finish(a)
  /\ UNCHANGED <<calls, queue, rankVars, callVars, slotVars, workerVars, pollVars,
                 runVars, sleepVars, rlock, crashed>>

\* wait_sync_job.  The caller has held sync->mutex since init_sync_job.
WaitSync(a) ==
  /\ step[a] = "wait"
  /\ left[a][n[a]] = 0
  /\ job_error' = [r \in Rank |-> IF failed[a][n[a]] /\ r \in Range(Call(a).ranks)
                                  THEN FALSE ELSE job_error[r]]
  /\ Finish(a)
  /\ UNCHANGED <<calls, jobs, jobs_thread, jlock, queueVars, callVars, slotVars,
                 workerVars, pollVars, runVars, sleepVars, rlock, crashed>>

AppStep(a) ==
  ~crashed /\ (TakeSlots(a) \/ TakeMaster(a) \/ AddRank(a) \/ AddQueued(a) \/ AddEnd(a)
               \/ WaitSync(a))

-----------------------------------------------------------------------------
(* Workers (dpu_thread_job_fct).                                           *)

GotoW(w, from, to) == wpc[w] = from /\ wpc' = [wpc EXCEPT ![w] = to]
MyRank(w) == wrank[w]

\* The first job of the work queue, and its rank.
Pick(w) ==
  /\ GotoW(w, "idle", "lock")
  /\ qlock = None
  /\ queue # <<>>
  /\ queue' = Tail(queue)
  /\ wrank' = [wrank EXCEPT ![w] = Head(queue).rank]
  /\ wjob' = [wjob EXCEPT ![w] = Head(queue).job]
  /\ jobs_thread' = [jobs_thread EXCEPT ![Head(queue).rank] = TRUE]
  /\ UNCHANGED <<appVars, callVars, slotVars, qlock, was, size, wat, pollVars, jobs,
                 job_error, jlock, runVars, sleepVars, rlock, crashed>>

LockRank(w) ==
  /\ GotoW(w, "lock", "job")
  /\ rlock[MyRank(w)] = None
  /\ rlock' = [rlock EXCEPT ![MyRank(w)] = w]
  /\ UNCHANGED <<appVars, callVars, slotVars, queueVars, wrank, wjob, was, size, wat,
                 pollVars, rankVars, runVars, sleepVars, crashed>>

Told(j) == left' = [left EXCEPT ![j.app][j.n] = @ - 1]

\* Where the status of a job leads: to the next job, or to the end of the list.
Ends(j) == {"advance"} \cup (IF "fallible" \in j.flags THEN {"fail"} ELSE {})

\* dpu_thread_compute_job, all but callbacks.  A boot of a rank that runs is an
\* error, and one of a rank whose last run was not noticed fails an assertion.
Compute(w) ==
  LET r == MyRank(w)
      j == wjob[w]
  IN /\ \/ /\ j.kind = "launch"
           /\ GotoW(w, "job", IF nb[r] # 0 THEN "fail" ELSE "advance")
           /\ IF nb[r] # 0 THEN UNCHANGED <<runVars, crashed>>
              ELSE /\ hw' = [hw EXCEPT ![r] = NrDpus]
                   /\ nb' = [nb EXCEPT ![r] = NrDpus]
                   /\ launched' = [launched EXCEPT ![r] = TRUE]
                   /\ crashed' = launched[r]
           /\ UNCHANGED left
        \/ /\ j.kind = "sync"
           /\ GotoW(w, "job", "advance")
           /\ Told(j)
           /\ UNCHANGED <<runVars, crashed>>
        \/ /\ j.kind \in {"copy", "push"}
           /\ \E to \in Ends(j) : GotoW(w, "job", to)
           /\ UNCHANGED <<runVars, left, crashed>>
     /\ UNCHANGED <<appVars, failed, owner, slotVars, queueVars, wrank, wjob, was, size,
                    wat, pollVars, rankVars, sleepVars, rlock>>

Pop(r) == jobs' = [jobs EXCEPT ![r] = Tail(@)]

\* Fault: jobs_thread is cleared although DPUs run.
AdvanceLetsGo(w) ==
  LET r == MyRank(w)
      next == NextJob(Tail(jobs[r]), r)
  IN /\ GotoW(w, "advance", "poll")
     /\ jlock[r] = None
     /\ Pop(r)
     /\ Release(One(r))
     /\ wjob' = [wjob EXCEPT ![w] = next]
     /\ jobs_thread' = [jobs_thread EXCEPT ![r] = next # NoJob]
     /\ UNCHANGED <<appVars, callVars, queueVars, wrank, was, size, wat, pollVars,
                    job_error, jlock, runVars, sleepVars, rlock, crashed>>

\* Fault: the slot of the job is not returned.
AdvanceKeepsSlot(w) ==
  LET r == MyRank(w)
      next == NextJob(Tail(jobs[r]), r)
  IN /\ GotoW(w, "advance", "poll")
     /\ jlock[r] = None
     /\ Pop(r)
     /\ wjob' = [wjob EXCEPT ![w] = next]
     /\ jobs_thread' = [jobs_thread EXCEPT ![r] = @ /\ (next # NoJob \/ nb[r] # 0)]
     /\ UNCHANGED <<appVars, callVars, slotVars, queueVars, wrank, was, size, wat, pollVars,
                    job_error, jlock, runVars, sleepVars, rlock, crashed>>

\* The section after a job under jobs_mutex.
Advance(w) ==
  LET r == MyRank(w)
      next == NextJob(Tail(jobs[r]), r)
  IN /\ GotoW(w, "advance", "poll")
     /\ jlock[r] = None
     /\ Pop(r)
     /\ Release(One(r))
     /\ wjob' = [wjob EXCEPT ![w] = next]
     /\ jobs_thread' = [jobs_thread EXCEPT ![r] = @ /\ (next # NoJob \/ nb[r] # 0)]
     /\ UNCHANGED <<appVars, callVars, queueVars, wrank, was, size, wat, pollVars,
                    job_error, jlock, runVars, sleepVars, rlock, crashed>>

\* dpu_thread_update_status: the error stays with the rank, every waiting caller
\* is told, and all the slots return.
Fail(w) ==
  LET r == MyRank(w)
      Waits(a, i) == \E m \in DOMAIN jobs[r] :
                       jobs[r][m].kind = "sync" /\ jobs[r][m].app = a /\ jobs[r][m].n = i
  IN /\ GotoW(w, "fail", "idle")
     /\ jlock[r] = None
     /\ job_error' = [job_error EXCEPT ![r] = TRUE]
     /\ left' = [a \in Apps |-> [i \in DOMAIN left[a] |->
                                   IF Waits(a, i) THEN left[a][i] - 1 ELSE left[a][i]]]
     /\ failed' = [a \in Apps |-> [i \in DOMAIN failed[a] |-> failed[a][i] \/ Waits(a, i)]]
     /\ jobs' = [jobs EXCEPT ![r] = <<>>]
     /\ Release([s \in Rank |-> IF s = r THEN Len(jobs[r]) ELSE 0])
     /\ jobs_thread' = [jobs_thread EXCEPT ![r] = FALSE]
     /\ rlock' = [rlock EXCEPT ![r] = None]
     /\ wjob' = [wjob EXCEPT ![w] = NoJob]
     /\ UNCHANGED <<appVars, owner, queueVars, wrank, was, size, wat, pollVars, jlock,
                    runVars, sleepVars, crashed>>

\* The loop condition, and the poll that the worker does itself while it has jobs.
Leave(w) ==
  /\ GotoW(w, "poll", "idle")
  /\ wjob[w] = NoJob /\ nb[MyRank(w)] = 0
  /\ rlock' = [rlock EXCEPT ![MyRank(w)] = None]
  /\ UNCHANGED <<appVars, callVars, slotVars, queueVars, wrank, wjob, was, size, wat,
                 pollVars, rankVars, runVars, sleepVars, crashed>>

\* Fault: a poll between two jobs does not ask for the status.
PollSelfForgets(w) ==
  LET r == MyRank(w)
  IN /\ wjob[w] # NoJob
     /\ GotoW(w, "poll", "job")
     /\ nb' = [nb EXCEPT ![r] = hw[r]]
     /\ UNCHANGED <<appVars, callVars, slotVars, queueVars, wrank, wjob, was, size, wat,
                    pollVars, rankVars, hw, launched, sleepVars, rlock, crashed>>

PollSelf(w) ==
  LET r == MyRank(w)
  IN /\ wjob[w] # NoJob
     /\ GotoW(w, "poll", IF hw[r] # nb[r] THEN "status" ELSE "job")
     /\ nb' = [nb EXCEPT ![r] = hw[r]]
     /\ UNCHANGED <<appVars, callVars, slotVars, queueVars, wrank, wjob, was, size, wat,
                    pollVars, rankVars, hw, launched, sleepVars, rlock, crashed>>

\* No job and DPUs run: the polling thread is to watch the rank.  The number of
\* jobs is read without jobs_mutex.
FallAsleep(w) ==
  LET r == MyRank(w)
  IN /\ GotoW(w, "poll", "asleep")
     /\ wjob[w] = NoJob /\ nb[r] # 0
     /\ was' = [was EXCEPT ![w] = nb[r]]
     /\ size' = [size EXCEPT ![w] = Len(jobs[r])]
     /\ last' = [last EXCEPT ![r] = Len(jobs[r])]
     /\ active' = [active EXCEPT ![r] = TRUE]
     /\ is_dpu_running' = TRUE
     /\ ppc' = IF ppc = NrRanks + 1 THEN 1 ELSE ppc    \* wakes the polling thread
     /\ rlock' = [rlock EXCEPT ![r] = None]
     /\ UNCHANGED <<appVars, callVars, slotVars, queueVars, wrank, wjob, wat, rankVars,
                    runVars, one_rank_running, crashed>>

\* A broadcast of poll_cond has moved it from "asleep" to "woken".
Wake(w) ==
  LET r == MyRank(w)
      same == nb[r] = was[w] /\ last[r] = size[w]
  IN /\ rlock[r] = None
     /\ GotoW(w, "woken", IF same THEN "asleep"
                          ELSE IF nb[r] # was[w] THEN "status" ELSE "next")
     /\ rlock' = [rlock EXCEPT ![r] = IF same THEN None ELSE w]
     /\ active' = [active EXCEPT ![r] = same]
     /\ UNCHANGED <<appVars, callVars, slotVars, queueVars, wrank, wjob, was, size, wat,
                    pollVars, rankVars, runVars, last, crashed>>

\* dpu_sync_and_get_status of a launched rank, then the next job if it has none.
Status(w) ==
  LET r == MyRank(w)
  IN /\ GotoW(w, "status", IF wjob[w] = NoJob THEN "next" ELSE "job")
     /\ launched' = [launched EXCEPT ![r] = @ /\ nb[r] # 0]
     /\ crashed' = ~launched[r]
     /\ UNCHANGED <<appVars, callVars, slotVars, queueVars, wrank, wjob, was, size, wat,
                    pollVars, rankVars, hw, nb, sleepVars, rlock>>

NextAfterWake(w) ==
  LET r == MyRank(w)
      next == NextJob(jobs[r], r)
  IN /\ GotoW(w, "next", IF next = NoJob THEN "poll" ELSE "job")
     /\ jlock[r] = None
     /\ wjob' = [wjob EXCEPT ![w] = next]
     /\ jobs_thread' = [jobs_thread EXCEPT ![r] = @ /\ (next # NoJob \/ nb[r] # 0)]
     /\ UNCHANGED <<appVars, callVars, slotVars, queueVars, wrank, was, size, wat, pollVars,
                    jobs, job_error, jlock, runVars, sleepVars, rlock, crashed>>

-----------------------------------------------------------------------------
(* Callbacks.  A call on several ranks is single: the rank that comes last  *)
(* to its job runs the function for all.                                   *)

\* The ranks of a blocking single call that came before wait with their job at
\* the head of their list and no worker; for a nonblocking one they go on.  The
\* one that runs a nonblocking function leaves its rank to others first.
CallbackPc(c, isLast) ==
  CASE ~isLast -> IF "nonblocking" \in c.flags THEN "advance" ELSE "idle"
    [] isLast /\ "nonblocking" \in c.flags -> "detach"
    [] isLast /\ "nonblocking" \notin c.flags -> IF Single(c) THEN "lockall" ELSE "function"

Callback(w) ==
  LET r == MyRank(w)
      j == wjob[w]
      c == CallOf(j)
      isLast == Single(c) => left[j.app][j.n] = 1
      to == CallbackPc(c, isLast)
  IN /\ j.kind = "callback"
     /\ GotoW(w, "job", to)
     /\ IF Single(c) THEN Told(j) ELSE UNCHANGED left
     /\ rlock' = [rlock EXCEPT ![r] = IF to \in {"idle", "detach"} THEN None ELSE w]
     /\ wat' = [wat EXCEPT ![w] = 1]
     /\ UNCHANGED <<appVars, failed, owner, slotVars, queueVars, wrank, wjob, was, size,
                    pollVars, rankVars, runVars, sleepVars, crashed>>

\* wjob stays the callback; the next job of the rank, if ready, is queued.
Detach(w) ==
  LET r == MyRank(w)
  IN /\ GotoW(w, "detach", IF NextJob(Tail(jobs[r]), r) = NoJob THEN "function" ELSE "requeue")
     /\ jlock[r] = None
     /\ Pop(r)
     /\ Release(One(r))
     /\ jobs_thread' = [jobs_thread EXCEPT ![r] = FALSE]
     /\ UNCHANGED <<appVars, callVars, queueVars, wrank, wjob, was, size, wat, pollVars,
                    job_error, jlock, runVars, sleepVars, rlock, crashed>>

\* dpu_thread_insert_rank_list
Requeue(w) ==
  /\ GotoW(w, "requeue", "function")
  /\ qlock = None
  /\ queue' = Append(queue, [rank |-> MyRank(w), job |-> Head(jobs[MyRank(w)])])
  /\ UNCHANGED <<appVars, callVars, slotVars, qlock, wrank, wjob, was, size, wat, pollVars,
                 rankVars, runVars, sleepVars, rlock, crashed>>

\* A blocking single call takes every rank's mutex; its own it has.
LockAll(w) ==
  LET rs == CallOf(wjob[w]).ranks
      r == rs[wat[w]]
  IN /\ wpc[w] = "lockall"
     /\ rlock[r] \in {None, w}
     /\ GotoW(w, "lockall", IF wat[w] = Len(rs) THEN "function" ELSE "lockall")
     /\ rlock' = [rlock EXCEPT ![r] = w]
     /\ wat' = [wat EXCEPT ![w] = IF @ = Len(rs) THEN 1 ELSE @ + 1]
     /\ UNCHANGED <<appVars, callVars, slotVars, queueVars, wrank, wjob, was, size,
                    pollVars, rankVars, runVars, sleepVars, crashed>>

\* The function, and the unlocking of the other ranks.  The status it returns counts
\* at the end of the job, and not at all when the job does not block.
CallFunction(w) ==
  LET c == CallOf(wjob[w])
      blocking == "nonblocking" \notin c.flags
  IN /\ wpc[w] = "function"
     /\ \E to \in IF Single(c) THEN {IF blocking THEN "global" ELSE "master"}
                  ELSE IF blocking THEN Ends(wjob[w]) ELSE {"idle"} :
          GotoW(w, "function", to)
     /\ rlock' = [r \in Rank |-> IF rlock[r] = w /\ r # MyRank(w) THEN None ELSE rlock[r]]
     /\ UNCHANGED <<appVars, callVars, slotVars, queueVars, wrank, wjob, was, size, wat,
                    pollVars, rankVars, runVars, sleepVars, crashed>>

\* A sequence without its element q.
AllBut(ranks, q) == RemoveAt(ranks, CHOOSE i \in DOMAIN ranks : ranks[i] = q)

\* dpu_thread_handle_global_block: the job of every other rank is removed and the
\* rank's next one queued; without a next one the insertion goes through a null
\* pointer.
GlobalBlock(w) ==
  LET others == AllBut(CallOf(wjob[w]).ranks, MyRank(w))
      next(r) == NextJob(Tail(jobs[r]), r)
  IN /\ GotoW(w, "global", "master")
     /\ qlock = None
     /\ \A r \in Range(others) : jlock[r] = None
     /\ jobs' = [r \in Rank |-> IF r \in Range(others) THEN Tail(jobs[r]) ELSE jobs[r]]
     /\ Release([r \in Rank |-> IF r \in Range(others) THEN 1 ELSE 0])
     /\ queue' = queue \o [i \in DOMAIN others |-> [rank |-> others[i], job |-> next(others[i])]]
     /\ crashed' = \E r \in Range(others) : next(r) = NoJob
     /\ UNCHANGED <<appVars, callVars, qlock, wrank, wjob, was, size, wat, pollVars,
                    jobs_thread, job_error, jlock, runVars, sleepVars, rlock>>

\* The master job's slot returns to its owner.
ReleaseMaster(w) ==
  LET o == owner[wjob[w].app][wjob[w].n]
  IN /\ \E to \in IF "nonblocking" \in wjob[w].flags THEN {"idle"} ELSE Ends(wjob[w]) :
          GotoW(w, "master", to)
     /\ jlock[o] = None
     /\ Release(One(o))
     /\ UNCHANGED <<appVars, callVars, queueVars, wrank, wjob, was, size, wat, pollVars,
                    rankVars, runVars, sleepVars, rlock, crashed>>

WorkerStep(w) ==
  /\ ~crashed
  /\ \/ Pick(w) \/ LockRank(w) \/ Compute(w) \/ Advance(w) \/ Fail(w) \/ Leave(w)
     \/ PollSelf(w) \/ FallAsleep(w) \/ Wake(w) \/ Status(w) \/ NextAfterWake(w)
     \/ Callback(w) \/ Detach(w) \/ Requeue(w) \/ LockAll(w) \/ CallFunction(w)
     \/ GlobalBlock(w) \/ ReleaseMaster(w)

-----------------------------------------------------------------------------
(* The DPUs and the polling thread.                                        *)

DpuStops(r) ==
  /\ ~crashed
  /\ hw[r] > 0
  /\ hw' = [hw EXCEPT ![r] = @ - 1]
  /\ UNCHANGED <<appVars, callVars, slotVars, queueVars, workerVars, pollVars, rankVars,
                 nb, launched, sleepVars, rlock, crashed>>

\* ppc = 0: at the top of the loop; 1 .. NrRanks: at that rank; NrRanks + 1: waits.
PollerTop ==
  /\ ppc = 0
  /\ \/ /\ ~is_dpu_running /\ ~one_rank_running
        /\ ppc' = NrRanks + 1
        /\ UNCHANGED <<is_dpu_running, one_rank_running>>
     \/ /\ is_dpu_running \/ one_rank_running
        /\ ppc' = 1
        /\ is_dpu_running' = FALSE
        /\ one_rank_running' = FALSE
  /\ UNCHANGED <<appVars, callVars, slotVars, queueVars, workerVars, rankVars, runVars,
                 sleepVars, rlock, crashed>>

Broadcast(r) ==
  wpc' = [w \in Workers |-> IF wpc[w] = "asleep" /\ wrank[w] = r THEN "woken" ELSE wpc[w]]

\* polling_thread_rank.  It skips a rank whose mutex is taken.
PollerRank(r) ==
  LET running == active[r] /\ nb[r] # 0
  IN /\ ppc = r
     /\ ppc' = IF r = NrRanks THEN 0 ELSE r + 1
     /\ one_rank_running' = (one_rank_running \/ (running /\ (rlock[r] # None \/ hw[r] # 0)))
     /\ IF running /\ rlock[r] = None
        THEN /\ nb' = [nb EXCEPT ![r] = hw[r]]
             /\ last' = [last EXCEPT ![r] = Len(jobs[r])]
             /\ IF hw[r] < nb[r] \/ last[r] # Len(jobs[r]) THEN Broadcast(r)
                ELSE UNCHANGED wpc
        ELSE UNCHANGED <<nb, last, wpc>>
     /\ UNCHANGED <<appVars, callVars, slotVars, queueVars, wrank, wjob, was, size, wat,
                    is_dpu_running, rankVars, hw, launched, active, rlock, crashed>>

PollerStep == ~crashed /\ (PollerTop \/ \E r \in Rank : PollerRank(r))

Next ==
  \/ \E a \in Apps : AppStep(a)
  \/ \E w \in Workers : WorkerStep(w)
  \/ \E r \in Rank : DpuStops(r)
  \/ PollerStep

\* The operating system runs every thread; whether DPU programs end is up to them.
FairSpec ==
  /\ Init /\ [][Next]_vars
  /\ \A a \in Apps : WF_vars(AppStep(a))
  /\ \A w \in Workers : WF_vars(WorkerStep(w))
  /\ WF_vars(PollerStep)
  /\ DpusStop => \A r \in Rank : WF_vars(DpuStops(r))

-----------------------------------------------------------------------------
(* Properties.                                                             *)

\* "if this is not a parallel job, can execute it only if the DPUs are not running"
\* (dpu_thread_job.c 109), for the jobs that come from the work queue without
\* having been looked at, too.
SerialJobsWait ==
  \A w \in Workers :
    wpc[w] = "job" /\ ~Parallel(wjob[w]) => nb[MyRank(w)] = 0

\* A rank with jobs has exactly one to see to them: an entry of the work queue or
\* a worker.  Two would run a rank's jobs twice or out of order, none would strand
\* them.  A rank that came early to a blocking single call waits with its job at
\* the head of its list; a worker that runs a nonblocking function, or that has
\* cleared jobs_thread, has left the list to others.  It is a property of ordinary
\* programs: a parallel job that fails, or a parallel nonblocking callback, leaves a rank
\* to nobody while its DPUs run (398, 315).
HasList(w) ==
  /\ wpc[w] # "idle"
  /\ wpc[w] \in {"function", "master"} => "nonblocking" \notin wjob[w].flags
  /\ wpc[w] = "poll" => wjob[w] # NoJob \/ nb[MyRank(w)] # 0

Hands(r) ==
  Cardinality({i \in DOMAIN queue : queue[i].rank = r})
  + Cardinality({w \in Workers : wrank[w] = r /\ HasList(w)})

Parked(r) ==
  LET j == Head(jobs[r])
  IN j.kind = "callback" /\ Single(CallOf(j)) /\ "nonblocking" \notin j.flags

RankInOneHand ==
  ~crashed => \A r \in Rank :
    /\ Hands(r) <= 1
    /\ jobs[r] # <<>> /\ ~Parked(r) => Hands(r) = 1

\* The assertions of the library: a rank is launched only when the end of its last run
\* was noticed (215), and polling sees a change only of a rank that was launched
\* ("polling is active while rank is not running", 434).
AssertionsHold ==
  \A w \in Workers :
    /\ wpc[w] = "job" /\ wjob[w].kind = "launch" /\ nb[MyRank(w)] = 0
       => ~launched[MyRank(w)]
    /\ wpc[w] = "status" => launched[MyRank(w)]

\* A single call's ranks lose their jobs when an earlier job of theirs fails; the
\* function then never runs and the master job's slot does not return ("In the
\* general async case, we do not handle a clean restart", 769).
NeverRun(r) ==
  LET Lost(a) == {i \in DOMAIN calls[a] :
                    Single(calls[a][i]) /\ owner[a][i] = r /\ left[a][i] > 0}
  IN UNION {{<<a, i>> : i \in Lost(a)} : a \in Apps}

\* When all is done every slot is free again, those of master jobs, of failed jobs and of
\* refused calls included: a rank lacks at most the master slots of the single calls
\* that never ran.
SlotsConserved ==
  /\ \A a \in Apps : step[a] = "done"
  /\ \A w \in Workers : wpc[w] = "idle"
  /\ \A r \in Rank : jobs[r] = <<>>
  => \A r \in Rank : avail[r] \in NrSlots - Cardinality(NeverRun(r)) .. NrSlots

\* Every call returns, whatever the slots, the sleeps and the gathering callbacks, unless
\* the program ends before at a failed assertion (AssertionsHold says of these that they
\* do not) or at the null pointer of dpu_thread_handle_global_block (180).  The property
\* lets that null pointer pass: it says nothing of whether a program meets it.
CallsReturn == <>(crashed \/ \A a \in Apps : step[a] = "done")

\* A synchronous call on running DPUs is served while they run: "The polling thread
\* also takes care of waking up the waiting thread in case new jobs have been added
\* to the FIFO" (dpu_polling.c 74).
PushServed ==
  \A a \in Apps : (step[a] = "wait" /\ Call(a).kind = "push") ~> (step[a] # "wait")
=============================================================================

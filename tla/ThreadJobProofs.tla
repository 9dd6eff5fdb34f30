-------------------------- MODULE ThreadJobProofs --------------------------
(***************************************************************************)
(* For every number of ranks, workers and callers, and every ordinary      *)
(* program: a rank with jobs is in one hand, a serial job does not meet    *)
(* running DPUs, and every run of the DPUs is noticed before the next.     *)
(***************************************************************************)
EXTENDS ThreadJob, FiniteSetTheorems, TLAPS

-----------------------------------------------------------------------------
(* The inductive invariant.                                                *)

Jobs == [kind  : {"launch", "copy", "push", "callback", "sync"},
         app   : Apps,
         n     : Nat \ {0},
         flags : SUBSET {"parallel", "fallible", "nonblocking", "single"}]

\* A job is of a call that its caller has made, and for one of the call's ranks.
IsJob(j, r) ==
  /\ j \in Jobs
  /\ j.n \in DOMAIN calls[j.app]
  /\ j.flags = CallOf(j).flags
  /\ j.kind = CallOf(j).kind \/ (j.kind = "sync" /\ CallOf(j).sync)
  /\ r \in Range(CallOf(j).ranks)

Ready(j, r) == Parallel(j) \/ nb[r] = 0
Blocking(j) == "nonblocking" \notin j.flags

Places == {"idle", "lock", "job", "advance", "fail", "poll", "asleep", "woken", "status",
           "next", "lockall", "detach", "requeue", "function", "global", "master"}

AppType ==
  /\ calls \in [Apps -> Programs]
  /\ n \in [Apps -> Nat \ {0}]
  /\ step \in [Apps -> {"slots", "master", "add", "addq", "wait", "done"}]
  /\ at \in [Apps -> Nat \ {0}]
  /\ DOMAIN left = Apps
  /\ \A a \in Apps : left[a] \in [DOMAIN calls[a] -> Int]

RankType ==
  /\ jobs \in [Rank -> Seq(Jobs)]
  /\ jobs_thread \in [Rank -> BOOLEAN]
  /\ jlock \in [Rank -> Apps \cup {None}]
  /\ rlock \in [Rank -> Workers \cup {None}]
  /\ queue \in Seq([rank : Rank, job : Jobs])

WorkType ==
  /\ wpc \in [Workers -> Places]
  /\ wrank \in [Workers -> Rank]
  /\ wjob \in [Workers -> Jobs \cup {NoJob}]
  /\ was \in [Workers -> Nat]

RunType ==
  /\ hw \in [Rank -> Nat]
  /\ nb \in [Rank -> Nat]
  /\ launched \in [Rank -> BOOLEAN]
  /\ active \in [Rank -> BOOLEAN]

TypeInv == AppType /\ RankType /\ WorkType /\ RunType

\* Where a caller is; between the two locks of its first rank it has the list.
CallerOk(a) ==
  /\ step[a] # "done" => n[a] \in DOMAIN calls[a]
  /\ step[a] \in {"slots", "addq"} => at[a] <= Len(Call(a).ranks)
  /\ step[a] = "addq" => jlock[RankAt(a)] = a /\ jobs[RankAt(a)] = <<>>

CallerInv == \A a \in Apps : CallerOk(a)

ListInv == \A r \in Rank : \A i \in DOMAIN jobs[r] : IsJob(jobs[r][i], r)

\* A worker at these places has its rank's mutex.
Locked(w) ==
  \/ wpc[w] \in {"job", "advance", "fail", "poll", "status", "next", "lockall", "global"}
  \/ wpc[w] \in {"function", "master"} /\ Blocking(wjob[w])

LockInv == \A w \in Workers : Locked(w) => rlock[wrank[w]] = w

\* A worker at these places executes the head of its rank's list, or is about to.
HasHead(w) ==
  \/ wpc[w] \in {"lock", "job", "advance", "fail", "lockall", "global", "detach"}
  \/ wpc[w] \in {"function", "master"} /\ Blocking(wjob[w])
  \/ wpc[w] \in {"poll", "status"} /\ wjob[w] # NoJob

\* A worker that runs, or is about to run, a single callback that blocks every rank.
Runs(w) ==
  \/ wpc[w] \in {"lockall", "global"}
  \/ wpc[w] = "function" /\ Blocking(wjob[w]) /\ Single(CallOf(wjob[w]))

WorkOk(w) ==
  LET r == wrank[w] IN
    /\ HasHead(w) => jobs[r] # <<>> /\ wjob[w] = Head(jobs[r])
    /\ wpc[w] \in {"asleep", "woken", "next"} => wjob[w] = NoJob
    /\ wpc[w] \in {"lock", "job"} => Ready(wjob[w], r)
    /\ wpc[w] \in {"poll", "status"} /\ wjob[w] # NoJob => Ready(wjob[w], r)
    /\ wpc[w] \in {"lockall", "function", "global", "master"} /\ Blocking(wjob[w]) =>
         Ready(wjob[w], r)
    /\ wpc[w] \in {"fail", "detach"} => nb[r] = 0
    /\ wpc[w] = "requeue" => jobs[r] # <<>> /\ Ready(Head(jobs[r]), r)
    /\ wpc[w] \in {"detach", "requeue", "function", "master"} =>
         IsJob(wjob[w], r) /\ wjob[w].kind = "callback"
    /\ wpc[w] \in {"detach", "requeue"} => ~Blocking(wjob[w])
    /\ wpc[w] \in {"lockall", "global"} =>
         wjob[w].kind = "callback" /\ Blocking(wjob[w]) /\ Single(CallOf(wjob[w]))
    /\ HasList(w) /\ wpc[w] # "requeue" => jobs_thread[r]

WorkInv == \A w \in Workers : WorkOk(w)

QueueInv ==
  \A i \in DOMAIN queue : LET r == queue[i].rank IN
    /\ jobs[r] # <<>>
    /\ queue[i].job = Head(jobs[r])
    /\ Ready(queue[i].job, r)

OneInv ==
  /\ \A i, j \in DOMAIN queue : queue[i].rank = queue[j].rank => i = j
  /\ \A v, w \in Workers : HasList(v) /\ HasList(w) /\ wrank[v] = wrank[w] => v = w
  /\ \A i \in DOMAIN queue, w \in Workers : HasList(w) => wrank[w] # queue[i].rank

\* Nobody has the rank.
Idle(r) ==
  /\ \A i \in DOMAIN queue : queue[i].rank # r
  /\ \A w \in Workers : HasList(w) => wrank[w] # r

\* Then no DPU runs, and there are no jobs or the rank waits for others.
IdleInv ==
  \A r \in Rank :
    /\ Idle(r) => nb[r] = 0
    /\ Idle(r) /\ jobs[r] # <<>> => Parked(r)
    /\ jobs[r] = <<>> => (Idle(r) <=> ~jobs_thread[r])

\* A run that has been noticed, or that a worker is about to notice.
RunInv ==
  /\ \A r \in Rank :
       /\ hw[r] <= nb[r]
       /\ nb[r] # 0 => launched[r]
       /\ nb[r] = 0 /\ launched[r] =>
            \E w \in Workers : wrank[w] = r /\ wpc[w] \in {"status", "asleep", "woken"}
       /\ active[r] => \E w \in Workers : wrank[w] = r /\ wpc[w] \in {"asleep", "woken"}
  /\ \A w \in Workers :
       /\ wpc[w] \in {"asleep", "woken", "status"} => launched[wrank[w]]
       /\ wpc[w] \in {"asleep", "woken"} => was[w] # 0

\* The ranks that wait at call i of a.
Waits(r) == Idle(r) /\ jobs[r] # <<>>
At(a, i) == {r \in Range(calls[a][i].ranks) :
               Waits(r) /\ Head(jobs[r]).app = a /\ Head(jobs[r]).n = i}

Gathers(a, i) == Single(calls[a][i]) /\ "nonblocking" \notin calls[a][i].flags

\* Who runs it has all other ranks.
RunOk(w) ==
  LET j == wjob[w] IN
    /\ left[j.app][j.n] < 1
    /\ Range(CallOf(j).ranks) \ {wrank[w]} \subseteq At(j.app, j.n)

\* They are as many as have been taken off its counter.
GatherInv ==
  /\ \A a \in Apps : \A i \in DOMAIN calls[a] :
       Gathers(a, i) /\ left[a][i] > 0 =>
         left[a][i] + Cardinality(At(a, i)) = Len(calls[a][i].ranks)
  /\ \A w \in Workers : Runs(w) => RunOk(w)

HandInv ==
  /\ TypeInv /\ CallerInv /\ ListInv /\ LockInv /\ WorkInv
  /\ QueueInv /\ OneInv /\ IdleInv /\ RunInv /\ GatherInv

\* The insertion of a null pointer leaves nothing else to say but these two.
IInv == HandInv \/ (crashed /\ SerialJobsWait /\ AssertionsHold)

-----------------------------------------------------------------------------
(* Calls, jobs and lists.                                                  *)

LEMMA CallFacts ==
  ASSUME TypeInv, OrdinaryPrograms, NEW a \in Apps, NEW i \in DOMAIN calls[a]
  PROVE  LET c == calls[a][i] IN
         /\ c \in Calls
         /\ i \in Nat \ {0}
         /\ c.ranks \in Seq(Rank)
         /\ Len(c.ranks) \in Nat \ {0}
         /\ Range(c.ranks) \subseteq Rank
         /\ \A k, m \in 1 .. Len(c.ranks) : c.ranks[k] = c.ranks[m] => k = m
         /\ "parallel" \in c.flags => "fallible" \notin c.flags
                                      /\ "nonblocking" \notin c.flags
                                      /\ "single" \notin c.flags
<1> DEFINE c == calls[a][i]
<1>1. calls[a] \in Programs /\ calls[a] \in Seq(Calls)
  BY ThreadJobAssumption DEF TypeInv, AppType
<1>2. c \in Calls /\ i \in Nat \ {0}
  BY <1>1
<1>3. c.ranks \in Seq(Rank) /\ c.ranks # <<>> /\ IsInjective(c.ranks)
  BY <1>2 DEF Calls
<1>4. Len(c.ranks) \in Nat \ {0} /\ Range(c.ranks) \subseteq Rank
  BY <1>3 DEF Range
<1>5. \A k, m \in 1 .. Len(c.ranks) : c.ranks[k] = c.ranks[m] => k = m
  BY <1>3 DEF IsInjective
<1>6. "parallel" \in c.flags => c.flags \cap {"fallible", "nonblocking", "single"} = {}
  BY <1>1 DEF OrdinaryPrograms
<1>7. "parallel" \in c.flags => "fallible" \notin c.flags
                                /\ "nonblocking" \notin c.flags
                                /\ "single" \notin c.flags
  BY <1>6
<1>8. QED
  BY <1>2, <1>3, <1>4, <1>5, <1>7

LEMMA JobFacts ==
  ASSUME TypeInv, OrdinaryPrograms, NEW j, NEW r, IsJob(j, r)
  PROVE  /\ j \in Jobs
         /\ j # NoJob
         /\ r \in Rank
         /\ j.app \in Apps
         /\ j.n \in DOMAIN calls[j.app]
         /\ CallOf(j) \in Calls
         /\ Parallel(j) => "fallible" \notin j.flags /\ Blocking(j) /\ ~Single(CallOf(j))
         /\ j.kind = "launch" => ~Parallel(j)
         /\ ~Blocking(j) => j.kind = "callback" \/ j.kind = "sync"
<1>1. j \in Jobs /\ j.app \in Apps /\ j.n \in DOMAIN calls[j.app]
  BY DEF IsJob, Jobs
<1>2. CallOf(j) \in Calls /\ r \in Rank
  BY <1>1, CallFacts DEF CallOf, IsJob
<1>3. j # NoJob
  BY <1>1 DEF Jobs, NoJob
<1>4. Parallel(j) => "fallible" \notin j.flags /\ Blocking(j) /\ ~Single(CallOf(j))
  BY <1>1, CallFacts DEF IsJob, Parallel, Blocking, Single, CallOf
<1>5. j.kind = "launch" => ~Parallel(j)
  BY <1>2 DEF IsJob, Parallel, Calls
<1>6. ~Blocking(j) => j.kind = "callback" \/ j.kind = "sync"
  BY <1>2 DEF IsJob, Blocking, Calls
<1>7. QED
  BY <1>1, <1>2, <1>3, <1>4, <1>5, <1>6

LEMMA TailFacts ==
  ASSUME NEW S, NEW s \in Seq(S), s # <<>>
  PROVE  /\ Tail(s) \in Seq(S)
         /\ Len(Tail(s)) = Len(s) - 1
         /\ \A i \in DOMAIN Tail(s) : i + 1 \in DOMAIN s /\ Tail(s)[i] = s[i + 1]
         /\ Head(s) \in S
         /\ Head(s) = s[1]
         /\ 1 \in DOMAIN s
  OBVIOUS

\* The jobs that a call adds are of that call.
LEMMA JobsOfFacts ==
  ASSUME TypeInv, OrdinaryPrograms, NEW a \in Apps, n[a] \in DOMAIN calls[a],
         NEW r \in Range(Call(a).ranks)
  PROVE  /\ JobsOf(a) \in Seq(Jobs)
         /\ JobsOf(a) # <<>>
         /\ Head(JobsOf(a)) = JobsOf(a)[1]
         /\ \A i \in DOMAIN JobsOf(a) : IsJob(JobsOf(a)[i], r)
         /\ IsJob(Head(JobsOf(a)), r)
<1> DEFINE c == Call(a)
<1>1. c \in Calls /\ n[a] \in Nat \ {0}
  BY CallFacts DEF Call
<1>2. c.kind \in {"launch", "copy", "push", "callback", "sync"}
      /\ c.flags \in SUBSET {"parallel", "fallible", "nonblocking", "single"}
  BY <1>1 DEF Calls
<1>3. \A k \in {c.kind} \cup {"sync"} : Job(a, c, k) \in Jobs
  BY <1>1, <1>2 DEF Job, Jobs
<1>4. \A k : CallOf(Job(a, c, k)) = c /\ Job(a, c, k).flags = c.flags
             /\ Job(a, c, k).kind = k /\ Job(a, c, k).n = n[a] /\ Job(a, c, k).app = a
  BY DEF Job, CallOf, Call
<1>5. IsJob(Job(a, c, c.kind), r)
  BY <1>3, <1>4 DEF IsJob
<1>6. c.sync => IsJob(Job(a, c, "sync"), r)
  BY <1>3, <1>4 DEF IsJob
<1>7. CASE c.sync /\ c.kind # "sync"
  <2>1. JobsOf(a) = <<Job(a, c, c.kind), Job(a, c, "sync")>>
    BY <1>7 DEF JobsOf
  <2>2. QED
    BY <2>1, <1>3, <1>5, <1>6, <1>7
<1>8. CASE ~(c.sync /\ c.kind # "sync")
  <2>1. JobsOf(a) = <<Job(a, c, c.kind)>>
    BY <1>8 DEF JobsOf
  <2>2. QED
    BY <2>1, <1>3, <1>5
<1>9. QED
  BY <1>7, <1>8

LEMMA NextJobFacts ==
  ASSUME TypeInv, NEW r \in Rank, NEW s \in Seq(Jobs)
  PROVE  /\ NextJob(s, r) # NoJob <=> s # <<>> /\ Ready(Head(s), r)
         /\ NextJob(s, r) # NoJob => NextJob(s, r) = Head(s)
         /\ NextJob(s, r) \in Jobs \cup {NoJob}
<1> \A j \in Jobs : j # NoJob
  BY DEF Jobs, NoJob
<1>1. s # <<>> => Head(s) \in Jobs
  OBVIOUS
<1>2. CASE s # <<>> /\ Ready(Head(s), r)
  <2>1. NextJob(s, r) = Head(s)
    BY <1>2 DEF NextJob, Ready
  <2>2. QED
    BY <1>1, <1>2, <2>1
<1>3. CASE ~(s # <<>> /\ Ready(Head(s), r))
  <2>1. NextJob(s, r) = NoJob
    BY <1>3 DEF NextJob, Ready
  <2>2. QED
    BY <1>3, <2>1
<1>4. QED
  BY <1>2, <1>3

\* What a worker with the head of its rank's list has.
LEMMA HeadFacts ==
  ASSUME HandInv, OrdinaryPrograms, NEW w \in Workers, HasHead(w)
  PROVE  /\ jobs[wrank[w]] \in Seq(Jobs)
         /\ jobs[wrank[w]] # <<>>
         /\ wjob[w] = Head(jobs[wrank[w]])
         /\ wjob[w] = jobs[wrank[w]][1]
         /\ IsJob(wjob[w], wrank[w])
         /\ wrank[w] \in Rank
<1>1. wrank[w] \in Rank /\ jobs[wrank[w]] \in Seq(Jobs)
  BY DEF HandInv, TypeInv, RankType, WorkType
<1>2. jobs[wrank[w]] # <<>> /\ wjob[w] = Head(jobs[wrank[w]])
  BY DEF HandInv, WorkInv, WorkOk
<1>3. 1 \in DOMAIN jobs[wrank[w]] /\ Head(jobs[wrank[w]]) = jobs[wrank[w]][1]
  BY <1>1, <1>2, TailFacts
<1>4. QED
  BY <1>1, <1>2, <1>3 DEF HandInv, ListInv

-----------------------------------------------------------------------------
(* Types.                                                                  *)

LEMMA AtRank ==
  ASSUME NEW S, NEW f \in [Rank -> Seq(S)], NEW r \in Rank, NEW s \in Seq(S)
  PROVE  [f EXCEPT ![r] = @ \o s] \in [Rank -> Seq(S)]
<1>1. f[r] \o s \in Seq(S)
  OBVIOUS
<1>2. QED
  BY <1>1

LEMMA AtEnd ==
  ASSUME NEW S, NEW s \in Seq(S), NEW e \in S
  PROVE  Append(s, e) \in Seq(S)
  OBVIOUS

LEMMA AddTypes ==
  ASSUME HandInv, OrdinaryPrograms, NEW a \in Apps,
         step[a] \in {"add", "addq"}, at[a] <= Len(Call(a).ranks)
  PROVE  /\ n[a] \in DOMAIN calls[a]
         /\ RankAt(a) \in Range(Call(a).ranks)
         /\ RankAt(a) \in Rank
         /\ JobsOf(a) \in Seq(Jobs)
         /\ First(a, RankAt(a)) \in [rank : Rank, job : Jobs]
<1>1. n[a] \in DOMAIN calls[a] /\ at[a] \in Nat \ {0}
  BY DEF HandInv, CallerInv, CallerOk, TypeInv, AppType
<1>2. TypeInv
  BY DEF HandInv
<1>3. RankAt(a) \in Range(Call(a).ranks) /\ RankAt(a) \in Rank
  BY <1>1, <1>2, CallFacts DEF RankAt, Call, Range
<1>4. JobsOf(a) \in Seq(Jobs) /\ Head(JobsOf(a)) \in Jobs
  BY <1>1, <1>2, <1>3, JobsOfFacts, TailFacts
<1>5. QED
  BY <1>1, <1>3, <1>4 DEF First

LEMMA AppTypes ==
  ASSUME HandInv, OrdinaryPrograms, NEW a \in Apps, AppStep(a)
  PROVE  TypeInv'
<1> USE DEF appVars, callVars, slotVars, queueVars, workerVars, pollVars, rankVars, runVars,
            sleepVars
<1>1. AppType /\ RankType /\ WorkType /\ RunType
  BY DEF HandInv, TypeInv
<1>2. UNCHANGED <<wpc, wrank, wjob, was, hw, nb, launched, active, jobs_thread, rlock,
                  calls, left>>
  BY DEF AppStep, TakeSlots, TakeMaster, AddRank, AddQueued, AddEnd, WaitSync
<1>3. WorkType' /\ RunType'
  BY <1>1, <1>2 DEF WorkType, RunType
<1>4. AppType'
  <2>1. /\ n \in [Apps -> Nat \ {0}]
        /\ step \in [Apps -> {"slots", "master", "add", "addq", "wait", "done"}]
        /\ at \in [Apps -> Nat \ {0}]
    BY <1>1 DEF AppType
  <2>2. \/ n' = n
        \/ n' = [n EXCEPT ![a] = @ + 1]
    BY DEF AppStep, TakeSlots, TakeMaster, AddRank, AddQueued, AddEnd, WaitSync, Finish
  <2>3. \/ at' = at
        \/ at' = [at EXCEPT ![a] = @ + 1]
        \/ at' = [at EXCEPT ![a] = 1]
    BY DEF AppStep, TakeSlots, TakeMaster, AddRank, AddQueued, AddEnd, WaitSync, Finish,
           NextRank
  <2>4. \/ step' = step
        \/ \E s \in {"slots", "master", "add", "addq", "wait", "done"} :
             step' = [step EXCEPT ![a] = s]
    BY DEF AppStep, TakeSlots, TakeMaster, AddRank, AddQueued, AddEnd, WaitSync, Finish,
           Goto
  <2>5. n' \in [Apps -> Nat \ {0}] /\ at' \in [Apps -> Nat \ {0}]
    BY <2>1, <2>2, <2>3
  <2>6. step' \in [Apps -> {"slots", "master", "add", "addq", "wait", "done"}]
    BY <2>1, <2>4
  <2>7. QED
    BY <1>1, <1>2, <2>5, <2>6 DEF AppType
<1>5. RankType'
  <2>1. /\ jobs \in [Rank -> Seq(Jobs)]
        /\ jlock \in [Rank -> Apps \cup {None}]
        /\ queue \in Seq([rank : Rank, job : Jobs])
    BY <1>1 DEF RankType
  <2> DEFINE Adds == step[a] \in {"add", "addq"} /\ at[a] <= Len(Call(a).ranks)
  <2>2. \/ jlock' = jlock
        \/ Adds /\ jlock' = [jlock EXCEPT ![RankAt(a)] = a]
        \/ Adds /\ jlock' = [jlock EXCEPT ![RankAt(a)] = None]
    BY DEF AppStep, TakeSlots, TakeMaster, AddRank, AddQueued, AddEnd, WaitSync, HandInv,
           CallerInv, CallerOk
  <2>3. \/ jobs' = jobs
        \/ Adds /\ jobs' = [jobs EXCEPT ![RankAt(a)] = @ \o JobsOf(a)]
    BY DEF AppStep, TakeSlots, TakeMaster, AddRank, AddQueued, AddEnd, WaitSync, HandInv,
           CallerInv, CallerOk, Added
  <2>4. \/ queue' = queue
        \/ Adds /\ queue' = Append(queue, First(a, RankAt(a)))
    BY DEF AppStep, TakeSlots, TakeMaster, AddRank, AddQueued, AddEnd, WaitSync, HandInv,
           CallerInv, CallerOk
  <2>5. Adds => /\ RankAt(a) \in Rank
                /\ JobsOf(a) \in Seq(Jobs)
                /\ First(a, RankAt(a)) \in [rank : Rank, job : Jobs]
    BY AddTypes
  <2> HIDE DEF Adds
  <2>6. jlock' \in [Rank -> Apps \cup {None}]
    BY <2>1, <2>2, <2>5
  <2>7. jobs' \in [Rank -> Seq(Jobs)]
    <3>1. Adds => [jobs EXCEPT ![RankAt(a)] = @ \o JobsOf(a)] \in [Rank -> Seq(Jobs)]
      BY <2>1, <2>5, AtRank
    <3>2. QED
      BY <2>1, <2>3, <3>1
  <2>8. queue' \in Seq([rank : Rank, job : Jobs])
    <3>1. Adds => Append(queue, First(a, RankAt(a))) \in Seq([rank : Rank, job : Jobs])
      BY <2>1, <2>5, AtEnd
    <3>2. QED
      BY <2>1, <2>4, <3>1
  <2>9. QED
    BY <1>1, <1>2, <2>6, <2>7, <2>8 DEF RankType
<1>6. QED
  BY <1>3, <1>4, <1>5 DEF TypeInv

-----------------------------------------------------------------------------
(* What a step leaves alone.                                               *)

Stays(v) == wrank'[v] = wrank[v] /\ wjob'[v] = wjob[v]
Same(v) == wpc'[v] = wpc[v] /\ Stays(v)
SameRank(r) == jobs'[r] = jobs[r] /\ nb'[r] = nb[r] /\ jobs_thread'[r] = jobs_thread[r]

LEMMA SameFacts ==
  ASSUME calls' = calls, NEW v \in Workers, Same(v)
  PROVE  /\ HasHead(v)' <=> HasHead(v)
         /\ Locked(v)' <=> Locked(v)
         /\ Runs(v)' <=> Runs(v)
         /\ nb'[wrank[v]] = nb[wrank[v]] => (HasList(v)' <=> HasList(v))
         /\ \A j : CallOf(j)' = CallOf(j)
         /\ \A j, r : IsJob(j, r)' <=> IsJob(j, r)
<1>1. \A j : (calls[j.app][j.n])' = calls[j.app][j.n]
  OBVIOUS
<1>2. HasHead(v)' <=> HasHead(v)
  BY DEF HasHead, Same, Stays
<1>3. Locked(v)' <=> Locked(v)
  BY DEF Locked, Same, Stays
<1>4. Runs(v)' <=> Runs(v)
  BY DEF Runs, Same, Stays, CallOf
<1>5. nb'[wrank[v]] = nb[wrank[v]] => (HasList(v)' <=> HasList(v))
  BY DEF HasList, Same, Stays, MyRank
<1>6. QED
  BY <1>1, <1>2, <1>3, <1>4, <1>5 DEF CallOf, IsJob

LEMMA SameWork ==
  ASSUME calls' = calls, NEW v \in Workers, Same(v), SameRank(wrank[v]), WorkOk(v)
  PROVE  WorkOk(v)'
<1>1. /\ HasHead(v)' <=> HasHead(v)
      /\ HasList(v)' <=> HasList(v)
      /\ CallOf(wjob[v])' = CallOf(wjob[v])
      /\ IsJob(wjob[v], wrank[v])' <=> IsJob(wjob[v], wrank[v])
  BY SameFacts DEF SameRank, Same, Stays
<1>2. /\ wpc'[v] = wpc[v] /\ wrank'[v] = wrank[v] /\ wjob'[v] = wjob[v]
      /\ jobs'[wrank[v]] = jobs[wrank[v]] /\ nb'[wrank[v]] = nb[wrank[v]]
      /\ jobs_thread'[wrank[v]] = jobs_thread[wrank[v]]
  BY DEF Same, Stays, SameRank
<1>3. \A j : Ready(j, wrank[v])' <=> Ready(j, wrank[v])
  BY <1>2 DEF Ready
<1>4. QED
  BY <1>1, <1>2, <1>3 DEF WorkOk

\* A worker without a list has nothing to lose.
LEMMA NoList ==
  ASSUME calls' = calls, NEW v \in Workers, Same(v), WorkOk(v), wpc[v] \in Places,
         ~HasList(v), ~HasList(v)'
  PROVE  ~HasHead(v) /\ ~Runs(v)' /\ WorkOk(v)'
<1>1. \/ wpc[v] = "idle"
      \/ wpc[v] \in {"function", "master"} /\ ~Blocking(wjob[v])
      \/ wpc[v] = "poll" /\ wjob[v] = NoJob
  BY DEF HasList, Places, Blocking
<1>2. ~HasHead(v) /\ ~Runs(v)
  BY <1>1 DEF HasHead, Runs
<1>3. ~HasHead(v)' /\ ~Runs(v)'
  BY <1>2, SameFacts
<1>4. wpc'[v] = wpc[v] /\ wrank'[v] = wrank[v] /\ wjob'[v] = wjob[v]
      /\ (IsJob(wjob[v], wrank[v])' <=> IsJob(wjob[v], wrank[v]))
  BY SameFacts DEF Same, Stays
<1>5. WorkOk(v)'
  BY <1>1, <1>3, <1>4 DEF WorkOk
<1>6. QED
  BY <1>2, <1>3, <1>5

\* Another worker at the rank of one that has its list.
LEMMA OtherWork ==
  ASSUME HandInv, calls' = calls, NEW w \in Workers, NEW v \in Workers \ {w}, Same(v),
         HasList(w), wrank[v] = wrank[w],
         nb'[wrank[w]] = nb[wrank[w]] \/ rlock[wrank[w]] \in {None, w}
  PROVE  ~HasList(v) /\ ~HasList(v)' /\ ~HasHead(v) /\ ~Runs(v)' /\ WorkOk(v)'
<1>1. ~HasList(v) /\ WorkOk(v) /\ wpc[v] \in Places
  BY DEF HandInv, OneInv, WorkInv, TypeInv, WorkType
<1>2. wpc[v] = "poll" => nb'[wrank[w]] = nb[wrank[w]]
  <2> SUFFICES ASSUME wpc[v] = "poll", rlock[wrank[v]] \in {None, w}
               PROVE  FALSE
    OBVIOUS
  <2>1. rlock[wrank[v]] = v
    BY DEF HandInv, LockInv, Locked
  <2>2. QED
    BY <2>1, ThreadJobAssumption
<1>3. ~HasList(v)'
  <2>1. CASE wpc[v] = "poll"
    BY <1>1, <1>2, <2>1, SameFacts
  <2>2. CASE wpc[v] # "poll"
    BY <1>1, <2>2 DEF HasList, Same, Stays
  <2>3. QED
    BY <2>1, <2>2
<1>4. QED
  BY <1>1, <1>3, NoList

\* The hands of the ranks stay, or one is opened.
LEMMA HandKeep ==
  ASSUME HandInv, queue' = queue,
         \A v \in Workers : /\ HasList(v)' <=> HasList(v)
                            /\ HasList(v) => wrank'[v] = wrank[v]
  PROVE  OneInv' /\ \A r \in Rank : Idle(r)' <=> Idle(r)
<1>1. OneInv
  BY DEF HandInv
<1>2. OneInv'
  BY <1>1 DEF OneInv
<1>3. \A r \in Rank : Idle(r)' <=> Idle(r)
  BY DEF Idle
<1>4. QED
  BY <1>2, <1>3

LEMMA HandOpen ==
  ASSUME HandInv, queue' = queue, NEW w \in Workers, HasList(w), ~HasList(w)',
         \A v \in Workers \ {w} : /\ HasList(v)' <=> HasList(v)
                                  /\ wrank'[v] = wrank[v]
  PROVE  OneInv' /\ \A r \in Rank : Idle(r)' <=> (Idle(r) \/ r = wrank[w])
<1>1. OneInv
  BY DEF HandInv
<1>2. OneInv'
  BY <1>1 DEF OneInv
<1>3. \A r \in Rank : Idle(r)' <=> (Idle(r) \/ r = wrank[w])
  BY <1>1 DEF Idle, OneInv
<1>4. QED
  BY <1>2, <1>3

LEMMA GatherFrame ==
  ASSUME HandInv, OrdinaryPrograms, calls' = calls,
         \A r \in Rank : /\ Waits(r)' <=> Waits(r)
                         /\ Waits(r) => Head(jobs[r])' = Head(jobs[r]),
         \A a \in Apps : \A i \in DOMAIN calls[a] :
           Gathers(a, i) => left'[a][i] = left[a][i],
         \A v \in Workers : Runs(v)' => Runs(v) /\ Stays(v) /\ IsJob(wjob[v], wrank[v])
  PROVE  GatherInv'
<1>1. \A a \in Apps : \A i \in DOMAIN calls[a] : At(a, i)' = At(a, i)
  <2> SUFFICES ASSUME NEW a \in Apps, NEW i \in DOMAIN calls[a]
               PROVE  At(a, i)' = At(a, i)
    OBVIOUS
  <2>1. Range(calls[a][i].ranks) \subseteq Rank
    BY CallFacts DEF HandInv
  <2>2. Range(calls[a][i].ranks)' = Range(calls[a][i].ranks)
    OBVIOUS
  <2>3. \A r \in Range(calls[a][i].ranks) :
          /\ Waits(r)' <=> Waits(r)
          /\ Waits(r) => Head(jobs[r])' = Head(jobs[r])
    BY <2>1
  <2> HIDE DEF Waits
  <2>4. QED
    BY <2>2, <2>3 DEF At
<1>2. \A a \in Apps : \A i \in DOMAIN calls[a] : Gathers(a, i)' <=> Gathers(a, i)
  BY DEF Gathers, Single
<1>3. GatherInv
  BY DEF HandInv
<1>4. ASSUME NEW a \in Apps, NEW i \in DOMAIN calls[a], Gathers(a, i)', left'[a][i] > 0
      PROVE  left'[a][i] + Cardinality(At(a, i))' = Len(calls[a][i].ranks)
  BY <1>1, <1>2, <1>3, <1>4 DEF GatherInv
<1>5. ASSUME NEW v \in Workers, Runs(v)'
      PROVE  RunOk(v)'
  <2> PICK j : j = wjob[v]
    OBVIOUS
  <2>1. Runs(v) /\ wjob[v] = j /\ wjob'[v] = j /\ wrank'[v] = wrank[v] /\ IsJob(j, wrank[v])
    BY <1>5 DEF Stays
  <2>2. j.app \in Apps /\ j.n \in DOMAIN calls[j.app] /\ j.flags = CallOf(j).flags
    BY <2>1, JobFacts DEF IsJob, HandInv
  <2>3. Gathers(j.app, j.n)
    BY <2>1, <2>2 DEF Runs, Gathers, Blocking, CallOf, HandInv, WorkInv, WorkOk
  <2>4. left[j.app][j.n] < 1 /\ Range(CallOf(j).ranks) \ {wrank[v]} \subseteq At(j.app, j.n)
    BY <1>3, <2>1 DEF GatherInv, RunOk
  <2>5. At(j.app, j.n)' = At(j.app, j.n) /\ left'[j.app][j.n] = left[j.app][j.n]
    BY <1>1, <2>2, <2>3
  <2>6. Range(CallOf(j).ranks)' = Range(CallOf(j).ranks)
    BY DEF CallOf
  <2>7. (/\ left[j.app][j.n] < 1
         /\ Range(CallOf(j).ranks) \ {wrank[v]} \subseteq At(j.app, j.n))'
    BY <2>1, <2>4, <2>5, <2>6
  <2>8. QED
    BY <2>1, <2>7 DEF CallOf, At, RunOk
<1>6. QED
  BY <1>4, <1>5 DEF GatherInv

LEMMA ElementOf ==
  ASSUME NEW S, NEW s \in Seq(S), NEW i \in DOMAIN s
  PROVE  s[i] \in S
  OBVIOUS

LEMMA EntryFacts ==
  ASSUME TypeInv, NEW i \in DOMAIN queue
  PROVE  queue[i].rank \in Rank /\ queue[i].job \in Jobs
<1>1. queue \in Seq([rank : Rank, job : Jobs])
  BY DEF TypeInv, RankType
<1>2. queue[i] \in [rank : Rank, job : Jobs]
  BY <1>1, ElementOf
<1>3. QED
  BY <1>2

LEMMA RunsFacts ==
  ASSUME HandInv, OrdinaryPrograms, NEW v \in Workers, Runs(v)
  PROVE  HasHead(v) /\ HasList(v) /\ IsJob(wjob[v], wrank[v])
<1>1. HasHead(v) /\ HasList(v)
  BY DEF Runs, HasHead, HasList, Blocking
<1>2. QED
  BY <1>1, HeadFacts

\* The other workers of a step of w: at its rank they have no list to lose.
LEMMA Others ==
  ASSUME HandInv, OrdinaryPrograms, NEW w \in Workers, HasList(w),
         calls' = calls,
         \A v \in Workers \ {w} : Same(v),
         \A r \in Rank \ {wrank[w]} : SameRank(r),
         nb'[wrank[w]] = nb[wrank[w]] \/ rlock[wrank[w]] \in {None, w}
  PROVE  \A v \in Workers \ {w} :
           /\ WorkOk(v)'
           /\ HasList(v)' <=> HasList(v)
           /\ Runs(v)' => Runs(v) /\ IsJob(wjob[v], wrank[v])
<1> SUFFICES ASSUME NEW v \in Workers \ {w}
             PROVE  /\ WorkOk(v)'
                    /\ HasList(v)' <=> HasList(v)
                    /\ Runs(v)' => Runs(v) /\ IsJob(wjob[v], wrank[v])
  OBVIOUS
<1>1. Same(v) /\ WorkOk(v) /\ wrank[v] \in Rank
  BY DEF HandInv, WorkInv, TypeInv, WorkType
<1>2. CASE wrank[v] = wrank[w]
  BY <1>1, <1>2, OtherWork
<1>3. CASE wrank[v] # wrank[w]
  <2>1. SameRank(wrank[v])
    BY <1>1, <1>3
  <2>2. WorkOk(v)' /\ (HasList(v)' <=> HasList(v)) /\ (Runs(v)' <=> Runs(v))
    BY <1>1, <2>1, SameWork, SameFacts DEF SameRank
  <2>3. QED
    BY <2>2, RunsFacts
<1>4. QED
  BY <1>2, <1>3

\* A worker that has the list of its rank goes on with it.
LEMMA KeepStep ==
  ASSUME HandInv, OrdinaryPrograms, NEW w \in Workers, HasList(w), HasList(w)',
         calls' = calls, queue' = queue, wrank'[w] = wrank[w],
         \A v \in Workers \ {w} : Same(v),
         \A r \in Rank \ {wrank[w]} : SameRank(r),
         nb'[wrank[w]] = nb[wrank[w]] \/ rlock[wrank[w]] \in {None, w},
         \A a \in Apps : \A i \in DOMAIN calls[a] :
           Gathers(a, i) => left'[a][i] = left[a][i],
         WorkOk(w)',
         Runs(w)' => Runs(w) /\ Stays(w)
  PROVE  WorkInv' /\ QueueInv' /\ OneInv' /\ IdleInv' /\ GatherInv'
<1> DEFINE q == wrank[w]
<1>1. \A v \in Workers \ {w} : /\ WorkOk(v)'
                               /\ HasList(v)' <=> HasList(v)
                               /\ Runs(v)' => Runs(v) /\ IsJob(wjob[v], wrank[v])
  BY Others
<1>2. WorkInv'
  BY <1>1 DEF WorkInv
<1>3. OneInv' /\ \A r \in Rank : Idle(r)' <=> Idle(r)
  BY <1>1, HandKeep DEF Same, Stays
<1>4. ~Idle(q) /\ \A i \in DOMAIN queue : queue[i].rank # q
  BY DEF Idle, HandInv, OneInv
<1>5. QueueInv'
  <2> SUFFICES ASSUME NEW i \in DOMAIN queue
               PROVE  /\ jobs'[queue[i].rank] # <<>>
                      /\ queue[i].job = Head(jobs'[queue[i].rank])
                      /\ Parallel(queue[i].job) \/ nb'[queue[i].rank] = 0
    BY DEF QueueInv, Ready
  <2>1. queue[i].rank \in Rank \ {q}
    BY <1>4, EntryFacts DEF HandInv
  <2>2. QED
    BY <2>1 DEF HandInv, QueueInv, Ready, SameRank
<1>6. IdleInv'
  <2> SUFFICES ASSUME NEW r \in Rank
               PROVE  /\ Idle(r)' => nb'[r] = 0
                      /\ Idle(r)' /\ jobs'[r] # <<>> => Parked(r)'
                      /\ jobs'[r] = <<>> => (Idle(r)' <=> ~jobs_thread'[r])
    BY DEF IdleInv
  <2>1. CASE r = q
    <3>1. jobs'[q] = <<>> => jobs_thread'[q]
      BY DEF WorkOk
    <3>2. QED
      BY <1>3, <1>4, <2>1, <3>1
  <2>2. CASE r # q
    <3>1. SameRank(r)
      BY <2>2
    <3>2. Parked(r)' <=> Parked(r)
      BY <3>1 DEF SameRank, Parked, CallOf, Single
    <3>3. QED
      BY <1>3, <3>1, <3>2 DEF SameRank, HandInv, IdleInv
  <2>3. QED
    BY <2>1, <2>2
<1>7. GatherInv'
  <2>1. \A r \in Rank : /\ Waits(r)' <=> Waits(r)
                        /\ Waits(r) => Head(jobs[r])' = Head(jobs[r])
    BY <1>3, <1>4 DEF Waits, SameRank
  <2>2. \A v \in Workers : Runs(v)' => Runs(v) /\ Stays(v) /\ IsJob(wjob[v], wrank[v])
    BY <1>1, RunsFacts DEF Same
  <2>3. QED
    BY <2>1, <2>2, GatherFrame
<1>8. QED
  BY <1>2, <1>3, <1>5, <1>6, <1>7

\* A worker leaves a rank that has no jobs left and whose DPUs do not run.
LEMMA OpenStep ==
  ASSUME HandInv, OrdinaryPrograms, NEW w \in Workers, HasList(w), ~HasList(w)',
         calls' = calls, queue' = queue, wrank'[w] = wrank[w],
         \A v \in Workers \ {w} : Same(v),
         \A r \in Rank \ {wrank[w]} : SameRank(r),
         nb[wrank[w]] = 0, nb'[wrank[w]] = 0,
         jobs'[wrank[w]] = <<>>, ~jobs_thread'[wrank[w]],
         \A a \in Apps : \A i \in DOMAIN calls[a] :
           Gathers(a, i) => left'[a][i] = left[a][i],
         WorkOk(w)', ~Runs(w)'
  PROVE  WorkInv' /\ QueueInv' /\ OneInv' /\ IdleInv' /\ GatherInv'
<1> DEFINE q == wrank[w]
<1>1. \A v \in Workers \ {w} : /\ WorkOk(v)'
                               /\ HasList(v)' <=> HasList(v)
                               /\ Runs(v)' => Runs(v) /\ IsJob(wjob[v], wrank[v])
  BY Others
<1>2. WorkInv'
  BY <1>1 DEF WorkInv
<1>3. OneInv' /\ \A r \in Rank : Idle(r)' <=> (Idle(r) \/ r = q)
  BY <1>1, HandOpen DEF Same, Stays
<1>4. ~Idle(q) /\ \A i \in DOMAIN queue : queue[i].rank # q
  BY DEF Idle, HandInv, OneInv
<1>5. QueueInv'
  <2> SUFFICES ASSUME NEW i \in DOMAIN queue
               PROVE  /\ jobs'[queue[i].rank] # <<>>
                      /\ queue[i].job = Head(jobs'[queue[i].rank])
                      /\ Parallel(queue[i].job) \/ nb'[queue[i].rank] = 0
    BY DEF QueueInv, Ready
  <2>1. queue[i].rank \in Rank \ {q}
    BY <1>4, EntryFacts DEF HandInv
  <2>2. QED
    BY <2>1 DEF HandInv, QueueInv, Ready, SameRank
<1>6. IdleInv'
  <2> SUFFICES ASSUME NEW r \in Rank
               PROVE  /\ Idle(r)' => nb'[r] = 0
                      /\ Idle(r)' /\ jobs'[r] # <<>> => Parked(r)'
                      /\ jobs'[r] = <<>> => (Idle(r)' <=> ~jobs_thread'[r])
    BY DEF IdleInv
  <2>1. CASE r = q
    BY <1>3, <2>1
  <2>2. CASE r # q
    <3>1. SameRank(r)
      BY <2>2
    <3>2. Parked(r)' <=> Parked(r)
      BY <3>1 DEF SameRank, Parked, CallOf, Single
    <3>3. QED
      BY <1>3, <2>2, <3>1, <3>2 DEF SameRank, HandInv, IdleInv
  <2>3. QED
    BY <2>1, <2>2
<1>7. GatherInv'
  <2>1. \A r \in Rank : /\ Waits(r)' <=> Waits(r)
                        /\ Waits(r) => Head(jobs[r])' = Head(jobs[r])
    BY <1>3, <1>4 DEF Waits, SameRank
  <2>2. \A v \in Workers : Runs(v)' => Runs(v) /\ Stays(v) /\ IsJob(wjob[v], wrank[v])
    BY <1>1, RunsFacts DEF Same
  <2>3. QED
    BY <2>1, <2>2, GatherFrame
<1>8. QED
  BY <1>2, <1>3, <1>5, <1>6, <1>7

\* A step without hands: of the lists, the queue and the runs nothing changes.
LEMMA IdleStep ==
  ASSUME HandInv, OrdinaryPrograms,
         UNCHANGED <<calls, left, queue, wrank, jobs, nb, jobs_thread>>,
         \A v \in Workers : /\ HasList(v)' <=> HasList(v)
                            /\ WorkOk(v)'
                            /\ Runs(v)' => Runs(v) /\ Stays(v)
  PROVE  WorkInv' /\ QueueInv' /\ OneInv' /\ IdleInv' /\ GatherInv'
<1>1. WorkInv'
  BY DEF WorkInv
<1>2. OneInv' /\ \A r \in Rank : Idle(r)' <=> Idle(r)
  BY HandKeep
<1>3. QueueInv'
  BY DEF HandInv, QueueInv, Ready
<1>4. IdleInv'
  <2>1. \A r \in Rank : Parked(r)' <=> Parked(r)
    BY DEF Parked, CallOf, Single
  <2>2. QED
    BY <1>2, <2>1 DEF HandInv, IdleInv
<1>5. GatherInv'
  <2>1. \A r \in Rank : /\ Waits(r)' <=> Waits(r)
                        /\ Waits(r) => Head(jobs[r])' = Head(jobs[r])
    BY <1>2 DEF Waits
  <2>2. \A v \in Workers : Runs(v)' => Runs(v) /\ Stays(v) /\ IsJob(wjob[v], wrank[v])
    BY RunsFacts
  <2>3. QED
    BY <2>1, <2>2, GatherFrame
<1>6. QED
  BY <1>1, <1>2, <1>3, <1>4, <1>5

LEMMA LockStep ==
  ASSUME HandInv, NEW w \in Workers,
         \A v \in Workers \ {w} : Same(v),
         \A r \in Rank : rlock'[r] = rlock[r] \/ rlock[r] \in {None, w},
         Locked(w)' => rlock'[wrank'[w]] = w
  PROVE  LockInv'
<1> SUFFICES ASSUME NEW v \in Workers, Locked(v)'
             PROVE  rlock'[wrank'[v]] = v
  BY DEF LockInv
<1>1. CASE v # w
  <2>1. Locked(v) /\ wrank'[v] = wrank[v] /\ wrank[v] \in Rank
    BY <1>1 DEF Same, Stays, Locked, HandInv, TypeInv, WorkType
  <2>2. rlock[wrank[v]] = v /\ v # None
    BY <2>1, ThreadJobAssumption DEF HandInv, LockInv
  <2>3. QED
    BY <1>1, <2>1, <2>2
<1>2. QED
  BY <1>1

LEMMA ListStep ==
  ASSUME HandInv, OrdinaryPrograms, UNCHANGED <<calls, n, step, at, jlock>>,
         \A r \in Rank :
           /\ jlock[r] # None => jobs'[r] = jobs[r]
           /\ \A i \in DOMAIN jobs'[r] : \E k \in DOMAIN jobs[r] : jobs'[r][i] = jobs[r][k]
  PROVE  CallerInv' /\ ListInv'
<1>1. ListInv'
  <2> SUFFICES ASSUME NEW r \in Rank, NEW i \in DOMAIN jobs'[r]
               PROVE  IsJob(jobs[r][i], r)'
    BY DEF ListInv
  <2>1. PICK k \in DOMAIN jobs[r] : jobs'[r][i] = jobs[r][k]
    OBVIOUS
  <2>2. IsJob(jobs[r][k], r)
    BY DEF HandInv, ListInv
  <2>3. QED
    BY <2>1, <2>2 DEF IsJob, CallOf
<1>2. ASSUME NEW a \in Apps
      PROVE  /\ Call(a)' = Call(a)
             /\ step[a] = "addq" => jobs'[RankAt(a)] = <<>>
  <2>1. Call(a)' = Call(a)
    BY DEF Call
  <2>2. CASE step[a] = "addq"
    <3>1. jlock[RankAt(a)] = a /\ jobs[RankAt(a)] = <<>> /\ at[a] <= Len(Call(a).ranks)
      BY <2>2 DEF HandInv, CallerInv, CallerOk
    <3>2. RankAt(a) \in Rank /\ a # None
      BY <2>2, <3>1, AddTypes, ThreadJobAssumption
    <3>3. QED
      BY <2>1, <3>1, <3>2
  <2>3. QED
    BY <2>1, <2>2
<1>3. CallerInv'
  BY <1>2 DEF CallerInv, CallerOk, HandInv, RankAt, Call
<1>4. QED
  BY <1>1, <1>3

Sleeping == {"asleep", "woken", "status"}

\* Of the runs nothing changes but the places of workers that do not watch them.
LEMMA RunKeep ==
  ASSUME HandInv, UNCHANGED <<hw, nb, launched, active>>,
         \A v \in Workers :
           \/ {wpc[v], wpc'[v]} \cap Sleeping = {}
           \/ wpc'[v] = wpc[v] /\ wrank'[v] = wrank[v] /\ was'[v] = was[v]
  PROVE  RunInv'
<1>1. RunInv
  BY DEF HandInv
<1>2. \A v \in Workers : wpc[v] \in Sleeping \/ wpc'[v] \in Sleeping =>
        wpc'[v] = wpc[v] /\ wrank'[v] = wrank[v] /\ was'[v] = was[v]
  OBVIOUS
<1>3. QED
  BY <1>1, <1>2 DEF RunInv, Sleeping

\* A worker goes from one place to another.
LEMMA MoveStep ==
  ASSUME HandInv, OrdinaryPrograms, NEW w \in Workers, NEW p \in Places,
         wpc' = [wpc EXCEPT ![w] = p],
         UNCHANGED <<calls, n, step, at, jobs, jobs_thread, jlock, queue, wrank, wjob, nb>>,
         AppType', was' \in [Workers -> Nat], RunType',
         \A a \in Apps : \A i \in DOMAIN calls[a] :
           Gathers(a, i) => left'[a][i] = left[a][i],
         HasList(w)' <=> HasList(w), WorkOk(w)', Runs(w)' => Runs(w),
         rlock' \in [Rank -> Workers \cup {None}],
         \A r \in Rank : rlock'[r] = rlock[r] \/ rlock[r] \in {None, w},
         Locked(w)' => rlock'[wrank[w]] = w,
         RunInv', left' = left \/ HasList(w)
  PROVE  HandInv'
<1>1. RankType /\ WorkType
  BY DEF HandInv, TypeInv
<1>2. RankType' /\ WorkType'
  BY <1>1 DEF RankType, WorkType
<1>3. wpc'[w] = p /\ \A v \in Workers \ {w} : Same(v)
  BY <1>1 DEF WorkType, Same, Stays
<1>4. WorkInv' /\ QueueInv' /\ OneInv' /\ IdleInv' /\ GatherInv'
  <2>1. CASE HasList(w)
    <3>1. \A r \in Rank : SameRank(r)
      BY DEF SameRank
    <3>2. Runs(w)' => Runs(w) /\ Stays(w)
      BY DEF Stays
    <3>3. QED
      BY <1>3, <2>1, <3>1, <3>2, KeepStep
  <2>2. CASE ~HasList(w)
    <3>1. \A v \in Workers \ {w} : /\ HasList(v)' <=> HasList(v)
                                   /\ WorkOk(v)'
                                   /\ Runs(v)' => Runs(v) /\ Stays(v)
      <4> SUFFICES ASSUME NEW v \in Workers \ {w}
                   PROVE  /\ HasList(v)' <=> HasList(v)
                          /\ WorkOk(v)'
                          /\ Runs(v)' => Runs(v) /\ Stays(v)
        OBVIOUS
      <4>1. Same(v) /\ WorkOk(v) /\ SameRank(wrank[v])
        BY <1>3 DEF HandInv, WorkInv, SameRank
      <4>2. QED
        BY <4>1, SameFacts, SameWork DEF Same, SameRank
    <3>2. ~Runs(w)'
      BY <2>2, RunsFacts
    <3>3. QED
      BY <2>2, <3>1, <3>2, IdleStep
  <2>3. QED
    BY <2>1, <2>2
<1>5. LockInv'
  BY <1>3, LockStep
<1>6. CallerInv' /\ ListInv'
  BY ListStep
<1>7. QED
  BY <1>2, <1>4, <1>5, <1>6 DEF HandInv, TypeInv

-----------------------------------------------------------------------------
(* The steps of a worker that moves.                                       *)

LEMMA LockRankInv ==
  ASSUME HandInv, OrdinaryPrograms, NEW w \in Workers, LockRank(w)
  PROVE  HandInv'
<1> USE DEF appVars, callVars, slotVars, queueVars, workerVars, pollVars, rankVars, runVars,
            sleepVars
<1>1. /\ wpc[w] = "lock" /\ wpc' = [wpc EXCEPT ![w] = "job"]
      /\ rlock[wrank[w]] = None /\ rlock' = [rlock EXCEPT ![wrank[w]] = w]
      /\ UNCHANGED <<calls, n, step, at, left, jobs, jobs_thread, jlock, queue, wrank, wjob,
                     was, hw, nb, launched, active>>
  BY DEF LockRank, GotoW, MyRank
<1>2. AppType /\ RankType /\ WorkType /\ RunType /\ WorkOk(w)
  BY DEF HandInv, TypeInv, WorkInv
<1>3. /\ AppType' /\ RunType' /\ was' \in [Workers -> Nat]
      /\ rlock' \in [Rank -> Workers \cup {None}] /\ rlock'[wrank[w]] = w /\ wpc'[w] = "job"
      /\ \A r \in Rank : rlock'[r] = rlock[r] \/ rlock[r] \in {None, w}
  BY <1>1, <1>2 DEF AppType, RankType, WorkType, RunType
<1>4. HasList(w) /\ HasList(w)' /\ HasHead(w) /\ ~Runs(w)'
  BY <1>1, <1>3 DEF HasList, HasHead, Runs
<1>5. WorkOk(w)'
  BY <1>1, <1>2, <1>3, <1>4 DEF WorkOk, Ready
<1>6. RunInv'
  <2>1. \A v \in Workers : wpc'[v] = wpc[v] \/ {wpc[v], wpc'[v]} \cap Sleeping = {}
    BY <1>1, <1>2, <1>3 DEF WorkType, Sleeping
  <2>2. QED
    BY <1>1, <2>1, RunKeep
<1>7. QED
  BY <1>1, <1>3, <1>4, <1>5, <1>6, MoveStep DEF Places

LEMMA LeaveInv ==
  ASSUME HandInv, OrdinaryPrograms, NEW w \in Workers, Leave(w)
  PROVE  HandInv'
<1> USE DEF appVars, callVars, slotVars, queueVars, workerVars, pollVars, rankVars, runVars,
            sleepVars
<1>1. /\ wpc[w] = "poll" /\ wpc' = [wpc EXCEPT ![w] = "idle"]
      /\ wjob[w] = NoJob /\ nb[wrank[w]] = 0
      /\ rlock' = [rlock EXCEPT ![wrank[w]] = None]
      /\ UNCHANGED <<calls, n, step, at, left, jobs, jobs_thread, jlock, queue, wrank, wjob,
                     was, hw, nb, launched, active>>
  BY DEF Leave, GotoW, MyRank
<1>2. AppType /\ RankType /\ WorkType /\ RunType /\ WorkOk(w)
  BY DEF HandInv, TypeInv, WorkInv
<1>3. rlock[wrank[w]] = w
  BY <1>1 DEF HandInv, LockInv, Locked
<1>4. /\ AppType' /\ RunType' /\ was' \in [Workers -> Nat] /\ wpc'[w] = "idle"
      /\ rlock' \in [Rank -> Workers \cup {None}]
      /\ \A r \in Rank : rlock'[r] = rlock[r] \/ rlock[r] \in {None, w}
  BY <1>1, <1>2, <1>3 DEF AppType, RankType, WorkType, RunType
<1>5. ~HasList(w) /\ ~HasList(w)' /\ ~HasHead(w)' /\ ~Runs(w)' /\ ~Locked(w)'
  BY <1>1, <1>4 DEF HasList, HasHead, Runs, Locked, MyRank
<1>6. WorkOk(w)'
  BY <1>4, <1>5 DEF WorkOk
<1>7. RunInv'
  <2>1. \A v \in Workers : wpc'[v] = wpc[v] \/ {wpc[v], wpc'[v]} \cap Sleeping = {}
    BY <1>1, <1>2, <1>4 DEF WorkType, Sleeping
  <2>2. QED
    BY <1>1, <2>1, RunKeep
<1>8. QED
  BY <1>1, <1>4, <1>5, <1>6, <1>7, MoveStep DEF Places

LEMMA LockAllInv ==
  ASSUME HandInv, OrdinaryPrograms, NEW w \in Workers, LockAll(w)
  PROVE  HandInv'
<1> USE DEF appVars, callVars, slotVars, queueVars, workerVars, pollVars, rankVars, runVars,
            sleepVars
<1>1. PICK p \in {"lockall", "function"} : wpc' = [wpc EXCEPT ![w] = p]
  BY DEF LockAll, GotoW
<1> DEFINE q == CallOf(wjob[w]).ranks[wat[w]]
<1>2. rlock[q] \in {None, w} /\ rlock' = [rlock EXCEPT ![q] = w]
  BY DEF LockAll
<1> HIDE DEF q
<1>3. /\ wpc[w] = "lockall"
      /\ UNCHANGED <<calls, n, step, at, left, jobs, jobs_thread, jlock, queue, wrank, wjob,
                     was, hw, nb, launched, active>>
  BY DEF LockAll
<1>4. AppType /\ RankType /\ WorkType /\ RunType /\ WorkOk(w)
  BY DEF HandInv, TypeInv, WorkInv
<1>5. rlock[wrank[w]] = w
  BY <1>3 DEF HandInv, LockInv, Locked
<1>6. /\ AppType' /\ RunType' /\ was' \in [Workers -> Nat] /\ wpc'[w] = p
      /\ rlock' \in [Rank -> Workers \cup {None}] /\ rlock'[wrank[w]] = w
      /\ \A r \in Rank : rlock'[r] = rlock[r] \/ rlock[r] \in {None, w}
  BY <1>1, <1>2, <1>3, <1>4, <1>5 DEF AppType, RankType, WorkType, RunType
<1>7. wjob[w].kind = "callback" /\ Blocking(wjob[w]) /\ Single(CallOf(wjob[w]))
  BY <1>3, <1>4 DEF WorkOk
<1>8. HasList(w) /\ HasList(w)' /\ HasHead(w) /\ Runs(w)
  BY <1>1, <1>3, <1>6, <1>7 DEF HasList, HasHead, Runs, Blocking
<1>9. WorkOk(w)'
  <2>1. IsJob(wjob[w], wrank[w])
    BY <1>8, HeadFacts
  <2>2. IsJob(wjob[w], wrank[w])'
    BY <1>3, <2>1 DEF IsJob, CallOf
  <2>3. Single(CallOf(wjob[w]))'
    BY <1>3, <1>7 DEF CallOf, Single
  <2>4. Ready(wjob[w], wrank[w])
    BY <1>3, <1>4, <1>7 DEF WorkOk
  <2>5. Ready(wjob[w], wrank[w])'
    BY <1>3, <2>4 DEF Ready
  <2>6. QED
    BY <1>3, <1>4, <1>6, <1>7, <1>8, <2>2, <2>3, <2>5 DEF WorkOk
<1>10. RunInv'
  <2>1. \A v \in Workers : wpc'[v] = wpc[v] \/ {wpc[v], wpc'[v]} \cap Sleeping = {}
    BY <1>1, <1>3, <1>4, <1>6 DEF WorkType, Sleeping
  <2>2. QED
    BY <1>3, <2>1, RunKeep
<1>11. QED
  BY <1>1, <1>3, <1>6, <1>8, <1>9, <1>10, MoveStep DEF Places

LEMMA CallFunctionInv ==
  ASSUME HandInv, OrdinaryPrograms, NEW w \in Workers, CallFunction(w)
  PROVE  HandInv'
<1> USE DEF appVars, callVars, slotVars, queueVars, workerVars, pollVars, rankVars, runVars,
            sleepVars
<1> DEFINE single == Single(CallOf(wjob[w]))
           blocking == Blocking(wjob[w])
<1>1. /\ wpc[w] = "function"
      /\ rlock' = [r \in Rank |-> IF rlock[r] = w /\ r # wrank[w] THEN None ELSE rlock[r]]
      /\ UNCHANGED <<calls, n, step, at, left, jobs, jobs_thread, jlock, queue, wrank, wjob,
                     was, hw, nb, launched, active>>
  BY DEF CallFunction, GotoW, MyRank
<1>2. AppType /\ RankType /\ WorkType /\ RunType /\ WorkOk(w)
  BY DEF HandInv, TypeInv, WorkInv
<1>3. IsJob(wjob[w], wrank[w]) /\ wjob[w].kind = "callback"
  BY <1>1, <1>2 DEF WorkOk
<1>4. "nonblocking" \notin CallOf(wjob[w]).flags <=> blocking
  BY <1>3 DEF IsJob, Blocking
<1>5. \E p \in Places :
        /\ wpc' = [wpc EXCEPT ![w] = p]
        /\ p \in IF single THEN {IF blocking THEN "global" ELSE "master"}
                 ELSE IF blocking THEN {"advance", "fail"} ELSE {"idle"}
        /\ p = "fail" => "fallible" \in wjob[w].flags
  BY <1>4 DEF CallFunction, GotoW, Places, Ends
<1>6. PICK p \in Places :
        /\ wpc' = [wpc EXCEPT ![w] = p]
        /\ p \in IF single THEN {IF blocking THEN "global" ELSE "master"}
                 ELSE IF blocking THEN {"advance", "fail"} ELSE {"idle"}
        /\ p = "fail" => "fallible" \in wjob[w].flags
  BY <1>5
<1>7. blocking => rlock[wrank[w]] = w
  BY <1>1 DEF HandInv, LockInv, Locked
<1>8. /\ AppType' /\ RunType' /\ was' \in [Workers -> Nat] /\ wpc'[w] = p
      /\ rlock' \in [Rank -> Workers \cup {None}]
      /\ blocking => rlock'[wrank[w]] = w
      /\ \A r \in Rank : rlock'[r] = rlock[r] \/ rlock[r] \in {None, w}
  BY <1>1, <1>2, <1>6, <1>7 DEF AppType, RankType, WorkType, RunType
<1>9. /\ (HasList(w) <=> blocking) /\ (HasList(w)' <=> blocking)
      /\ (HasHead(w) <=> blocking) /\ (HasHead(w)' <=> blocking)
      /\ (Locked(w)' => blocking)
  BY <1>1, <1>6, <1>8 DEF HasList, HasHead, Locked, Blocking
<1>10. Runs(w)' => Runs(w)
  BY <1>1, <1>6, <1>8 DEF Runs
<1>11. WorkOk(w)'
  <2>1. IsJob(wjob[w], wrank[w])' /\ (single => single')
    BY <1>1, <1>3 DEF IsJob, CallOf, Single
  <2>2. blocking' <=> blocking
    BY <1>1 DEF Blocking
  <2>3. blocking => Ready(wjob[w], wrank[w]) /\ Ready(wjob[w], wrank[w])'
    BY <1>1, <1>2 DEF WorkOk, Ready
  <2>4. p = "fail" => blocking /\ nb[wrank[w]] = 0
    BY <1>3, <1>6, <2>3, JobFacts DEF Ready, HandInv
  <2> HIDE DEF blocking, single
  <2>5. QED
    BY <1>1, <1>2, <1>3, <1>6, <1>8, <1>9, <2>1, <2>2, <2>3, <2>4 DEF WorkOk, blocking, single
<1>12. RunInv'
  <2>1. \A v \in Workers : wpc'[v] = wpc[v] \/ {wpc[v], wpc'[v]} \cap Sleeping = {}
    BY <1>1, <1>2, <1>6, <1>8 DEF WorkType, Sleeping
  <2>2. QED
    BY <1>1, <2>1, RunKeep
<1>13. QED
  BY <1>1, <1>6, <1>8, <1>9, <1>10, <1>11, <1>12, MoveStep

LEMMA ReleaseMasterInv ==
  ASSUME HandInv, OrdinaryPrograms, NEW w \in Workers, ReleaseMaster(w)
  PROVE  HandInv'
<1> USE DEF appVars, callVars, slotVars, queueVars, workerVars, pollVars, rankVars, runVars,
            sleepVars
<1> DEFINE blocking == Blocking(wjob[w])
<1>1. PICK p \in Places : /\ wpc' = [wpc EXCEPT ![w] = p]
                          /\ p \in IF blocking THEN {"advance", "fail"} ELSE {"idle"}
                          /\ p = "fail" => "fallible" \in wjob[w].flags
  BY DEF ReleaseMaster, GotoW, Places, Blocking, Ends
<1>2. /\ wpc[w] = "master"
      /\ UNCHANGED <<calls, n, step, at, left, jobs, jobs_thread, jlock, queue, wrank, wjob,
                     was, hw, nb, launched, active, rlock>>
  BY DEF ReleaseMaster, GotoW
<1>3. AppType /\ RankType /\ WorkType /\ RunType /\ WorkOk(w)
  BY DEF HandInv, TypeInv, WorkInv
<1>4. blocking => rlock[wrank[w]] = w
  BY <1>2 DEF HandInv, LockInv, Locked
<1>5. /\ AppType' /\ RunType' /\ was' \in [Workers -> Nat] /\ wpc'[w] = p
      /\ rlock' \in [Rank -> Workers \cup {None}]
  BY <1>1, <1>2, <1>3 DEF AppType, RankType, WorkType, RunType
<1>6. /\ (HasList(w) <=> blocking) /\ (HasList(w)' <=> blocking)
      /\ (HasHead(w) <=> blocking) /\ (HasHead(w)' <=> blocking)
      /\ (Locked(w)' => blocking) /\ ~Runs(w)'
  BY <1>1, <1>2, <1>5 DEF HasList, HasHead, Locked, Blocking, Runs
<1>7. WorkOk(w)'
  <2>1. p = "fail" => nb[wrank[w]] = 0
    <3>1. IsJob(wjob[w], wrank[w]) /\ (blocking => Ready(wjob[w], wrank[w]))
      BY <1>2, <1>3 DEF WorkOk
    <3>2. QED
      BY <1>1, <3>1, JobFacts DEF Ready, HandInv
  <2>2. QED
    BY <1>1, <1>2, <1>3, <1>5, <1>6, <2>1 DEF WorkOk
<1>8. RunInv'
  <2>1. \A v \in Workers : wpc'[v] = wpc[v] \/ {wpc[v], wpc'[v]} \cap Sleeping = {}
    BY <1>1, <1>2, <1>3, <1>5 DEF WorkType, Sleeping
  <2>2. QED
    BY <1>2, <2>1, RunKeep
<1>9. QED
  BY <1>1, <1>2, <1>4, <1>5, <1>6, <1>7, <1>8, MoveStep

LEMMA FallAsleepInv ==
  ASSUME HandInv, OrdinaryPrograms, NEW w \in Workers, FallAsleep(w)
  PROVE  HandInv'
<1> USE DEF appVars, callVars, slotVars, queueVars, workerVars, pollVars, rankVars, runVars,
            sleepVars
<1>1. /\ wpc[w] = "poll" /\ wpc' = [wpc EXCEPT ![w] = "asleep"]
      /\ wjob[w] = NoJob /\ nb[wrank[w]] # 0
      /\ was' = [was EXCEPT ![w] = nb[wrank[w]]]
      /\ active' = [active EXCEPT ![wrank[w]] = TRUE]
      /\ rlock' = [rlock EXCEPT ![wrank[w]] = None]
      /\ UNCHANGED <<calls, n, step, at, left, jobs, jobs_thread, jlock, queue, wrank, wjob,
                     hw, nb, launched>>
  BY DEF FallAsleep, GotoW, MyRank
<1>2. AppType /\ RankType /\ WorkType /\ RunType /\ WorkOk(w) /\ RunInv
  BY DEF HandInv, TypeInv, WorkInv
<1>3. rlock[wrank[w]] = w
  BY <1>1 DEF HandInv, LockInv, Locked
<1>4. wrank[w] \in Rank /\ nb[wrank[w]] \in Nat
  BY <1>2 DEF WorkType, RunType
<1>5. /\ AppType' /\ RunType' /\ was' \in [Workers -> Nat] /\ wpc'[w] = "asleep"
      /\ rlock' \in [Rank -> Workers \cup {None}]
      /\ \A r \in Rank : rlock'[r] = rlock[r] \/ rlock[r] \in {None, w}
  BY <1>1, <1>2, <1>3, <1>4 DEF AppType, RankType, WorkType, RunType
<1>6. HasList(w) /\ HasList(w)' /\ ~HasHead(w)' /\ ~Runs(w)' /\ ~Locked(w)'
  BY <1>1, <1>5 DEF HasList, HasHead, Runs, Locked, MyRank
<1>7. WorkOk(w)'
  BY <1>1, <1>2, <1>5, <1>6 DEF WorkOk
<1>8. RunInv'
  <2>1. \A v \in Workers \ {w} : wpc'[v] = wpc[v] /\ was'[v] = was[v]
    BY <1>1, <1>2 DEF WorkType
  <2>2. was'[w] = nb[wrank[w]] /\ launched[wrank[w]]
    BY <1>1, <1>2, <1>4 DEF WorkType, RunInv
  <2>3. \A r \in Rank : active'[r] = (active[r] \/ r = wrank[w])
    BY <1>1, <1>2, <1>4 DEF RunType
  <2>4. QED
    BY <1>1, <1>2, <1>4, <1>5, <2>1, <2>2, <2>3 DEF RunInv
<1>9. QED
  BY <1>1, <1>5, <1>6, <1>7, <1>8, MoveStep DEF Places

LEMMA WakeInv ==
  ASSUME HandInv, OrdinaryPrograms, NEW w \in Workers, Wake(w)
  PROVE  HandInv'
<1> USE DEF appVars, callVars, slotVars, queueVars, workerVars, pollVars, rankVars, runVars,
            sleepVars
<1> DEFINE q == wrank[w]
           same == nb[q] = was[w] /\ last[q] = size[w]
<1>1. /\ wpc[w] = "woken" /\ rlock[q] = None
      /\ active' = [active EXCEPT ![q] = same]
      /\ rlock' = [rlock EXCEPT ![q] = IF same THEN None ELSE w]
      /\ UNCHANGED <<calls, n, step, at, left, jobs, jobs_thread, jlock, queue, wrank, wjob,
                     was, hw, nb, launched>>
  BY DEF Wake, GotoW, MyRank
<1>2. PICK p \in Places : /\ wpc' = [wpc EXCEPT ![w] = p]
                          /\ p = IF same THEN "asleep"
                                 ELSE IF nb[q] # was[w] THEN "status" ELSE "next"
  BY DEF Wake, GotoW, MyRank, Places
<1>3. AppType /\ RankType /\ WorkType /\ RunType /\ WorkOk(w) /\ RunInv
  BY DEF HandInv, TypeInv, WorkInv
<1>4. /\ q \in Rank /\ p \in {"asleep", "status", "next"}
      /\ (p = "asleep") <=> same
      /\ p = "next" => nb[q] = was[w]
  BY <1>2, <1>3 DEF WorkType
<1> HIDE DEF same
<1>5. /\ AppType' /\ RunType' /\ was' \in [Workers -> Nat] /\ wpc'[w] = p
      /\ rlock' \in [Rank -> Workers \cup {None}]
      /\ p # "asleep" => rlock'[wrank[w]] = w
      /\ \A r \in Rank : rlock'[r] = rlock[r] \/ rlock[r] \in {None, w}
  <2>1. rlock' = [rlock EXCEPT ![q] = None] \/ rlock' = [rlock EXCEPT ![q] = w]
    BY <1>1
  <2>2. p # "asleep" => rlock' = [rlock EXCEPT ![q] = w]
    BY <1>1, <1>4
  <2>3. same \in BOOLEAN
    BY DEF same
  <2>4. QED
    BY <1>1, <1>2, <1>3, <1>4, <2>1, <2>2, <2>3 DEF AppType, RankType, WorkType, RunType
<1>6. /\ HasList(w) /\ HasList(w)' /\ ~Runs(w)' /\ (Locked(w)' => p # "asleep")
      /\ wjob[w] = NoJob
  BY <1>1, <1>3, <1>4, <1>5 DEF HasList, Runs, Locked, MyRank, WorkOk
<1>7. ~HasHead(w)'
  BY <1>1, <1>4, <1>5, <1>6 DEF HasHead
<1>8. WorkOk(w)'
  BY <1>1, <1>3, <1>4, <1>5, <1>6, <1>7 DEF WorkOk
<1>9. RunInv'
  <2>1. \A v \in Workers \ {w} : wpc'[v] = wpc[v]
    BY <1>2, <1>3 DEF WorkType
  <2>2. was[w] # 0 /\ launched[q] /\ was[w] \in Nat
    BY <1>1, <1>3 DEF WorkType, RunInv
  <2>3. \A r \in Rank : active'[r] => IF r = q THEN p = "asleep" ELSE active[r]
    <3>1. active'[q] = same
      BY <1>1, <1>3, <1>4 DEF RunType
    <3>2. \A r \in Rank \ {q} : active'[r] = active[r]
      BY <1>1, <1>3, <1>4 DEF RunType
    <3>3. QED
      BY <1>4, <3>1, <3>2
  <2>4. \A r \in Rank : nb[r] = 0 /\ launched[r] =>
          \E v \in Workers : wrank[v] = r /\ wpc'[v] \in {"status", "asleep", "woken"}
    BY <1>3, <1>4, <1>5, <2>1, <2>2 DEF RunInv
  <2>5. ASSUME NEW r \in Rank, active'[r]
        PROVE  \E v \in Workers : wrank[v] = r /\ wpc'[v] \in {"asleep", "woken"}
    <3>1. CASE r = q
      BY <1>5, <2>3, <2>5, <3>1
    <3>2. CASE r # q
      <4>1. PICK v \in Workers : wrank[v] = r /\ wpc[v] \in {"asleep", "woken"}
        BY <1>3, <2>3, <2>5, <3>2 DEF RunInv
      <4>2. QED
        BY <2>1, <3>2, <4>1
    <3>3. QED
      BY <3>1, <3>2
  <2>6. \A v \in Workers : /\ wpc'[v] \in {"asleep", "woken", "status"} => launched[wrank[v]]
                           /\ wpc'[v] \in {"asleep", "woken"} => was[v] # 0
    BY <1>3, <2>1, <2>2 DEF RunInv
  <2>7. QED
    BY <1>1, <1>3, <2>4, <2>5, <2>6 DEF RunInv
<1>10. QED
  BY <1>1, <1>2, <1>5, <1>6, <1>8, <1>9, MoveStep

LEMMA StatusInv ==
  ASSUME HandInv, OrdinaryPrograms, NEW w \in Workers, Status(w)
  PROVE  HandInv' /\ ~crashed'
<1> USE DEF appVars, callVars, slotVars, queueVars, workerVars, pollVars, rankVars, runVars,
            sleepVars
<1> DEFINE q == wrank[w]
<1>1. /\ wpc[w] = "status" /\ launched' = [launched EXCEPT ![q] = @ /\ nb[q] # 0]
      /\ UNCHANGED <<calls, n, step, at, left, jobs, jobs_thread, jlock, queue, wrank, wjob,
                     was, hw, nb, active, rlock>>
      /\ crashed' = ~launched[q]
  BY DEF Status, GotoW, MyRank
<1>2. PICK p \in Places : /\ wpc' = [wpc EXCEPT ![w] = p]
                          /\ p = IF wjob[w] = NoJob THEN "next" ELSE "job"
  BY DEF Status, GotoW, Places
<1>3. AppType /\ RankType /\ WorkType /\ RunType /\ WorkOk(w) /\ RunInv
  BY DEF HandInv, TypeInv, WorkInv
<1>4. q \in Rank /\ rlock[q] = w
  BY <1>1, <1>3 DEF WorkType, HandInv, LockInv, Locked
<1>5. /\ AppType' /\ RunType' /\ was' \in [Workers -> Nat] /\ wpc'[w] = p
      /\ rlock' \in [Rank -> Workers \cup {None}]
  BY <1>1, <1>2, <1>3, <1>4 DEF AppType, RankType, WorkType, RunType
<1>6. /\ HasList(w) /\ HasList(w)' /\ ~Runs(w)'
      /\ HasHead(w)' => HasHead(w) /\ wjob[w] # NoJob
  BY <1>1, <1>2, <1>5 DEF HasList, HasHead, Runs, MyRank
<1>7. WorkOk(w)'
  BY <1>1, <1>2, <1>3, <1>5, <1>6 DEF WorkOk, Ready
<1>8. RunInv'
  <2>1. \A v \in Workers \ {w} : wpc'[v] = wpc[v]
    BY <1>2, <1>3 DEF WorkType
  <2>2. \A v \in Workers \ {w} : wpc[v] \in {"asleep", "woken", "status"} => wrank[v] # q
    BY <1>6 DEF HandInv, OneInv, HasList
  <2>3. \A r \in Rank : launched'[r] <=> launched[r] /\ (r = q => nb[q] # 0)
    <3>1. launched'[q] <=> launched[q] /\ nb[q] # 0
      BY <1>1, <1>3, <1>4 DEF RunType
    <3>2. \A r \in Rank \ {q} : launched'[r] = launched[r]
      BY <1>1, <1>3, <1>4 DEF RunType
    <3>3. QED
      BY <3>1, <3>2
  <2>4. p \notin {"asleep", "woken", "status"}
    BY <1>2
  <2>5. \A v \in Workers : wrank[v] \in Rank
    BY <1>3 DEF WorkType
  <2>6. ASSUME NEW r \in Rank, nb[r] = 0, launched'[r]
        PROVE  \E v \in Workers : wrank[v] = r /\ wpc'[v] \in {"status", "asleep", "woken"}
    <3>1. launched[r] /\ r # q
      BY <2>3, <2>6
    <3>2. PICK v \in Workers : wrank[v] = r /\ wpc[v] \in {"status", "asleep", "woken"}
      BY <1>3, <2>6, <3>1 DEF RunInv
    <3>3. QED
      BY <2>1, <3>1, <3>2
  <2>7. \A r \in Rank : active[r] =>
          \E v \in Workers : wrank[v] = r /\ wpc'[v] \in {"asleep", "woken"}
    BY <1>1, <1>3, <2>1 DEF RunInv
  <2>8. \A v \in Workers : /\ wpc'[v] \in {"asleep", "woken", "status"} => launched'[wrank[v]]
                           /\ wpc'[v] \in {"asleep", "woken"} => was[v] # 0
    BY <1>3, <1>5, <2>1, <2>2, <2>3, <2>4, <2>5 DEF RunInv
  <2>9. QED
    BY <1>1, <1>3, <2>3, <2>6, <2>7, <2>8 DEF RunInv
<1>9. ~crashed'
  BY <1>1, <1>3 DEF RunInv
<1>10. QED
  BY <1>1, <1>2, <1>4, <1>5, <1>6, <1>7, <1>8, <1>9, MoveStep

\* A job that tells its caller, or takes a rank off a call's counter.
LEMMA ToldTypes ==
  ASSUME HandInv, NEW j, Told(j), UNCHANGED <<calls, n, step, at>>
  PROVE  /\ AppType'
         /\ \A a \in Apps : \A i \in DOMAIN calls[a] :
              /\ a = j.app /\ i = j.n => left'[a][i] = left[a][i] - 1
              /\ ~(a = j.app /\ i = j.n) => left'[a][i] = left[a][i]
<1>1. AppType
  BY DEF HandInv, TypeInv
<1>2. left' = [left EXCEPT ![j.app][j.n] = @ - 1]
  BY DEF Told
<1>3. DOMAIN left = Apps /\ \A a \in Apps : left[a] \in [DOMAIN calls[a] -> Int]
  BY <1>1 DEF AppType
<1>4. DOMAIN left' = Apps
  BY <1>2, <1>3
<1>5. ASSUME NEW a \in Apps
      PROVE  /\ left'[a] \in [DOMAIN calls[a] -> Int]
             /\ \A i \in DOMAIN calls[a] :
                  /\ a = j.app /\ i = j.n => left'[a][i] = left[a][i] - 1
                  /\ ~(a = j.app /\ i = j.n) => left'[a][i] = left[a][i]
  <2>1. PICK f : f = left[a] /\ f \in [DOMAIN calls[a] -> Int]
    BY <1>3
  <2>2. CASE a = j.app
    <3>1. PICK g : g = left'[a] /\ g = [f EXCEPT ![j.n] = f[j.n] - 1]
      BY <1>2, <1>3, <2>1, <2>2
    <3>2. /\ DOMAIN g = DOMAIN calls[a]
          /\ \A i \in DOMAIN calls[a] : /\ i = j.n => g[i] = f[i] - 1
                                        /\ i # j.n => g[i] = f[i]
      BY <2>1, <3>1
    <3>3. \A i \in DOMAIN calls[a] : f[i] \in Int /\ f[i] - 1 \in Int
      BY <2>1
    <3>4. \A i \in DOMAIN calls[a] : g[i] \in Int
      BY <3>2, <3>3
    <3>5. g = [i \in DOMAIN calls[a] |-> g[i]]
      BY <3>1, <3>2
    <3>6. g \in [DOMAIN calls[a] -> Int]
      BY <3>4, <3>5
    <3>7. QED
      BY <2>1, <2>2, <3>1, <3>2, <3>6
  <2>3. CASE a # j.app
    <3>1. left'[a] = f
      BY <1>2, <1>3, <2>1, <2>3
    <3>2. QED
      BY <2>1, <2>3, <3>1
  <2>4. QED
    BY <2>2, <2>3
<1>6. QED
  BY <1>1, <1>4, <1>5 DEF AppType

\* Transfers, and the jobs of callers that wait.
LEMMA ComputeInv ==
  ASSUME HandInv, OrdinaryPrograms, NEW w \in Workers, Compute(w), wjob[w].kind # "launch"
  PROVE  HandInv' /\ crashed' = crashed
<1> USE DEF appVars, callVars, slotVars, queueVars, workerVars, pollVars, rankVars, runVars,
            sleepVars
<1> PICK j : j = wjob[w]
  OBVIOUS
<1>1. /\ wpc[w] = "job" /\ crashed' = crashed
      /\ UNCHANGED <<calls, n, step, at, jobs, jobs_thread, jlock, queue, wrank, wjob,
                     was, hw, nb, launched, active, rlock>>
  BY DEF Compute, GotoW
<1>2. PICK p \in {"advance", "fail"} :
        /\ wpc' = [wpc EXCEPT ![w] = p]
        /\ p = "fail" => "fallible" \in j.flags
        /\ left' = left \/ (j.kind = "sync" /\ Told(j))
  BY DEF Compute, GotoW, Ends
<1>3. AppType /\ RankType /\ WorkType /\ RunType /\ WorkOk(w)
  BY DEF HandInv, TypeInv, WorkInv
<1>4. HasList(w) /\ HasHead(w) /\ rlock[wrank[w]] = w
  BY <1>1 DEF HasList, HasHead, HandInv, LockInv, Locked
<1>5. IsJob(j, wrank[w]) /\ Ready(j, wrank[w])
  BY <1>1, <1>3, <1>4, HeadFacts DEF WorkOk
<1>6. /\ AppType'
      /\ \A a \in Apps : \A i \in DOMAIN calls[a] :
           Gathers(a, i) => left'[a][i] = left[a][i]
  <2>1. CASE left' = left
    BY <1>1, <1>3, <2>1 DEF AppType
  <2>2. CASE j.kind = "sync" /\ Told(j)
    <3>1. ~Gathers(j.app, j.n)
      <4>1. CallOf(j) \in Calls
        BY <1>5, JobFacts DEF HandInv
      <4>2. CallOf(j).sync
        BY <1>5, <2>2, <4>1 DEF IsJob, Calls
      <4>3. ~Single(CallOf(j))
        BY <4>1, <4>2 DEF Calls
      <4>4. QED
        BY <4>3 DEF Gathers, CallOf
    <3>2. QED
      BY <1>1, <2>2, <3>1, ToldTypes
  <2>3. QED
    BY <1>2, <2>1, <2>2
<1>7. RunType' /\ was' \in [Workers -> Nat] /\ wpc'[w] = p
      /\ rlock' \in [Rank -> Workers \cup {None}]
  BY <1>1, <1>2, <1>3 DEF RankType, WorkType, RunType
<1>8. HasList(w)' /\ ~Runs(w)'
  BY <1>1, <1>2, <1>7 DEF HasList, Runs, MyRank
<1>9. p = "fail" => nb[wrank[w]] = 0
  BY <1>2, <1>5, JobFacts DEF Ready, HandInv
<1>10. WorkOk(w)'
  BY <1>1, <1>2, <1>3, <1>4, <1>7, <1>8, <1>9 DEF WorkOk
<1>11. RunInv'
  <2>1. \A v \in Workers : wpc'[v] = wpc[v] \/ {wpc[v], wpc'[v]} \cap Sleeping = {}
    BY <1>1, <1>2, <1>3, <1>7 DEF WorkType, Sleeping
  <2>2. QED
    BY <1>1, <2>1, RunKeep
<1>12. HandInv'
  BY <1>1, <1>2, <1>4, <1>6, <1>7, <1>8, <1>10, <1>11, MoveStep DEF Places
<1>13. QED
  BY <1>1, <1>12

\* A callback of one rank, or a nonblocking one.
LEMMA CallbackInv ==
  ASSUME HandInv, OrdinaryPrograms, NEW w \in Workers, Callback(w),
         ~Single(CallOf(wjob[w])) \/ ~Blocking(wjob[w])
  PROVE  HandInv'
<1> USE DEF appVars, callVars, slotVars, queueVars, workerVars, pollVars, rankVars, runVars,
            sleepVars
<1> PICK j : j = wjob[w]
  OBVIOUS
<1>1. /\ wpc[w] = "job" /\ j.kind = "callback"
      /\ UNCHANGED <<calls, n, step, at, jobs, jobs_thread, jlock, queue, wrank, wjob,
                     was, hw, nb, launched, active>>
  BY DEF Callback, GotoW
<1>2. AppType /\ RankType /\ WorkType /\ RunType /\ WorkOk(w)
  BY DEF HandInv, TypeInv, WorkInv
<1>3. HasList(w) /\ HasHead(w) /\ rlock[wrank[w]] = w
  BY <1>1 DEF HasList, HasHead, HandInv, LockInv, Locked
<1>4. IsJob(j, wrank[w]) /\ Ready(j, wrank[w])
  BY <1>1, <1>2, <1>3, HeadFacts DEF WorkOk
<1>5. "nonblocking" \notin CallOf(j).flags <=> Blocking(j)
  BY <1>4 DEF IsJob, Blocking
<1>6. PICK p \in {"advance", "detach", "function"} :
        /\ wpc' = [wpc EXCEPT ![w] = p]
        /\ p = "function" <=> Blocking(j)
        /\ rlock' = [rlock EXCEPT ![wrank[w]] = IF p = "detach" THEN None ELSE w]
        /\ IF Single(CallOf(j)) THEN Told(j) ELSE left' = left
  <2> DEFINE isLast == Single(CallOf(j)) => left[j.app][j.n] = 1
  <2>1. CallbackPc(CallOf(j), isLast) =
          IF Blocking(j) THEN "function" ELSE IF isLast THEN "detach" ELSE "advance"
    <3>1. CASE ~isLast
      BY <1>5, <3>1 DEF CallbackPc
    <3>2. CASE isLast /\ ~Blocking(j)
      <4>1. isLast /\ "nonblocking" \in CallOf(j).flags
        BY <1>5, <3>2
      <4>2. QED
        BY <3>2, <4>1 DEF CallbackPc
    <3>3. CASE isLast /\ Blocking(j)
      <4>1. isLast /\ "nonblocking" \notin CallOf(j).flags /\ ~Single(CallOf(j))
        BY <1>5, <3>3
      <4>2. QED
        BY <3>3, <4>1 DEF CallbackPc
    <3>4. QED
      BY <3>1, <3>2, <3>3
  <2>2. /\ GotoW(w, "job", CallbackPc(CallOf(j), isLast))
        /\ rlock' = [rlock EXCEPT ![wrank[w]] =
             IF CallbackPc(CallOf(j), isLast) \in {"idle", "detach"} THEN None ELSE w]
        /\ IF Single(CallOf(j)) THEN Told(j) ELSE left' = left
    BY DEF Callback, MyRank
  <2> HIDE DEF isLast
  <2>3. QED
    BY <2>1, <2>2 DEF GotoW
<1>7. /\ AppType'
      /\ \A a \in Apps : \A i \in DOMAIN calls[a] :
           Gathers(a, i) => left'[a][i] = left[a][i]
  <2>1. CASE ~Single(CallOf(j))
    BY <1>1, <1>2, <1>6, <2>1 DEF AppType
  <2>2. CASE Single(CallOf(j))
    <3>1. ~Gathers(j.app, j.n)
      BY <1>5, <2>2 DEF Gathers, CallOf
    <3>2. QED
      BY <1>1, <1>6, <2>2, <3>1, ToldTypes
  <2>3. QED
    BY <2>1, <2>2
<1>8. /\ RunType' /\ was' \in [Workers -> Nat] /\ wpc'[w] = p
      /\ rlock' \in [Rank -> Workers \cup {None}]
      /\ p # "detach" => rlock'[wrank[w]] = w
      /\ \A r \in Rank : rlock'[r] = rlock[r] \/ rlock[r] \in {None, w}
  BY <1>1, <1>2, <1>3, <1>6 DEF RankType, WorkType, RunType
<1>9. /\ HasList(w)' /\ HasHead(w)' /\ (Locked(w)' => p # "detach")
      /\ Runs(w)' => Runs(w)
  <2>1. Single(CallOf(j))' <=> Single(CallOf(j))
    BY <1>1 DEF Single, CallOf
  <2>2. QED
    BY <1>1, <1>6, <1>8, <2>1 DEF HasList, HasHead, Locked, Runs, Blocking, MyRank
<1>10. p = "detach" => nb[wrank[w]] = 0
  BY <1>4, <1>6, JobFacts DEF Ready, HandInv
<1>11. WorkOk(w)'
  <2>1. IsJob(j, wrank[w])' /\ Ready(j, wrank[w])'
    BY <1>1, <1>4 DEF IsJob, CallOf, Ready
  <2>2. QED
    BY <1>1, <1>2, <1>3, <1>6, <1>8, <1>9, <1>10, <2>1 DEF WorkOk
<1>12. RunInv'
  <2>1. \A v \in Workers : wpc'[v] = wpc[v] \/ {wpc[v], wpc'[v]} \cap Sleeping = {}
    BY <1>1, <1>2, <1>6, <1>8 DEF WorkType, Sleeping
  <2>2. QED
    BY <1>1, <2>1, RunKeep
<1>13. QED
  BY <1>1, <1>3, <1>6, <1>7, <1>8, <1>9, <1>11, <1>12, MoveStep DEF Places

-----------------------------------------------------------------------------
(* Steps on a rank's run or list by the worker that has it.                *)

\* Nobody else watches the rank, so that a run in progress is all there is.
LEMMA NotWatched ==
  ASSUME HandInv, NEW w \in Workers, HasList(w), wpc[w] \notin Sleeping
  PROVE  /\ nb[wrank[w]] = 0 => ~launched[wrank[w]]
         /\ ~active[wrank[w]]
         /\ \A v \in Workers : wpc[v] \in Sleeping => wrank[v] # wrank[w]
<1>1. \A v \in Workers : wpc[v] \in Sleeping => HasList(v)
  BY DEF HasList, Sleeping
<1>2. \A v \in Workers : wpc[v] \in Sleeping => wrank[v] # wrank[w]
  BY <1>1 DEF HandInv, OneInv
<1>3. wrank[w] \in Rank
  BY DEF HandInv, TypeInv, WorkType
<1>4. nb[wrank[w]] = 0 => ~launched[wrank[w]]
  BY <1>2, <1>3 DEF HandInv, RunInv, Sleeping
<1>5. ~active[wrank[w]]
  BY <1>2, <1>3 DEF HandInv, RunInv, Sleeping
<1>6. QED
  BY <1>2, <1>4, <1>5

LEMMA RunHere ==
  ASSUME HandInv, NEW w \in Workers, HasList(w), wpc[w] \notin Sleeping,
         UNCHANGED <<wrank, was, active>>,
         \A v \in Workers \ {w} : wpc'[v] = wpc[v],
         \A r \in Rank \ {wrank[w]} :
           hw'[r] = hw[r] /\ nb'[r] = nb[r] /\ launched'[r] = launched[r],
         hw'[wrank[w]] <= nb'[wrank[w]],
         nb'[wrank[w]] # 0 => launched'[wrank[w]],
         nb'[wrank[w]] = 0 /\ launched'[wrank[w]] => wpc'[w] = "status",
         wpc'[w] \in Sleeping => wpc'[w] = "status" /\ launched'[wrank[w]]
  PROVE  RunInv'
<1> DEFINE q == wrank[w]
<1>1. /\ ~active[q]
      /\ \A v \in Workers : wpc[v] \in Sleeping => wrank[v] # q
  BY NotWatched
<1>2. RunInv /\ \A v \in Workers : wrank[v] \in Rank
  BY DEF HandInv, TypeInv, WorkType
<1>3. ASSUME NEW r \in Rank
      PROVE  /\ hw'[r] <= nb'[r]
             /\ nb'[r] # 0 => launched'[r]
             /\ nb'[r] = 0 /\ launched'[r] =>
                  \E v \in Workers : wrank'[v] = r /\ wpc'[v] \in {"status", "asleep", "woken"}
             /\ active'[r] => \E v \in Workers : wrank'[v] = r /\ wpc'[v] \in {"asleep", "woken"}
  <2>1. CASE r = q
    BY <1>1, <2>1
  <2>2. CASE r # q
    <3>1. hw[r] <= nb[r] /\ (nb[r] # 0 => launched[r])
      BY <1>2 DEF RunInv
    <3>2. ASSUME nb[r] = 0, launched[r]
          PROVE  \E v \in Workers : wrank'[v] = r /\ wpc'[v] \in {"status", "asleep", "woken"}
      <4>1. PICK v \in Workers : wrank[v] = r /\ wpc[v] \in {"status", "asleep", "woken"}
        BY <1>2, <3>2 DEF RunInv
      <4>2. QED
        BY <2>2, <4>1
    <3>3. ASSUME active[r]
          PROVE  \E v \in Workers : wrank'[v] = r /\ wpc'[v] \in {"asleep", "woken"}
      <4>1. PICK v \in Workers : wrank[v] = r /\ wpc[v] \in {"asleep", "woken"}
        BY <1>2, <3>3 DEF RunInv
      <4>2. QED
        BY <2>2, <4>1
    <3>4. QED
      BY <2>2, <3>1, <3>2, <3>3
  <2>3. QED
    BY <2>1, <2>2
<1>4. ASSUME NEW v \in Workers
      PROVE  /\ wpc'[v] \in {"asleep", "woken", "status"} => launched'[wrank'[v]]
             /\ wpc'[v] \in {"asleep", "woken"} => was'[v] # 0
  <2>1. CASE v = w
    BY <2>1 DEF Sleeping
  <2>2. CASE v # w
    BY <1>1, <1>2, <2>2 DEF RunInv, Sleeping
  <2>3. QED
    BY <2>1, <2>2
<1>5. QED
  BY <1>3, <1>4 DEF RunInv

LEMMA PollSelfInv ==
  ASSUME HandInv, OrdinaryPrograms, NEW w \in Workers, PollSelf(w)
  PROVE  HandInv'
<1> USE DEF appVars, callVars, slotVars, queueVars, workerVars, pollVars, rankVars, runVars,
            sleepVars
<1> DEFINE q == wrank[w]
<1>1. /\ wpc[w] = "poll" /\ wjob[w] # NoJob
      /\ nb' = [nb EXCEPT ![q] = hw[q]]
      /\ UNCHANGED <<calls, n, step, at, left, jobs, jobs_thread, jlock, queue, wrank, wjob,
                     was, hw, launched, active, rlock>>
  BY DEF PollSelf, GotoW, MyRank
<1>2. PICK p \in {"status", "job"} : /\ wpc' = [wpc EXCEPT ![w] = p]
                                     /\ p = "status" <=> hw[q] # nb[q]
  BY DEF PollSelf, GotoW, MyRank
<1>3. AppType /\ RankType /\ WorkType /\ RunType /\ WorkOk(w) /\ RunInv
  BY DEF HandInv, TypeInv, WorkInv
<1>4. HasList(w) /\ HasHead(w) /\ Locked(w) /\ rlock[q] = w
  BY <1>1 DEF HasList, HasHead, HandInv, LockInv, Locked
<1>5. q \in Rank /\ hw[q] \in Nat /\ nb[q] \in Nat /\ hw[q] <= nb[q]
  BY <1>3 DEF WorkType, RunType, RunInv
<1>6. wpc'[w] = p /\ nb'[q] = hw[q]
  BY <1>1, <1>2, <1>3, <1>5 DEF WorkType, RunType
<1>7. TypeInv'
  <2>1. AppType' /\ RankType'
    BY <1>1, <1>3 DEF AppType, RankType
  <2>2. WorkType'
    BY <1>1, <1>2, <1>3 DEF WorkType, Places
  <2>3. RunType'
    BY <1>1, <1>3, <1>5 DEF RunType
  <2>4. QED
    BY <2>1, <2>2, <2>3 DEF TypeInv
<1>8. HasList(w)' /\ ~Runs(w)'
  BY <1>2, <1>6 DEF HasList, Runs
<1>9. WorkOk(w)'
  <2>1. Ready(wjob[w], q)'
    BY <1>1, <1>3, <1>5, <1>6 DEF WorkOk, Ready
  <2>2. QED
    BY <1>1, <1>2, <1>3, <1>4, <1>6, <1>8, <2>1 DEF WorkOk
<1>10. (\A v \in Workers \ {w} : Same(v)) /\ \A r \in Rank \ {q} : SameRank(r)
  BY <1>1, <1>2, <1>3 DEF WorkType, RunType, Same, Stays, SameRank
<1>11. WorkInv' /\ QueueInv' /\ OneInv' /\ IdleInv' /\ GatherInv'
  BY <1>1, <1>4, <1>8, <1>9, <1>10, KeepStep
<1>12. LockInv'
  BY <1>1, <1>4, <1>10, LockStep
<1>13. CallerInv' /\ ListInv'
  BY <1>1, ListStep
<1>14. RunInv'
  <2>1. nb[q] = 0 => ~launched[q]
    BY <1>1, <1>4, NotWatched DEF Sleeping
  <2>2. wpc[w] \notin Sleeping
    BY <1>1 DEF Sleeping
  <2>3. nb[q] # 0 => launched[q]
    BY <1>3, <1>5 DEF RunInv
  <2>4. \A r \in Rank \ {q} : nb'[r] = nb[r]
    BY <1>10 DEF SameRank
  <2>5. \A v \in Workers \ {w} : wpc'[v] = wpc[v]
    BY <1>10 DEF Same
  <2>6. wpc'[w] \in Sleeping => wpc'[w] = "status"
    BY <1>6 DEF Sleeping
  <2>7. QED
    BY <1>1, <1>2, <1>4, <1>5, <1>6, <2>1, <2>2, <2>3, <2>4, <2>5, <2>6, RunHere
<1>15. QED
  BY <1>7, <1>11, <1>12, <1>13, <1>14 DEF HandInv

LEMMA LaunchInv ==
  ASSUME HandInv, OrdinaryPrograms, NEW w \in Workers, Compute(w), wjob[w].kind = "launch"
  PROVE  HandInv' /\ ~crashed'
<1> USE DEF appVars, callVars, slotVars, queueVars, workerVars, pollVars, rankVars, runVars,
            sleepVars
<1> DEFINE q == wrank[w]
<1>1. wpc[w] = "job"
  BY DEF Compute, GotoW
<1>2. AppType /\ RankType /\ WorkType /\ RunType /\ WorkOk(w) /\ RunInv
  BY DEF HandInv, TypeInv, WorkInv
<1>3. HasList(w) /\ HasHead(w) /\ Locked(w) /\ rlock[q] = w
  BY <1>1 DEF HasList, HasHead, HandInv, LockInv, Locked
<1>4. nb[q] = 0
  <2>1. IsJob(wjob[w], q)
    BY <1>3, HeadFacts
  <2>2. ~Parallel(wjob[w])
    BY <2>1, JobFacts DEF HandInv
  <2>3. QED
    BY <1>1, <1>2, <2>2 DEF WorkOk, Ready
<1>5. /\ wpc' = [wpc EXCEPT ![w] = "advance"]
      /\ hw' = [hw EXCEPT ![q] = NrDpus]
      /\ nb' = [nb EXCEPT ![q] = NrDpus]
      /\ launched' = [launched EXCEPT ![q] = TRUE]
      /\ crashed' = launched[q]
      /\ UNCHANGED <<calls, n, step, at, left, jobs, jobs_thread, jlock, queue, wrank, wjob,
                     was, active, rlock>>
  BY <1>4 DEF Compute, GotoW, MyRank
<1>6. q \in Rank /\ NrDpus \in Nat \ {0}
  BY <1>2, ThreadJobAssumption DEF WorkType
<1>7. wpc'[w] = "advance" /\ hw'[q] = NrDpus /\ nb'[q] = NrDpus /\ launched'[q]
  BY <1>2, <1>5, <1>6 DEF WorkType, RunType
<1>8. TypeInv'
  <2>1. AppType' /\ RankType'
    BY <1>2, <1>5 DEF AppType, RankType
  <2>2. WorkType'
    BY <1>2, <1>5 DEF WorkType, Places
  <2>3. RunType'
    BY <1>2, <1>5, <1>6 DEF RunType
  <2>4. QED
    BY <2>1, <2>2, <2>3 DEF TypeInv
<1>9. HasList(w)' /\ ~Runs(w)'
  BY <1>7 DEF HasList, Runs
<1>10. WorkOk(w)'
  BY <1>2, <1>3, <1>5, <1>7, <1>9 DEF WorkOk
<1>11. (\A v \in Workers \ {w} : Same(v)) /\ \A r \in Rank \ {q} : SameRank(r)
  BY <1>2, <1>5 DEF WorkType, RunType, Same, Stays, SameRank
<1>12. WorkInv' /\ QueueInv' /\ OneInv' /\ IdleInv' /\ GatherInv'
  BY <1>3, <1>5, <1>9, <1>10, <1>11, KeepStep
<1>13. LockInv'
  BY <1>3, <1>5, <1>11, LockStep
<1>14. CallerInv' /\ ListInv'
  BY <1>5, ListStep
<1>15. RunInv'
  <2>1. \A r \in Rank \ {q} : hw'[r] = hw[r] /\ nb'[r] = nb[r] /\ launched'[r] = launched[r]
    BY <1>2, <1>5 DEF RunType
  <2>2. wpc[w] \notin Sleeping /\ wpc'[w] \notin Sleeping
    BY <1>1, <1>7 DEF Sleeping
  <2>3. \A v \in Workers \ {w} : wpc'[v] = wpc[v]
    BY <1>11 DEF Same
  <2>4. hw'[q] <= nb'[q] /\ nb'[q] # 0 /\ launched'[q]
    BY <1>6, <1>7
  <2>5. UNCHANGED <<wrank, was, active>>
    BY <1>5
  <2>6. QED
    BY <1>3, <2>1, <2>2, <2>3, <2>4, <2>5, RunHere
<1>16. ~crashed'
  BY <1>1, <1>3, <1>4, <1>5, NotWatched DEF Sleeping
<1>17. QED
  BY <1>8, <1>12, <1>13, <1>14, <1>15, <1>16 DEF HandInv

LEMMA PopStep ==
  ASSUME HandInv, OrdinaryPrograms, NEW w \in Workers, HasHead(w), Pop(wrank[w]),
         jlock[wrank[w]] = None, UNCHANGED <<calls, n, step, at, jlock>>
  PROVE  /\ jobs[wrank[w]] # <<>> /\ jobs[wrank[w]] \in Seq(Jobs)
         /\ Tail(jobs[wrank[w]]) \in Seq(Jobs)
         /\ jobs' \in [Rank -> Seq(Jobs)]
         /\ jobs'[wrank[w]] = Tail(jobs[wrank[w]])
         /\ \A r \in Rank \ {wrank[w]} : jobs'[r] = jobs[r]
         /\ CallerInv' /\ ListInv'
<1> DEFINE q == wrank[w]
<1>1. /\ jobs \in [Rank -> Seq(Jobs)] /\ q \in Rank
      /\ jobs' = [jobs EXCEPT ![q] = Tail(jobs[q])]
  BY DEF HandInv, TypeInv, RankType, WorkType, Pop
<1>2. jobs[q] # <<>> /\ jobs[q] \in Seq(Jobs)
  BY HeadFacts
<1>3. /\ Tail(jobs[q]) \in Seq(Jobs)
      /\ \A i \in DOMAIN Tail(jobs[q]) : i + 1 \in DOMAIN jobs[q]
                                         /\ Tail(jobs[q])[i] = jobs[q][i + 1]
  BY <1>2, TailFacts
<1>4. /\ jobs' \in [Rank -> Seq(Jobs)] /\ jobs'[q] = Tail(jobs[q])
      /\ \A r \in Rank \ {q} : jobs'[r] = jobs[r]
  BY <1>1, <1>3
<1>5. ASSUME NEW r \in Rank
      PROVE  /\ jlock[r] # None => jobs'[r] = jobs[r]
             /\ \A i \in DOMAIN jobs'[r] : \E k \in DOMAIN jobs[r] : jobs'[r][i] = jobs[r][k]
  <2>1. CASE r = q
    BY <1>3, <1>4, <2>1
  <2>2. CASE r # q
    BY <1>4, <2>2
  <2>3. QED
    BY <2>1, <2>2
<1>6. CallerInv' /\ ListInv'
  BY <1>5, ListStep
<1>7. QED
  BY <1>2, <1>3, <1>4, <1>6

\* A worker at its rank, outside the places that watch a run, before and after.
LEMMA RunHands ==
  ASSUME HandInv, UNCHANGED <<hw, nb, launched, active>>, NEW w \in Workers,
         wpc[w] \notin Sleeping, wpc'[w] \notin Sleeping,
         \A v \in Workers \ {w} : wpc'[v] = wpc[v] /\ wrank'[v] = wrank[v] /\ was'[v] = was[v]
  PROVE  RunInv'
<1>1. \A v \in Workers :
        \/ {wpc[v], wpc'[v]} \cap Sleeping = {}
        \/ wpc'[v] = wpc[v] /\ wrank'[v] = wrank[v] /\ was'[v] = was[v]
  OBVIOUS
<1>2. QED
  BY <1>1, RunKeep

\* The worker goes on with the next job, or to look after the DPUs, or lets go.
LEMMA NextStep ==
  ASSUME HandInv, OrdinaryPrograms, NEW w \in Workers, HasList(w), NEW next,
         UNCHANGED <<calls, left, queue, wrank, nb>>,
         \A v \in Workers \ {w} : Same(v),
         \A r \in Rank \ {wrank[w]} : SameRank(r),
         wjob'[w] = next, jobs'[wrank[w]] \in Seq(Jobs),
         next = NextJob(jobs'[wrank[w]], wrank[w]),
         wpc'[w] = "poll" \/ (wpc'[w] = "job" /\ next # NoJob),
         jobs_thread[wrank[w]],
         jobs_thread'[wrank[w]] <=> next # NoJob \/ nb[wrank[w]] # 0
  PROVE  WorkInv' /\ QueueInv' /\ OneInv' /\ IdleInv' /\ GatherInv'
<1> DEFINE q == wrank[w]
           list == jobs'[q]
<1>1. /\ next # NoJob <=> list # <<>> /\ Ready(Head(list), q)
      /\ next # NoJob => next = Head(list)
  BY NextJobFacts DEF HandInv, TypeInv, WorkType
<1>2. (Parallel(next) \/ nb'[q] = 0) <=> Ready(next, q)
  BY DEF Ready
<1>3. next # NoJob => list # <<>> /\ Ready(next, q)
  BY <1>1
<1>4. HasList(w)' <=> next # NoJob \/ nb[q] # 0
  BY DEF HasList, MyRank
<1>5. HasHead(w)' => next # NoJob
  BY DEF HasHead
<1>6. ~Runs(w)'
  BY DEF Runs
<1>7. WorkOk(w)'
  <2>1. next # NoJob => Ready(wjob[w], q)'
    BY <1>3 DEF Ready
  <2> HIDE DEF list
  <2>2. QED
    BY <1>1, <1>4, <1>5, <2>1 DEF WorkOk, list
<1>8. CASE next # NoJob \/ nb[q] # 0
  BY <1>4, <1>6, <1>7, <1>8, KeepStep
<1>9. CASE next = NoJob /\ nb[q] = 0
  <2>1. list = <<>>
    BY <1>1, <1>9 DEF Ready
  <2>2. QED
    BY <1>4, <1>6, <1>7, <1>9, <2>1, OpenStep
<1>10. QED
  BY <1>8, <1>9

LEMMA AdvanceInv ==
  ASSUME HandInv, OrdinaryPrograms, NEW w \in Workers, Advance(w)
  PROVE  HandInv'
<1> USE DEF appVars, callVars, slotVars, queueVars, workerVars, pollVars, rankVars, runVars,
            sleepVars
<1> DEFINE q == wrank[w]
<1> PICK next : next = NextJob(Tail(jobs[q]), q)
  OBVIOUS
<1>1. /\ wpc[w] = "advance" /\ wpc' = [wpc EXCEPT ![w] = "poll"]
      /\ jlock[q] = None /\ Pop(q)
      /\ wjob' = [wjob EXCEPT ![w] = next]
      /\ jobs_thread' = [jobs_thread EXCEPT ![q] = @ /\ (next # NoJob \/ nb[q] # 0)]
      /\ UNCHANGED <<calls, n, step, at, left, jlock, queue, wrank, was, hw, nb, launched,
                     active, rlock>>
  BY DEF Advance, GotoW, MyRank
<1>2. AppType /\ RankType /\ WorkType /\ RunType /\ WorkOk(w)
  BY DEF HandInv, TypeInv, WorkInv
<1>3. HasList(w) /\ HasHead(w) /\ rlock[q] = w /\ q \in Rank
  BY <1>1, <1>2 DEF HasList, HasHead, HandInv, LockInv, Locked, WorkType
<1>4. jobs_thread[q]
  BY <1>1, <1>2, <1>3 DEF WorkOk
<1>5. /\ jobs[q] # <<>> /\ Tail(jobs[q]) \in Seq(Jobs)
      /\ jobs' \in [Rank -> Seq(Jobs)] /\ jobs'[q] = Tail(jobs[q])
      /\ \A r \in Rank \ {q} : jobs'[r] = jobs[r]
      /\ CallerInv' /\ ListInv'
  BY <1>1, <1>3, PopStep
<1>6. next \in Jobs \cup {NoJob}
  BY <1>3, <1>5, NextJobFacts DEF HandInv
<1>7. wpc'[w] = "poll" /\ wjob'[w] = next
  BY <1>1, <1>2 DEF WorkType
<1>8. /\ jobs_thread' \in [Rank -> BOOLEAN]
      /\ jobs_thread'[q] <=> next # NoJob \/ nb[q] # 0
      /\ \A r \in Rank \ {q} : jobs_thread'[r] = jobs_thread[r]
  BY <1>1, <1>2, <1>3, <1>4 DEF RankType
<1>9. TypeInv'
  <2>1. AppType' /\ RunType'
    BY <1>1, <1>2 DEF AppType, RunType
  <2>2. RankType'
    BY <1>1, <1>2, <1>5, <1>8 DEF RankType
  <2>3. WorkType'
    BY <1>1, <1>2, <1>6 DEF WorkType, Places
  <2>4. QED
    BY <2>1, <2>2, <2>3 DEF TypeInv
<1>10. \A v \in Workers \ {w} : Same(v)
  BY <1>1, <1>2 DEF WorkType, Same, Stays
<1>11. WorkInv' /\ QueueInv' /\ OneInv' /\ IdleInv' /\ GatherInv'
  <2>1. \A r \in Rank \ {q} : SameRank(r)
    BY <1>1, <1>5, <1>8 DEF SameRank
  <2>2. next = NextJob(jobs'[q], q)
    BY <1>5
  <2>3. UNCHANGED <<calls, left, queue, wrank, nb>>
    BY <1>1
  <2>4. jobs'[q] \in Seq(Jobs)
    BY <1>5
  <2>5. QED
    BY <1>3, <1>4, <1>7, <1>8, <1>10, <2>1, <2>2, <2>3, <2>4, NextStep
<1>12. LockInv'
  BY <1>1, <1>3, <1>10, LockStep
<1>13. RunInv'
  BY <1>1, <1>7, <1>10, RunHands DEF Same, Stays, Sleeping
<1>14. QED
  BY <1>5, <1>9, <1>11, <1>12, <1>13 DEF HandInv

LEMMA NextAfterWakeInv ==
  ASSUME HandInv, OrdinaryPrograms, NEW w \in Workers, NextAfterWake(w)
  PROVE  HandInv'
<1> USE DEF appVars, callVars, slotVars, queueVars, workerVars, pollVars, rankVars, runVars,
            sleepVars
<1> DEFINE q == wrank[w]
<1> PICK next : next = NextJob(jobs[q], q)
  OBVIOUS
<1>1. /\ wpc[w] = "next"
      /\ wjob' = [wjob EXCEPT ![w] = next]
      /\ jobs_thread' = [jobs_thread EXCEPT ![q] = @ /\ (next # NoJob \/ nb[q] # 0)]
      /\ UNCHANGED <<calls, n, step, at, left, jobs, jlock, queue, wrank, was, hw, nb,
                     launched, active, rlock>>
  BY DEF NextAfterWake, GotoW, MyRank
<1>2. PICK p \in {"poll", "job"} : /\ wpc' = [wpc EXCEPT ![w] = p]
                                   /\ p = "job" => next # NoJob
  BY DEF NextAfterWake, GotoW, MyRank
<1>3. AppType /\ RankType /\ WorkType /\ RunType /\ WorkOk(w)
  BY DEF HandInv, TypeInv, WorkInv
<1>4. HasList(w) /\ rlock[q] = w /\ q \in Rank
  BY <1>1, <1>3 DEF HasList, HandInv, LockInv, Locked, WorkType
<1>5. jobs_thread[q]
  BY <1>1, <1>3, <1>4 DEF WorkOk
<1>6. jobs[q] \in Seq(Jobs)
  BY <1>3, <1>4 DEF RankType
<1>7. next \in Jobs \cup {NoJob}
  BY <1>4, <1>6, NextJobFacts DEF HandInv
<1>8. wpc'[w] = p /\ wjob'[w] = next
  BY <1>1, <1>2, <1>3 DEF WorkType
<1>9. /\ jobs_thread' \in [Rank -> BOOLEAN]
      /\ jobs_thread'[q] <=> next # NoJob \/ nb[q] # 0
      /\ \A r \in Rank \ {q} : jobs_thread'[r] = jobs_thread[r]
  BY <1>1, <1>3, <1>4, <1>5 DEF RankType
<1>10. TypeInv'
  <2>1. AppType' /\ RunType'
    BY <1>1, <1>3 DEF AppType, RunType
  <2>2. RankType'
    BY <1>1, <1>3, <1>9 DEF RankType
  <2>3. WorkType'
    BY <1>1, <1>2, <1>3, <1>7 DEF WorkType, Places
  <2>4. QED
    BY <2>1, <2>2, <2>3 DEF TypeInv
<1>11. \A v \in Workers \ {w} : Same(v)
  BY <1>1, <1>2, <1>3 DEF WorkType, Same, Stays
<1>12. WorkInv' /\ QueueInv' /\ OneInv' /\ IdleInv' /\ GatherInv'
  <2>1. \A r \in Rank \ {q} : SameRank(r)
    BY <1>1, <1>9 DEF SameRank
  <2>2. next = NextJob(jobs'[q], q) /\ jobs'[q] \in Seq(Jobs)
    BY <1>1, <1>6
  <2>3. UNCHANGED <<calls, left, queue, wrank, nb>>
    BY <1>1
  <2>4. QED
    BY <1>2, <1>4, <1>5, <1>8, <1>9, <1>11, <2>1, <2>2, <2>3, NextStep
<1>13. LockInv'
  BY <1>1, <1>4, <1>11, LockStep
<1>14. CallerInv' /\ ListInv'
  BY <1>1, ListStep
<1>15. RunInv'
  BY <1>1, <1>2, <1>8, <1>11, RunHands DEF Same, Stays, Sleeping
<1>16. QED
  BY <1>10, <1>12, <1>13, <1>14, <1>15 DEF HandInv

LEMMA DetachInv ==
  ASSUME HandInv, OrdinaryPrograms, NEW w \in Workers, Detach(w)
  PROVE  HandInv'
<1> USE DEF appVars, callVars, slotVars, queueVars, workerVars, pollVars, rankVars, runVars,
            sleepVars
<1> DEFINE q == wrank[w]
<1>1. /\ wpc[w] = "detach" /\ jlock[q] = None /\ Pop(q)
      /\ jobs_thread' = [jobs_thread EXCEPT ![q] = FALSE]
      /\ UNCHANGED <<calls, n, step, at, left, jlock, queue, wrank, wjob, was, hw, nb,
                     launched, active, rlock>>
  BY DEF Detach, GotoW, MyRank
<1>2. PICK p \in {"function", "requeue"} :
        /\ wpc' = [wpc EXCEPT ![w] = p]
        /\ p = "function" <=> NextJob(Tail(jobs[q]), q) = NoJob
  BY DEF Detach, GotoW, MyRank
<1>3. AppType /\ RankType /\ WorkType /\ RunType /\ WorkOk(w)
  BY DEF HandInv, TypeInv, WorkInv
<1>4. HasList(w) /\ HasHead(w) /\ q \in Rank
  BY <1>1, <1>3 DEF HasList, HasHead, WorkType
<1>5. /\ IsJob(wjob[w], q) /\ wjob[w].kind = "callback" /\ ~Blocking(wjob[w])
      /\ nb[q] = 0
  BY <1>1, <1>3 DEF WorkOk
<1>6. /\ jobs[q] # <<>> /\ Tail(jobs[q]) \in Seq(Jobs)
      /\ jobs' \in [Rank -> Seq(Jobs)] /\ jobs'[q] = Tail(jobs[q])
      /\ \A r \in Rank \ {q} : jobs'[r] = jobs[r]
      /\ CallerInv' /\ ListInv'
  BY <1>1, <1>4, PopStep
<1>7. p = "function" <=> jobs'[q] = <<>>
  <2>1. NextJob(Tail(jobs[q]), q) # NoJob <=>
          Tail(jobs[q]) # <<>> /\ Ready(Head(Tail(jobs[q])), q)
    BY <1>4, <1>6, NextJobFacts DEF HandInv
  <2>2. QED
    BY <1>2, <1>5, <1>6, <2>1 DEF Ready
<1>8. wpc'[w] = p
  BY <1>2, <1>3 DEF WorkType
<1>9. /\ jobs_thread' \in [Rank -> BOOLEAN] /\ ~jobs_thread'[q]
      /\ \A r \in Rank \ {q} : jobs_thread'[r] = jobs_thread[r]
  BY <1>1, <1>3, <1>4 DEF RankType
<1>10. TypeInv'
  <2>1. AppType' /\ RunType'
    BY <1>1, <1>3 DEF AppType, RunType
  <2>2. RankType'
    BY <1>1, <1>3, <1>6, <1>9 DEF RankType
  <2>3. WorkType'
    BY <1>1, <1>2, <1>3 DEF WorkType, Places
  <2>4. QED
    BY <2>1, <2>2, <2>3 DEF TypeInv
<1>11. \A v \in Workers \ {w} : Same(v)
  BY <1>1, <1>2, <1>3 DEF WorkType, Same, Stays
<1>12. /\ (HasList(w)' <=> p = "requeue") /\ ~HasHead(w)' /\ ~Runs(w)' /\ ~Locked(w)'
  BY <1>1, <1>5, <1>8 DEF HasList, HasHead, Runs, Locked, Blocking
<1>13. WorkOk(w)'
  <2>1. IsJob(wjob[w], q)'
    BY <1>1, <1>5 DEF IsJob, CallOf
  <2>2. Ready(Head(jobs[q]), q)'
    BY <1>1, <1>5 DEF Ready
  <2>3. QED
    BY <1>1, <1>5, <1>7, <1>8, <1>12, <2>1, <2>2 DEF WorkOk
<1>14. WorkInv' /\ QueueInv' /\ OneInv' /\ IdleInv' /\ GatherInv'
  <2>1. \A r \in Rank \ {q} : SameRank(r)
    BY <1>1, <1>6, <1>9 DEF SameRank
  <2>2. UNCHANGED <<calls, left, queue, wrank, nb>>
    BY <1>1
  <2>3. CASE p = "requeue"
    BY <1>4, <1>11, <1>12, <1>13, <2>1, <2>2, <2>3, KeepStep
  <2>4. CASE p = "function"
    BY <1>4, <1>5, <1>7, <1>9, <1>11, <1>12, <1>13, <2>1, <2>2, <2>4, OpenStep
  <2>5. QED
    BY <2>3, <2>4
<1>15. LockInv'
  BY <1>1, <1>11, <1>12, LockStep
<1>16. RunInv'
  BY <1>1, <1>2, <1>8, <1>11, RunHands DEF Same, Stays, Sleeping
<1>17. QED
  BY <1>6, <1>10, <1>14, <1>15, <1>16 DEF HandInv

LEMMA FailInv ==
  ASSUME HandInv, OrdinaryPrograms, NEW w \in Workers, Fail(w)
  PROVE  HandInv'
<1> USE DEF appVars, callVars, slotVars, queueVars, workerVars, pollVars, rankVars, runVars,
            sleepVars
<1> DEFINE q == wrank[w]
           told(a, i) == \E m \in DOMAIN jobs[q] :
                           jobs[q][m].kind = "sync" /\ jobs[q][m].app = a /\ jobs[q][m].n = i
<1>1. /\ wpc[w] = "fail" /\ wpc' = [wpc EXCEPT ![w] = "idle"] /\ jlock[q] = None
      /\ left' = [a \in Apps |-> [i \in DOMAIN left[a] |->
                                    IF told(a, i) THEN left[a][i] - 1 ELSE left[a][i]]]
      /\ jobs' = [jobs EXCEPT ![q] = <<>>]
      /\ jobs_thread' = [jobs_thread EXCEPT ![q] = FALSE]
      /\ rlock' = [rlock EXCEPT ![q] = None]
      /\ wjob' = [wjob EXCEPT ![w] = NoJob]
      /\ UNCHANGED <<calls, n, step, at, jlock, queue, wrank, was, hw, nb, launched, active>>
  BY DEF Fail, GotoW, MyRank
<1>2. AppType /\ RankType /\ WorkType /\ RunType /\ WorkOk(w)
  BY DEF HandInv, TypeInv, WorkInv
<1>3. HasList(w) /\ HasHead(w) /\ rlock[q] = w /\ q \in Rank /\ nb[q] = 0
  BY <1>1, <1>2 DEF HasList, HasHead, HandInv, LockInv, Locked, WorkType, WorkOk
<1>4. \A a \in Apps : \A i \in DOMAIN calls[a] : Gathers(a, i) => ~told(a, i)
  <2> SUFFICES ASSUME NEW m \in DOMAIN jobs[q], jobs[q][m].kind = "sync"
               PROVE  ~Gathers(jobs[q][m].app, jobs[q][m].n)
    OBVIOUS
  <2> PICK j : j = jobs[q][m]
    OBVIOUS
  <2>1. IsJob(j, q)
    BY <1>3 DEF HandInv, ListInv
  <2>2. CallOf(j) \in Calls /\ (CallOf(j).kind = "sync" \/ CallOf(j).sync)
    BY <2>1, JobFacts DEF HandInv, IsJob
  <2>3. ~Single(CallOf(j))
    BY <2>2 DEF Calls
  <2>4. QED
    BY <2>3 DEF Gathers, CallOf
<1> HIDE DEF told
<1>5. /\ AppType'
      /\ \A a \in Apps : \A i \in DOMAIN calls[a] :
           Gathers(a, i) => left'[a][i] = left[a][i]
  <2>1. DOMAIN left' = Apps
    BY <1>1
  <2>2. ASSUME NEW a \in Apps
        PROVE  /\ left'[a] \in [DOMAIN calls[a] -> Int]
               /\ \A i \in DOMAIN calls[a] : ~told(a, i) => left'[a][i] = left[a][i]
    <3>1. PICK f : f = left[a] /\ f \in [DOMAIN calls[a] -> Int]
      BY <1>2 DEF AppType
    <3>2. left'[a] = [i \in DOMAIN calls[a] |-> IF told(a, i) THEN f[i] - 1 ELSE f[i]]
      BY <1>1, <3>1
    <3>3. \A i \in DOMAIN calls[a] : f[i] \in Int /\ f[i] - 1 \in Int
      BY <3>1
    <3>4. QED
      BY <3>1, <3>2, <3>3
  <2>3. QED
    BY <1>1, <1>2, <1>4, <2>1, <2>2 DEF AppType
<1>6. /\ jobs' \in [Rank -> Seq(Jobs)] /\ jobs'[q] = <<>>
      /\ \A r \in Rank \ {q} : jobs'[r] = jobs[r]
  BY <1>1, <1>2, <1>3 DEF RankType
<1>7. /\ jobs_thread' \in [Rank -> BOOLEAN] /\ ~jobs_thread'[q]
      /\ \A r \in Rank \ {q} : jobs_thread'[r] = jobs_thread[r]
  BY <1>1, <1>2, <1>3 DEF RankType
<1>8. wpc'[w] = "idle" /\ wjob'[w] = NoJob
  BY <1>1, <1>2 DEF WorkType
<1>9. TypeInv'
  <2>1. RunType'
    BY <1>1, <1>2 DEF RunType
  <2>2. RankType'
    BY <1>1, <1>2, <1>6, <1>7 DEF RankType
  <2>3. WorkType'
    BY <1>1, <1>2 DEF WorkType, Places
  <2>4. QED
    BY <1>5, <2>1, <2>2, <2>3 DEF TypeInv
<1>10. \A v \in Workers \ {w} : Same(v)
  BY <1>1, <1>2 DEF WorkType, Same, Stays
<1>11. ~HasList(w)' /\ ~HasHead(w)' /\ ~Runs(w)' /\ ~Locked(w)'
  BY <1>8 DEF HasList, HasHead, Runs, Locked
<1>12. WorkInv' /\ QueueInv' /\ OneInv' /\ IdleInv' /\ GatherInv'
  <2>1. \A r \in Rank \ {q} : SameRank(r)
    BY <1>1, <1>6, <1>7 DEF SameRank
  <2>2. UNCHANGED <<calls, queue, wrank, nb>>
    BY <1>1
  <2>3. WorkOk(w)'
    BY <1>8, <1>11 DEF WorkOk
  <2>4. QED
    BY <1>3, <1>5, <1>6, <1>7, <1>10, <1>11, <2>1, <2>2, <2>3, OpenStep
<1>13. LockInv'
  <2>1. \A r \in Rank : rlock'[r] = rlock[r] \/ rlock[r] \in {None, w}
    BY <1>1, <1>2, <1>3 DEF RankType
  <2>2. QED
    BY <1>10, <1>11, <2>1, LockStep
<1>14. CallerInv' /\ ListInv'
  <2>1. \A r \in Rank :
          /\ jlock[r] # None => jobs'[r] = jobs[r]
          /\ \A i \in DOMAIN jobs'[r] : \E k \in DOMAIN jobs[r] : jobs'[r][i] = jobs[r][k]
    BY <1>1, <1>6
  <2>2. QED
    BY <1>1, <2>1, ListStep
<1>15. RunInv'
  BY <1>1, <1>8, <1>10, RunHands DEF Same, Stays, Sleeping
<1>16. QED
  BY <1>9, <1>12, <1>13, <1>14, <1>15 DEF HandInv

-----------------------------------------------------------------------------
(* A list that passes between the work queue and a worker.                 *)

LEMMA PassStep ==
  ASSUME HandInv, OrdinaryPrograms, UNCHANGED <<calls, left, jobs, nb>>,
         QueueInv', OneInv', \A r \in Rank : Idle(r)' <=> Idle(r),
         \A v \in Workers : WorkOk(v)' /\ (Runs(v)' => Runs(v) /\ Stays(v)),
         \A r \in Rank : jobs[r] = <<>> => jobs_thread'[r] = jobs_thread[r]
  PROVE  WorkInv' /\ QueueInv' /\ OneInv' /\ IdleInv' /\ GatherInv'
<1>1. WorkInv'
  BY DEF WorkInv
<1>2. IdleInv'
  <2>1. \A r \in Rank : Parked(r)' <=> Parked(r)
    BY DEF Parked, CallOf, Single
  <2>2. QED
    BY <2>1 DEF HandInv, IdleInv
<1>3. GatherInv'
  <2>1. \A r \in Rank : /\ Waits(r)' <=> Waits(r)
                        /\ Waits(r) => Head(jobs[r])' = Head(jobs[r])
    BY DEF Waits
  <2>2. \A v \in Workers : Runs(v)' => Runs(v) /\ Stays(v) /\ IsJob(wjob[v], wrank[v])
    BY RunsFacts
  <2>3. QED
    BY <2>1, <2>2, GatherFrame
<1>4. QED
  BY <1>1, <1>2, <1>3

LEMMA AppendFacts ==
  ASSUME NEW S, NEW s \in Seq(S), NEW e \in S
  PROVE  /\ Append(s, e) \in Seq(S)
         /\ DOMAIN Append(s, e) = DOMAIN s \cup {Len(s) + 1}
         /\ Len(s) + 1 \notin DOMAIN s
         /\ Append(s, e)[Len(s) + 1] = e
         /\ \A i \in DOMAIN s : Append(s, e)[i] = s[i]
  OBVIOUS

LEMMA RequeueInv ==
  ASSUME HandInv, OrdinaryPrograms, NEW w \in Workers, Requeue(w)
  PROVE  HandInv'
<1> USE DEF appVars, callVars, slotVars, queueVars, workerVars, pollVars, rankVars, runVars,
            sleepVars
<1> DEFINE q == wrank[w]
           e == [rank |-> q, job |-> Head(jobs[q])]
           m == Len(queue) + 1
<1>1. /\ wpc[w] = "requeue" /\ wpc' = [wpc EXCEPT ![w] = "function"]
      /\ queue' = Append(queue, e)
      /\ UNCHANGED <<calls, n, step, at, left, jobs, jobs_thread, jlock, wrank, wjob, was,
                     hw, nb, launched, active, rlock>>
  BY DEF Requeue, GotoW, MyRank
<1>2. AppType /\ RankType /\ WorkType /\ RunType /\ WorkOk(w)
  BY DEF HandInv, TypeInv, WorkInv
<1>3. /\ HasList(w) /\ q \in Rank /\ wpc'[w] = "function"
      /\ IsJob(wjob[w], q) /\ wjob[w].kind = "callback" /\ ~Blocking(wjob[w])
      /\ jobs[q] # <<>> /\ Ready(Head(jobs[q]), q)
  BY <1>1, <1>2 DEF HasList, WorkType, WorkOk
<1>4. e \in [rank : Rank, job : Jobs]
  <2>1. jobs[q] \in Seq(Jobs)
    BY <1>2, <1>3 DEF RankType
  <2>2. Head(jobs[q]) \in Jobs
    BY <1>3, <2>1, TailFacts
  <2>3. QED
    BY <1>3, <2>2
<1>5. /\ queue' \in Seq([rank : Rank, job : Jobs])
      /\ DOMAIN queue' = DOMAIN queue \cup {m} /\ m \notin DOMAIN queue
      /\ queue'[m] = e /\ \A i \in DOMAIN queue : queue'[i] = queue[i]
  <2>1. queue \in Seq([rank : Rank, job : Jobs])
    BY <1>2 DEF RankType
  <2>2. QED
    BY <1>1, <1>4, <2>1, AppendFacts
<1>6. ~HasList(w)' /\ ~HasHead(w)' /\ ~Runs(w)' /\ ~Locked(w)'
  BY <1>1, <1>3 DEF HasList, HasHead, Runs, Locked, Blocking
<1>7. TypeInv'
  <2>1. AppType' /\ RunType'
    BY <1>1, <1>2 DEF AppType, RunType
  <2>2. RankType' /\ WorkType'
    BY <1>1, <1>2, <1>5 DEF RankType, WorkType, Places
  <2>3. QED
    BY <2>1, <2>2 DEF TypeInv
<1>8. \A v \in Workers \ {w} : Same(v)
  BY <1>1, <1>2 DEF WorkType, Same, Stays
<1>9. \A v \in Workers \ {w} : WorkOk(v)' /\ (HasList(v)' <=> HasList(v))
                               /\ (Runs(v)' => Runs(v) /\ Stays(v))
  <2>1. \A r \in Rank : SameRank(r)
    BY <1>1 DEF SameRank
  <2>2. QED
    BY <1>1, <1>3, <1>8, <2>1, Others DEF Same
<1>10. OneInv' /\ \A r \in Rank : Idle(r)' <=> Idle(r)
  <2> HIDE DEF m
  <2>1. \A i \in DOMAIN queue : queue[i].rank # q
    BY <1>3 DEF HandInv, OneInv
  <2>2. queue'[m].rank = q
    BY <1>5
  <2> HIDE DEF e
  <2>3. \A v \in Workers \ {w} : HasList(v) => wrank[v] # q
    BY <1>3 DEF HandInv, OneInv
  <2>4. OneInv
    BY DEF HandInv
  <2>5. UNCHANGED wrank
    BY <1>1
  <2>6. OneInv'
    <3>1. \A i, k \in DOMAIN queue' : queue'[i].rank = queue'[k].rank => i = k
      BY <1>5, <2>1, <2>2, <2>4 DEF OneInv
    <3>2. \A u, v \in Workers : HasList(u)' /\ HasList(v)' /\ wrank'[u] = wrank'[v] => u = v
      BY <1>6, <1>9, <2>4, <2>5 DEF OneInv
    <3>3. \A i \in DOMAIN queue', v \in Workers : HasList(v)' => wrank'[v] # queue'[i].rank
      BY <1>5, <1>6, <1>9, <2>2, <2>3, <2>4, <2>5 DEF OneInv
    <3>4. QED
      BY <3>1, <3>2, <3>3 DEF OneInv
  <2>7. ASSUME NEW r \in Rank
        PROVE  Idle(r)' <=> Idle(r)
    <3>1. CASE r = q
      <4>1. ~Idle(r) /\ ~Idle(r)'
        BY <1>3, <1>5, <2>2, <3>1 DEF Idle
      <4>2. QED
        BY <4>1
    <3>2. CASE r # q
      BY <1>5, <1>6, <1>9, <2>2, <2>5, <3>2 DEF Idle
    <3>3. QED
      BY <3>1, <3>2
  <2>8. QED
    BY <2>6, <2>7
<1>11. QueueInv'
  <2> SUFFICES ASSUME NEW i \in DOMAIN queue'
               PROVE  /\ jobs[queue'[i].rank] # <<>>
                      /\ queue'[i].job = Head(jobs[queue'[i].rank])
                      /\ Ready(queue'[i].job, queue'[i].rank)
    BY <1>1 DEF QueueInv, Ready
  <2>1. CASE i = m
    BY <1>3, <1>5, <2>1
  <2>2. CASE i # m
    BY <1>5, <2>2 DEF HandInv, QueueInv
  <2>3. QED
    BY <2>1, <2>2
<1>12. WorkOk(w)'
  <2>1. IsJob(wjob[w], q)'
    BY <1>1, <1>3 DEF IsJob, CallOf
  <2>2. QED
    BY <1>1, <1>3, <1>6, <2>1 DEF WorkOk
<1>13. WorkInv' /\ QueueInv' /\ OneInv' /\ IdleInv' /\ GatherInv'
  BY <1>1, <1>6, <1>9, <1>10, <1>11, <1>12, PassStep
<1>14. LockInv'
  BY <1>1, <1>6, <1>8, LockStep
<1>15. CallerInv' /\ ListInv'
  BY <1>1, ListStep
<1>16. RunInv'
  BY <1>1, <1>3, <1>8, RunHands DEF Same, Stays, Sleeping
<1>17. QED
  BY <1>7, <1>13, <1>14, <1>15, <1>16 DEF HandInv

LEMMA PickInv ==
  ASSUME HandInv, OrdinaryPrograms, NEW w \in Workers, Pick(w)
  PROVE  HandInv'
<1> USE DEF appVars, callVars, slotVars, queueVars, workerVars, pollVars, rankVars, runVars,
            sleepVars
<1> PICK e : e = Head(queue)
  OBVIOUS
<1> PICK q : q = e.rank
  OBVIOUS
<1>1. /\ wpc[w] = "idle" /\ wpc' = [wpc EXCEPT ![w] = "lock"]
      /\ queue # <<>> /\ queue' = Tail(queue)
      /\ wrank' = [wrank EXCEPT ![w] = q]
      /\ wjob' = [wjob EXCEPT ![w] = e.job]
      /\ jobs_thread' = [jobs_thread EXCEPT ![q] = TRUE]
      /\ UNCHANGED <<calls, n, step, at, left, jobs, jlock, was, hw, nb, launched, active,
                     rlock>>
  BY DEF Pick, GotoW
<1>2. AppType /\ RankType /\ WorkType /\ RunType
  BY DEF HandInv, TypeInv
<1>3. /\ queue' \in Seq([rank : Rank, job : Jobs])
      /\ \A i \in DOMAIN queue' : i + 1 \in DOMAIN queue /\ queue'[i] = queue[i + 1]
      /\ 1 \in DOMAIN queue /\ queue[1] = e
      /\ e \in [rank : Rank, job : Jobs]
  <2>1. queue \in Seq([rank : Rank, job : Jobs])
    BY <1>2 DEF RankType
  <2>2. QED
    BY <1>1, <2>1, TailFacts
<1>4. \A i \in DOMAIN queue : i = 1 \/ (i - 1 \in DOMAIN queue' /\ queue'[i - 1] = queue[i])
  <2>1. queue \in Seq([rank : Rank, job : Jobs])
    BY <1>2 DEF RankType
  <2>2. QED
    BY <1>1, <2>1
<1>5. q \in Rank /\ e.job \in Jobs
  BY <1>3
<1>6. /\ jobs[q] # <<>> /\ e.job = Head(jobs[q]) /\ Ready(e.job, q)
      /\ \A v \in Workers : HasList(v) => wrank[v] # q
      /\ \A i \in DOMAIN queue : queue[i].rank = q => i = 1
  BY <1>3 DEF HandInv, QueueInv, OneInv
<1>7. wpc'[w] = "lock" /\ wrank'[w] = q /\ wjob'[w] = e.job
  BY <1>1, <1>2 DEF WorkType
<1>8. /\ jobs_thread' \in [Rank -> BOOLEAN] /\ jobs_thread'[q]
      /\ \A r \in Rank \ {q} : jobs_thread'[r] = jobs_thread[r]
  BY <1>1, <1>2, <1>5 DEF RankType
<1>9. TypeInv'
  <2>1. AppType' /\ RunType'
    BY <1>1, <1>2 DEF AppType, RunType
  <2>2. RankType'
    BY <1>1, <1>2, <1>3, <1>8 DEF RankType
  <2>3. WorkType'
    BY <1>1, <1>2, <1>5 DEF WorkType, Places
  <2>4. QED
    BY <2>1, <2>2, <2>3 DEF TypeInv
<1>10. \A v \in Workers \ {w} : Same(v)
  BY <1>1, <1>2 DEF WorkType, Same, Stays
<1>11. ~HasList(w) /\ HasList(w)' /\ ~Runs(w)' /\ ~Locked(w)'
  BY <1>1, <1>7 DEF HasList, Runs, Locked
<1>12. ASSUME NEW v \in Workers \ {w}
       PROVE  WorkOk(v)' /\ (HasList(v)' <=> HasList(v)) /\ (Runs(v)' => Runs(v) /\ Stays(v))
  <2>1. Same(v) /\ WorkOk(v) /\ wrank[v] \in Rank
    BY <1>2, <1>10 DEF HandInv, WorkInv, WorkType
  <2>2. (HasList(v)' <=> HasList(v)) /\ (Runs(v)' => Runs(v) /\ Stays(v))
    BY <1>1, <2>1, SameFacts DEF Same
  <2>3. CASE wrank[v] = q
    <3>1. ~HasList(v)'
      BY <1>6, <2>2, <2>3
    <3>2. QED
      BY <1>1, <1>2, <2>1, <2>2, <3>1, NoList DEF WorkType
  <2>4. CASE wrank[v] # q
    <3>1. SameRank(wrank[v])
      BY <1>1, <1>8, <2>1, <2>4 DEF SameRank
    <3>2. QED
      BY <1>1, <2>1, <2>2, <3>1, SameWork
  <2>5. QED
    BY <2>2, <2>3, <2>4
<1>13. WorkOk(w)'
  <2>1. Ready(e.job, q)'
    BY <1>1, <1>6 DEF Ready
  <2>2. QED
    BY <1>1, <1>6, <1>7, <1>8, <2>1 DEF WorkOk
<1>14. \A i \in DOMAIN queue' : queue'[i].rank # q /\ i \in Nat
  BY <1>3, <1>6
<1>15. OneInv'
  <2>1. OneInv
    BY DEF HandInv
  <2>2. \A v \in Workers \ {w} : wrank'[v] = wrank[v]
    BY <1>10 DEF Same, Stays
  <2>3. \A i, k \in DOMAIN queue' : queue'[i].rank = queue'[k].rank => i = k
    BY <1>3, <1>14, <2>1 DEF OneInv
  <2>4. \A u, v \in Workers : HasList(u)' /\ HasList(v)' /\ wrank'[u] = wrank'[v] => u = v
    BY <1>6, <1>7, <1>12, <2>1, <2>2 DEF OneInv
  <2>5. \A i \in DOMAIN queue', v \in Workers : HasList(v)' => wrank'[v] # queue'[i].rank
    BY <1>3, <1>7, <1>12, <1>14, <2>1, <2>2 DEF OneInv
  <2>6. QED
    BY <2>3, <2>4, <2>5 DEF OneInv
<1>16. ASSUME NEW r \in Rank
       PROVE  Idle(r)' <=> Idle(r)
  <2>1. \A v \in Workers \ {w} : wrank'[v] = wrank[v]
    BY <1>10 DEF Same, Stays
  <2>2. CASE r = q
    BY <1>3, <1>7, <1>11, <2>2 DEF Idle
  <2>3. CASE r # q
    <3>1. (\A i \in DOMAIN queue : queue[i].rank # r) <=>
            (\A i \in DOMAIN queue' : queue'[i].rank # r)
      BY <1>3, <1>4, <2>3
    <3>2. (\A v \in Workers : HasList(v) => wrank[v] # r) <=>
            (\A v \in Workers : HasList(v)' => wrank'[v] # r)
      BY <1>7, <1>11, <1>12, <2>1, <2>3
    <3>3. QED
      BY <3>1, <3>2 DEF Idle
  <2>4. QED
    BY <2>2, <2>3
<1>17. QueueInv'
  <2>1. \A i \in DOMAIN queue' :
          /\ jobs[queue'[i].rank] # <<>>
          /\ queue'[i].job = Head(jobs[queue'[i].rank])
          /\ Ready(queue'[i].job, queue'[i].rank)
    BY <1>3 DEF HandInv, QueueInv
  <2>2. QED
    BY <1>1, <2>1 DEF QueueInv, Ready
<1>18. WorkInv' /\ QueueInv' /\ OneInv' /\ IdleInv' /\ GatherInv'
  BY <1>1, <1>6, <1>8, <1>11, <1>12, <1>13, <1>15, <1>16, <1>17, PassStep
<1>19. LockInv'
  BY <1>1, <1>10, <1>11, LockStep
<1>20. CallerInv' /\ ListInv'
  BY <1>1, ListStep
<1>21. RunInv'
  BY <1>1, <1>7, <1>10, RunHands DEF Same, Stays, Sleeping
<1>22. QED
  BY <1>9, <1>18, <1>19, <1>20, <1>21 DEF HandInv

-----------------------------------------------------------------------------
(* The DPUs and the polling thread.                                        *)

\* A step that changes neither lists nor hands.
LEMMA CoreFrame ==
  ASSUME HandInv, OrdinaryPrograms,
         UNCHANGED <<calls, left, jobs, jobs_thread, queue, rlock, wpc, wrank, wjob, nb>>
  PROVE  /\ ListInv' /\ LockInv'
         /\ WorkInv' /\ QueueInv' /\ OneInv' /\ IdleInv' /\ GatherInv'
<1>1. ListInv'
  BY DEF HandInv, ListInv, IsJob, CallOf
<1>2. LockInv'
  BY DEF HandInv, LockInv, Locked
<1>3. \A v \in Workers : /\ HasList(v)' <=> HasList(v)
                         /\ WorkOk(v)'
                         /\ Runs(v)' => Runs(v) /\ Stays(v)
  <2> SUFFICES ASSUME NEW v \in Workers
               PROVE  /\ HasList(v)' <=> HasList(v)
                      /\ WorkOk(v)'
                      /\ Runs(v)' => Runs(v) /\ Stays(v)
    OBVIOUS
  <2>1. Same(v) /\ SameRank(wrank[v]) /\ WorkOk(v)
    BY DEF Same, Stays, SameRank, HandInv, WorkInv
  <2>2. QED
    BY <2>1, SameFacts, SameWork DEF Same, SameRank
<1>4. QED
  BY <1>1, <1>2, <1>3, IdleStep

LEMMA DpuStopsInv ==
  ASSUME HandInv, OrdinaryPrograms, NEW r \in Rank, DpuStops(r)
  PROVE  HandInv'
<1> USE DEF appVars, callVars, slotVars, queueVars, workerVars, pollVars, rankVars, runVars,
            sleepVars
<1>1. /\ hw[r] > 0 /\ hw' = [hw EXCEPT ![r] = @ - 1]
      /\ UNCHANGED <<calls, n, step, at, left, jobs, jobs_thread, jlock, queue, rlock, wpc,
                     wrank, wjob, was, nb, launched, active>>
  BY DEF DpuStops
<1>2. AppType /\ RankType /\ WorkType /\ RunType /\ RunInv /\ CallerInv
  BY DEF HandInv, TypeInv
<1>3. hw' \in [Rank -> Nat] /\ \A q \in Rank : hw'[q] <= hw[q] /\ hw[q] \in Nat
  BY <1>1, <1>2 DEF RunType
<1>4. TypeInv'
  BY <1>1, <1>2, <1>3 DEF TypeInv, AppType, RankType, WorkType, RunType
<1>5. RunInv'
  <2>1. \A q \in Rank : hw'[q] <= nb[q]
    BY <1>2, <1>3 DEF RunType, RunInv
  <2>2. QED
    BY <1>1, <1>2, <2>1 DEF RunInv
<1>6. CallerInv'
  BY <1>1, <1>2 DEF CallerInv, CallerOk, RankAt, Call
<1>7. QED
  BY <1>1, <1>4, <1>5, <1>6, CoreFrame DEF HandInv

\* While the polling thread watches a rank, one worker sleeps there and nobody else
\* has the list.
LEMMA PollerInv ==
  ASSUME HandInv, OrdinaryPrograms, PollerStep
  PROVE  HandInv'
<1> USE DEF appVars, callVars, slotVars, queueVars, workerVars, pollVars, rankVars, runVars,
            sleepVars
<1>1. AppType /\ RankType /\ WorkType /\ RunType /\ RunInv /\ CallerInv
  BY DEF HandInv, TypeInv
<1>2. UNCHANGED <<calls, n, step, at, left, jobs, jobs_thread, jlock, queue, rlock, wrank,
                  wjob, was, hw, launched, active>>
  BY DEF PollerStep, PollerTop, PollerRank
<1>3. CallerInv'
  BY <1>1, <1>2 DEF CallerInv, CallerOk, RankAt, Call
<1>4. CASE UNCHANGED <<wpc, nb>>
  <2>1. TypeInv'
    BY <1>1, <1>2, <1>4 DEF TypeInv, AppType, RankType, WorkType, RunType
  <2>2. RunInv'
    BY <1>1, <1>2, <1>4 DEF RunInv
  <2>3. QED
    BY <1>2, <1>3, <1>4, <2>1, <2>2, CoreFrame DEF HandInv
<1>5. CASE ~UNCHANGED <<wpc, nb>>
  <2>1. PICK r \in Rank : PollerRank(r)
    BY <1>5 DEF PollerStep, PollerTop
  <2>2. /\ active[r] /\ nb[r] # 0 /\ rlock[r] = None
        /\ nb' = [nb EXCEPT ![r] = hw[r]]
        /\ Broadcast(r) \/ wpc' = wpc
    BY <1>5, <2>1 DEF PollerRank
  <2>3. PICK u \in Workers : wrank[u] = r /\ wpc[u] \in {"asleep", "woken"}
    BY <1>1, <2>2 DEF RunInv
  <2>4. HasList(u)
    BY <2>3 DEF HasList
  <2>5. \A v \in Workers \ {u} : wpc[v] = "asleep" => wrank[v] # r
    <3>1. \A v \in Workers : wpc[v] = "asleep" => HasList(v)
      BY DEF HasList
    <3>2. QED
      BY <2>3, <2>4, <3>1 DEF HandInv, OneInv
  <2>6. /\ wpc' \in [Workers -> Places]
        /\ wpc'[u] \in {"asleep", "woken"}
        /\ \A v \in Workers \ {u} : wpc'[v] = wpc[v]
    <3>1. CASE wpc' = wpc
      BY <1>1, <2>3, <3>1 DEF WorkType
    <3>2. CASE Broadcast(r)
      <4>1. wpc' = [w \in Workers |-> IF wpc[w] = "asleep" /\ wrank[w] = r THEN "woken"
                                       ELSE wpc[w]]
        BY <3>2 DEF Broadcast
      <4>2. \A v \in Workers \ {u} : wpc'[v] = wpc[v]
        BY <2>5, <4>1
      <4>3. wpc'[u] \in {"asleep", "woken"}
        BY <2>3, <4>1
      <4>4. \A v \in Workers : wpc'[v] \in Places
        BY <1>1, <4>1 DEF WorkType, Places
      <4>5. QED
        BY <4>1, <4>2, <4>3, <4>4
    <3>3. QED
      BY <2>2, <3>1, <3>2
  <2>7. /\ nb' \in [Rank -> Nat] /\ nb'[r] = hw[r] /\ hw[r] \in Nat
        /\ \A q \in Rank \ {r} : nb'[q] = nb[q]
    BY <1>1, <2>2 DEF RunType
  <2>8. TypeInv'
    BY <1>1, <1>2, <2>6, <2>7 DEF TypeInv, AppType, RankType, WorkType, RunType
  <2>9. (\A v \in Workers \ {u} : Same(v)) /\ \A q \in Rank \ {r} : SameRank(q)
    BY <1>2, <2>6, <2>7 DEF Same, Stays, SameRank
  <2>10. HasList(u)' /\ ~HasHead(u)' /\ ~Runs(u)' /\ ~Locked(u)'
    BY <2>6 DEF HasList, HasHead, Runs, Locked
  <2>11. WorkOk(u)'
    <3>1. WorkOk(u)
      BY DEF HandInv, WorkInv
    <3>2. wjob[u] = NoJob /\ jobs_thread[r]
      BY <2>3, <2>4, <3>1 DEF WorkOk
    <3>3. QED
      BY <1>2, <2>3, <2>6, <2>10, <3>2 DEF WorkOk
  <2>12. WorkInv' /\ QueueInv' /\ OneInv' /\ IdleInv' /\ GatherInv'
    BY <1>2, <2>2, <2>3, <2>4, <2>9, <2>10, <2>11, KeepStep
  <2>13. LockInv'
    BY <1>2, <2>9, <2>10, LockStep
  <2>14. ListInv'
    BY <1>2, ListStep
  <2>15. RunInv'
    <3>1. hw[r] <= nb[r] /\ launched[r] /\ was[u] # 0
      BY <1>1, <2>2, <2>3 DEF RunInv
    <3>2. ASSUME NEW q \in Rank \ {r}
          PROVE  /\ hw[q] <= nb'[q]
                 /\ nb'[q] # 0 => launched[q]
                 /\ nb'[q] = 0 /\ launched[q] =>
                      \E w \in Workers : wrank[w] = q /\ wpc'[w] \in {"status", "asleep", "woken"}
                 /\ active[q] =>
                      \E w \in Workers : wrank[w] = q /\ wpc'[w] \in {"asleep", "woken"}
      <4>1. \A v \in Workers : wrank[v] = q => wpc'[v] = wpc[v]
        BY <2>3, <2>6
      <4>2. nb'[q] = nb[q]
        BY <2>7
      <4>3. /\ hw[q] <= nb[q]
            /\ nb[q] # 0 => launched[q]
            /\ nb[q] = 0 /\ launched[q] =>
                 \E w \in Workers : wrank[w] = q /\ wpc[w] \in {"status", "asleep", "woken"}
            /\ active[q] =>
                 \E w \in Workers : wrank[w] = q /\ wpc[w] \in {"asleep", "woken"}
        BY <1>1 DEF RunInv
      <4>4. QED
        BY <4>1, <4>2, <4>3
    <3>3. /\ hw[r] <= nb'[r] /\ (nb'[r] # 0 => launched[r])
          /\ \E w \in Workers : wrank[w] = r /\ wpc'[w] \in {"asleep", "woken"}
      BY <2>3, <2>6, <2>7, <3>1
    <3>4. \A v \in Workers : /\ wpc'[v] \in {"asleep", "woken", "status"} => launched[wrank[v]]
                             /\ wpc'[v] \in {"asleep", "woken"} => was[v] # 0
      BY <1>1, <2>3, <2>6, <3>1 DEF RunInv
    <3>5. QED
      BY <1>2, <3>2, <3>3, <3>4 DEF RunInv
  <2>16. QED
    BY <1>3, <2>8, <2>12, <2>13, <2>14, <2>15 DEF HandInv
<1>6. QED
  BY <1>4, <1>5

-----------------------------------------------------------------------------
(* The callers.                                                            *)

LEMMA CallerStep ==
  ASSUME HandInv, OrdinaryPrograms, NEW a \in Apps, calls' = calls,
         \A b \in Apps \ {a} : n'[b] = n[b] /\ step'[b] = step[b] /\ at'[b] = at[b],
         \A r \in Rank : jlock[r] \notin {None, a} =>
                           jlock'[r] = jlock[r] /\ jobs'[r] = jobs[r],
         CallerOk(a)'
  PROVE  CallerInv'
<1> SUFFICES ASSUME NEW b \in Apps \ {a}
             PROVE  CallerOk(b)'
  BY DEF CallerInv
<1>1. CallerOk(b)
  BY DEF HandInv, CallerInv
<1>2. Call(b)' = Call(b) /\ RankAt(b)' = RankAt(b)
  BY DEF Call, RankAt
<1>3. step[b] = "addq" => jlock'[RankAt(b)] = b /\ jobs'[RankAt(b)] = <<>>
  <2> SUFFICES ASSUME step[b] = "addq"
               PROVE  jlock'[RankAt(b)] = b /\ jobs'[RankAt(b)] = <<>>
    OBVIOUS
  <2>1. jlock[RankAt(b)] = b /\ jobs[RankAt(b)] = <<>> /\ at[b] <= Len(Call(b).ranks)
    BY <1>1 DEF CallerOk
  <2>2. RankAt(b) \in Rank /\ b \notin {None, a}
    BY <2>1, AddTypes, ThreadJobAssumption
  <2>3. QED
    BY <2>1, <2>2
<1>4. QED
  BY <1>1, <1>2, <1>3 DEF CallerOk

LEMMA FinishOk ==
  ASSUME HandInv, OrdinaryPrograms, NEW a \in Apps, step[a] # "done", Finish(a),
         calls' = calls
  PROVE  CallerOk(a)'
<1>1. /\ n[a] \in DOMAIN calls[a] /\ calls[a] \in Seq(Calls)
      /\ n \in [Apps -> Nat \ {0}] /\ at \in [Apps -> Nat \ {0}]
      /\ step \in [Apps -> {"slots", "master", "add", "addq", "wait", "done"}]
  BY ThreadJobAssumption DEF HandInv, TypeInv, AppType, CallerInv, CallerOk
<1>2. /\ n'[a] = n[a] + 1 /\ at'[a] = 1
      /\ step'[a] = IF n[a] = Len(calls[a]) THEN "done" ELSE "slots"
  BY <1>1 DEF Finish
<1>3. CASE n[a] = Len(calls[a])
  BY <1>2, <1>3 DEF CallerOk
<1>4. CASE n[a] # Len(calls[a])
  <2>1. n'[a] \in DOMAIN calls[a]
    BY <1>1, <1>2, <1>4
  <2> PICK i : i = n'[a]
    OBVIOUS
  <2>2. Len(calls[a][i].ranks) \in Nat \ {0}
    BY <2>1, CallFacts DEF HandInv
  <2>3. Len(Call(a).ranks)' = Len(calls[a][i].ranks)
    BY DEF Call
  <2>4. QED
    BY <1>2, <1>4, <2>1, <2>2, <2>3 DEF CallerOk
<1>5. QED
  BY <1>3, <1>4

LEMMA CallerMoves ==
  ASSUME HandInv, OrdinaryPrograms, NEW a \in Apps, AppStep(a)
  PROVE  CallerOk(a)'
<1> USE DEF appVars, callVars, slotVars, queueVars, workerVars, pollVars, rankVars, runVars,
            sleepVars
<1>1. calls' = calls
  BY DEF AppStep, TakeSlots, TakeMaster, AddRank, AddQueued, AddEnd, WaitSync
<1>2. step[a] \in {"slots", "master", "add", "addq", "wait"}
  BY DEF AppStep, TakeSlots, TakeMaster, AddRank, AddQueued, AddEnd, WaitSync
<1>3. AppType /\ RankType /\ CallerOk(a)
  BY DEF HandInv, TypeInv, CallerInv
<1>4. n[a] \in DOMAIN calls[a] /\ at[a] \in Nat \ {0} /\ at \in [Apps -> Nat \ {0}]
      /\ step \in [Apps -> {"slots", "master", "add", "addq", "wait", "done"}]
  BY <1>2, <1>3 DEF CallerOk, AppType
<1>5. CASE Finish(a)
  BY <1>1, <1>2, <1>5, FinishOk
<1>6. ASSUME n' = n
      PROVE  Call(a)' = Call(a)
  BY <1>1, <1>6 DEF Call
<1>7. ASSUME n' = n, step'[a] \in {"master", "add", "wait"}
      PROVE  CallerOk(a)'
  BY <1>1, <1>4, <1>7 DEF CallerOk
<1>8. CASE TakeSlots(a) /\ ~Finish(a)
  <2>1. n' = n
    BY <1>8 DEF TakeSlots
  <2>2. step[a] = "slots" /\ at[a] <= Len(Call(a).ranks)
    BY <1>3, <1>8 DEF TakeSlots, CallerOk
  <2>3. \/ at[a] < Len(Call(a).ranks) /\ at' = [at EXCEPT ![a] = @ + 1] /\ step' = step
        \/ \E s \in {"master", "add"} : Goto(a, s)
        \/ UNCHANGED <<at, step>>
    BY <1>8 DEF TakeSlots
  <2>4. Len(Call(a).ranks) \in Nat
    BY <1>4, CallFacts DEF HandInv, Call
  <2>5. CASE at[a] < Len(Call(a).ranks) /\ at' = [at EXCEPT ![a] = @ + 1] /\ step' = step
    BY <1>1, <1>4, <1>6, <2>1, <2>2, <2>4, <2>5 DEF CallerOk
  <2>6. CASE \E s \in {"master", "add"} : Goto(a, s)
    BY <1>4, <1>7, <2>1, <2>6 DEF Goto
  <2>7. CASE UNCHANGED <<at, step>>
    BY <1>1, <1>4, <1>6, <2>1, <2>2, <2>7 DEF CallerOk
  <2>8. QED
    BY <2>3, <2>5, <2>6, <2>7
<1>9. CASE TakeMaster(a) /\ ~Finish(a)
  <2>1. n' = n /\ step[a] = "master"
    BY <1>9 DEF TakeMaster
  <2>2. Goto(a, "add") \/ step' = step
    BY <1>9 DEF TakeMaster
  <2>3. QED
    BY <1>4, <1>7, <2>1, <2>2 DEF Goto
<1>10. CASE AddRank(a)
  <2>1. n' = n /\ step[a] = "add" /\ at[a] <= Len(Call(a).ranks)
    BY <1>10 DEF AddRank
  <2>2. CASE step' = step
    BY <1>7, <2>1, <2>2
  <2>3. CASE step' # step
    <3>1. /\ jlock' = [jlock EXCEPT ![RankAt(a)] = a] /\ jobs[RankAt(a)] = <<>>
          /\ Goto(a, "addq") /\ UNCHANGED <<jobs, at>>
      BY <1>10, <2>3 DEF AddRank
    <3>2. RankAt(a) \in Rank
      BY <2>1, AddTypes
    <3>3. jlock'[RankAt(a)] = a /\ step'[a] = "addq"
      BY <1>3, <1>4, <3>1, <3>2 DEF Goto, RankType
    <3>4. RankAt(a)' = RankAt(a)
      BY <1>6, <2>1, <3>1 DEF RankAt
    <3>5. QED
      BY <1>1, <1>4, <1>6, <2>1, <3>1, <3>3, <3>4 DEF CallerOk
  <2>4. QED
    BY <2>2, <2>3
<1>11. CASE AddQueued(a)
  <2>1. n' = n /\ Goto(a, "add")
    BY <1>11 DEF AddQueued
  <2>2. QED
    BY <1>4, <1>7, <2>1 DEF Goto
<1>12. CASE AddEnd(a) /\ ~Finish(a)
  <2>1. n' = n /\ Goto(a, "wait")
    BY <1>12 DEF AddEnd
  <2>2. QED
    BY <1>4, <1>7, <2>1 DEF Goto
<1>13. WaitSync(a) => Finish(a)
  BY DEF WaitSync
<1>14. QED
  BY <1>5, <1>8, <1>9, <1>10, <1>11, <1>12, <1>13 DEF AppStep

\* A caller changes only lists whose mutex it can have.
LEMMA CallersInv ==
  ASSUME HandInv, OrdinaryPrograms, NEW a \in Apps, AppStep(a)
  PROVE  CallerInv'
<1> USE DEF appVars, callVars, slotVars, queueVars, workerVars, pollVars, rankVars, runVars,
            sleepVars
<1>1. calls' = calls
  BY DEF AppStep, TakeSlots, TakeMaster, AddRank, AddQueued, AddEnd, WaitSync
<1>2. AppType /\ RankType
  BY DEF HandInv, TypeInv
<1>3. \A b \in Apps \ {a} : n'[b] = n[b] /\ step'[b] = step[b] /\ at'[b] = at[b]
  <2>1. \/ UNCHANGED <<n, at, step>>
        \/ Finish(a)
        \/ \E s : Goto(a, s) /\ UNCHANGED <<n, at>>
        \/ \E s, k : Goto(a, s) /\ at' = [at EXCEPT ![a] = k] /\ UNCHANGED n
        \/ \E k : at' = [at EXCEPT ![a] = k] /\ UNCHANGED <<n, step>>
    BY DEF AppStep, TakeSlots, TakeMaster, AddRank, AddQueued, AddEnd, WaitSync, NextRank
  <2>2. QED
    BY <1>2, <2>1 DEF Finish, Goto, AppType
<1>4. step[a] = "addq" => jlock[RankAt(a)] = a
  BY DEF HandInv, CallerInv, CallerOk
<1>5. ASSUME NEW r \in Rank, jlock[r] \notin {None, a}
      PROVE  jlock'[r] = jlock[r] /\ jobs'[r] = jobs[r]
  <2>1. \/ jlock' = jlock
        \/ jlock' = [jlock EXCEPT ![RankAt(a)] = a] /\ jlock[RankAt(a)] = None
        \/ jlock' = [jlock EXCEPT ![RankAt(a)] = None] /\ step[a] = "addq"
    BY DEF AppStep, TakeSlots, TakeMaster, AddRank, AddQueued, AddEnd, WaitSync
  <2>2. \/ jobs' = jobs
        \/ Added(RankAt(a), a) /\ (jlock[RankAt(a)] = None \/ step[a] = "addq")
    BY DEF AppStep, TakeSlots, TakeMaster, AddRank, AddQueued, AddEnd, WaitSync
  <2>3. QED
    BY <1>2, <1>4, <1>5, <2>1, <2>2 DEF RankType, Added
<1>6. CallerOk(a)'
  BY CallerMoves
<1>7. QED
  BY <1>1, <1>3, <1>5, <1>6, CallerStep

\* A caller that waits for slots, for its turn or for its end.
LEMMA WaitingInv ==
  ASSUME HandInv, OrdinaryPrograms, NEW a \in Apps, AppStep(a),
         UNCHANGED <<jobs, queue>>
  PROVE  HandInv'
<1> USE DEF appVars, callVars, slotVars, queueVars, workerVars, pollVars, rankVars, runVars,
            sleepVars
<1>1. UNCHANGED <<calls, left, jobs_thread, rlock, wpc, wrank, wjob, was, hw, nb, launched,
                  active>>
  BY DEF AppStep, TakeSlots, TakeMaster, AddRank, AddQueued, AddEnd, WaitSync
<1>2. TypeInv' /\ CallerInv'
  BY AppTypes, CallersInv
<1>3. RunInv'
  BY <1>1 DEF HandInv, RunInv
<1>4. QED
  BY <1>1, <1>2, <1>3, CoreFrame DEF HandInv

\* What a list u is when t has been added to s.
Extended(s, t, u) ==
  /\ u # <<>>
  /\ s = <<>> => u = t
  /\ s # <<>> => Head(u) = Head(s)
  /\ \A i \in DOMAIN u : \/ i \in DOMAIN s /\ u[i] = s[i]
                        \/ \E k \in DOMAIN t : u[i] = t[k]

LEMMA ConcatFacts ==
  ASSUME NEW s \in Seq(Jobs), NEW t \in Seq(Jobs), t # <<>>
  PROVE  Extended(s, t, s \o t)
<1>1. Len(s \o t) = Len(s) + Len(t) /\ Len(t) \in Nat \ {0} /\ Len(s) \in Nat
  OBVIOUS
<1>2. s \o t # <<>> /\ (s = <<>> => s \o t = t) /\ (s # <<>> => Head(s \o t) = Head(s))
  <2>1. s \o t \in Seq(Jobs)
    OBVIOUS
  <2>2. s \o t # <<>>
    BY <1>1, <2>1
  <2>3. s = <<>> => s \o t = t
    OBVIOUS
  <2>4. s # <<>> => (s \o t)[1] = s[1]
    OBVIOUS
  <2>5. s # <<>> => Head(s \o t) = Head(s)
    BY <2>1, <2>2, <2>4
  <2>6. QED
    BY <2>2, <2>3, <2>5
<1>3. ASSUME NEW i \in DOMAIN (s \o t)
      PROVE  \/ i \in DOMAIN s /\ (s \o t)[i] = s[i]
             \/ \E k \in DOMAIN t : (s \o t)[i] = t[k]
  <2>1. CASE i <= Len(s)
    BY <1>1, <2>1
  <2>2. CASE i > Len(s)
    <3>1. i - Len(s) \in DOMAIN t /\ (s \o t)[i] = t[i - Len(s)]
      BY <1>1, <2>2
    <3>2. QED
      BY <3>1
  <2>3. QED
    BY <1>1, <2>1, <2>2
<1>4. QED
  BY <1>2, <1>3 DEF Extended

\* A rank that nobody has, and only such a rank, is put into the work queue with the
\* first of its jobs.
LEMMA AddInv ==
  ASSUME HandInv, OrdinaryPrograms, NEW a \in Apps, AppStep(a),
         ~UNCHANGED <<jobs, queue>>
  PROVE  HandInv'
<1> USE DEF appVars, callVars, slotVars, queueVars, workerVars, pollVars, rankVars, runVars,
            sleepVars
<1> PICK q : q = RankAt(a)
  OBVIOUS
<1> PICK s : s = JobsOf(a)
  OBVIOUS
<1> PICK e : e = First(a, q)
  OBVIOUS
<1>1. AddRank(a) \/ AddQueued(a)
  BY DEF AppStep, TakeSlots, TakeMaster, AddEnd, WaitSync
<1>2. /\ step[a] \in {"add", "addq"} /\ at[a] <= Len(Call(a).ranks)
      /\ step[a] = "addq" => jobs[q] = <<>>
  BY <1>1 DEF AddRank, AddQueued, HandInv, CallerInv, CallerOk
<1>3. /\ jobs' = [jobs EXCEPT ![q] = @ \o s]
      /\ jobs[q] = <<>> /\ ~jobs_thread[q] => queue' = Append(queue, e)
      /\ ~(jobs[q] = <<>> /\ ~jobs_thread[q]) => queue' = queue
      /\ UNCHANGED <<calls, left, jobs_thread, rlock, wpc, wrank, wjob, was, hw, nb, launched,
                     active>>
  BY <1>1, <1>2 DEF AddRank, AddQueued, Added
<1>4. /\ n[a] \in DOMAIN calls[a] /\ q \in Range(Call(a).ranks) /\ q \in Rank
      /\ s \in Seq(Jobs) /\ e \in [rank : Rank, job : Jobs]
  BY <1>2, AddTypes
<1>5. TypeInv /\ AppType /\ RankType /\ WorkType /\ RunType /\ OneInv /\ IdleInv
  BY DEF HandInv, TypeInv
<1>6. /\ s # <<>> /\ e.rank = q /\ e.job = Head(s)
      /\ \A i \in DOMAIN s : IsJob(s[i], q)
  BY <1>4, <1>5, JobsOfFacts DEF First
<1>7. /\ jobs'[q] # <<>>
      /\ jobs[q] = <<>> => jobs'[q] = s
      /\ jobs[q] # <<>> => Head(jobs'[q]) = Head(jobs[q])
      /\ \A i \in DOMAIN jobs'[q] : \/ i \in DOMAIN jobs[q] /\ jobs'[q][i] = jobs[q][i]
                                    \/ \E k \in DOMAIN s : jobs'[q][i] = s[k]
  <2>1. jobs[q] \in Seq(Jobs) /\ jobs'[q] = jobs[q] \o s
    BY <1>3, <1>4, <1>5 DEF RankType
  <2>2. Extended(jobs[q], s, jobs'[q])
    BY <1>4, <1>6, <2>1, ConcatFacts
  <2>3. QED
    BY <2>2 DEF Extended
<1>8. \A r \in Rank \ {q} : jobs'[r] = jobs[r]
  BY <1>3, <1>5 DEF RankType
<1>9. TypeInv' /\ CallerInv'
  BY AppTypes, CallersInv
<1>10. LockInv' /\ RunInv'
  BY <1>3 DEF HandInv, LockInv, Locked, RunInv
<1>11. ListInv'
  <2> SUFFICES ASSUME NEW r \in Rank, NEW i \in DOMAIN jobs'[r]
               PROVE  IsJob(jobs[r][i], r)'
    BY DEF ListInv
  <2> PICK j : j = jobs'[r][i]
    OBVIOUS
  <2>1. IsJob(j, r)
    BY <1>6, <1>7, <1>8 DEF HandInv, ListInv
  <2>2. CallOf(j)' = CallOf(j)
    BY <1>3 DEF CallOf
  <2>3. IsJob(j, r)'
    BY <1>3, <2>1, <2>2 DEF IsJob
  <2>4. QED
    BY <2>3
<1>12. ASSUME NEW v \in Workers
       PROVE  WorkOk(v)' /\ (HasList(v)' <=> HasList(v)) /\ (Runs(v)' => Runs(v) /\ Stays(v))
  <2>1. Same(v) /\ WorkOk(v) /\ wrank[v] \in Rank
    BY <1>3, <1>5 DEF Same, Stays, WorkType, HandInv, WorkInv
  <2>2. /\ HasHead(v)' <=> HasHead(v)
        /\ HasList(v)' <=> HasList(v)
        /\ Runs(v)' <=> Runs(v)
        /\ CallOf(wjob[v])' = CallOf(wjob[v])
        /\ IsJob(wjob[v], wrank[v])' <=> IsJob(wjob[v], wrank[v])
        /\ \A j : Ready(j, wrank[v])' <=> Ready(j, wrank[v])
    BY <1>3, <2>1, SameFacts DEF Same, Stays, Ready
  <2>3. jobs[wrank[v]] # <<>> =>
          jobs'[wrank[v]] # <<>> /\ Head(jobs'[wrank[v]]) = Head(jobs[wrank[v]])
    BY <1>7, <1>8, <2>1
  <2>4. QED
    BY <1>3, <2>1, <2>2, <2>3 DEF WorkOk, Same, Stays
<1>13. WorkInv'
  BY <1>12 DEF WorkInv
<1>14. CASE jobs[q] = <<>> /\ ~jobs_thread[q]
  <2> PICK m : m = Len(queue) + 1
    OBVIOUS
  <2>1. Idle(q) /\ nb[q] = 0
    BY <1>4, <1>5, <1>14 DEF IdleInv
  <2>2. /\ DOMAIN queue' = DOMAIN queue \cup {m} /\ m \notin DOMAIN queue
        /\ queue'[m] = e /\ \A i \in DOMAIN queue : queue'[i] = queue[i]
    <3>1. queue \in Seq([rank : Rank, job : Jobs]) /\ queue' = Append(queue, e)
      BY <1>3, <1>5, <1>14 DEF RankType
    <3>2. e \in [rank : Rank, job : Jobs]
      BY <1>4
    <3>3. QED
      BY <3>1, <3>2, AppendFacts
  <2>3. OneInv'
    <3>1. \A i, k \in DOMAIN queue' : queue'[i].rank = queue'[k].rank => i = k
      BY <1>5, <1>6, <2>1, <2>2 DEF OneInv, Idle
    <3>2. \A u, v \in Workers : HasList(u)' /\ HasList(v)' /\ wrank'[u] = wrank'[v] => u = v
      BY <1>3, <1>5, <1>12 DEF OneInv
    <3>3. \A i \in DOMAIN queue', v \in Workers : HasList(v)' => wrank'[v] # queue'[i].rank
      BY <1>3, <1>5, <1>6, <1>12, <2>1, <2>2 DEF OneInv, Idle
    <3>4. QED
      BY <3>1, <3>2, <3>3 DEF OneInv
  <2>4. ~Idle(q)' /\ \A r \in Rank \ {q} : Idle(r)' <=> Idle(r)
    BY <1>3, <1>6, <1>12, <2>2 DEF Idle
  <2>5. QueueInv'
    <3>1. \A i \in DOMAIN queue' :
            /\ jobs'[queue'[i].rank] # <<>>
            /\ queue'[i].job = Head(jobs'[queue'[i].rank])
            /\ Ready(queue'[i].job, queue'[i].rank)
      <4> SUFFICES ASSUME NEW i \in DOMAIN queue'
                   PROVE  /\ jobs'[queue'[i].rank] # <<>>
                          /\ queue'[i].job = Head(jobs'[queue'[i].rank])
                          /\ Ready(queue'[i].job, queue'[i].rank)
        OBVIOUS
      <4>1. CASE i = m
        BY <1>6, <1>7, <1>14, <2>1, <2>2, <4>1 DEF Ready
      <4>2. CASE i # m
        <5>1. i \in DOMAIN queue /\ queue[i].rank \in Rank \ {q} /\ queue'[i] = queue[i]
          BY <1>5, <2>1, <2>2, <4>2, EntryFacts DEF Idle
        <5>2. QED
          BY <1>8, <5>1 DEF HandInv, QueueInv
      <4>3. QED
        BY <4>1, <4>2
    <3>2. QED
      BY <1>3, <3>1 DEF QueueInv, Ready
  <2>6. IdleInv'
    <3>1. \A r \in Rank \ {q} : Parked(r)' <=> Parked(r)
      BY <1>3, <1>8 DEF Parked, CallOf, Single
    <3>2. QED
      BY <1>3, <1>5, <1>7, <1>8, <2>4, <3>1 DEF IdleInv
  <2>7. GatherInv'
    <3>1. ASSUME NEW r \in Rank
          PROVE  /\ Waits(r)' <=> Waits(r)
                 /\ Waits(r) => Head(jobs[r])' = Head(jobs[r])
      BY <1>8, <1>14, <2>4 DEF Waits
    <3>2. \A v \in Workers : Runs(v)' => Runs(v) /\ Stays(v) /\ IsJob(wjob[v], wrank[v])
      BY <1>12, RunsFacts
    <3>3. QED
      BY <1>3, <3>1, <3>2, GatherFrame
  <2>8. QED
    BY <1>9, <1>10, <1>11, <1>13, <2>3, <2>5, <2>6, <2>7 DEF HandInv
<1>15. CASE ~(jobs[q] = <<>> /\ ~jobs_thread[q])
  <2>1. queue' = queue
    BY <1>3, <1>15
  <2>2. OneInv' /\ \A r \in Rank : Idle(r)' <=> Idle(r)
    BY <1>3, <1>12, <2>1, HandKeep
  <2>3. jobs[q] # <<>> \/ ~Idle(q)
    BY <1>4, <1>5, <1>15 DEF IdleInv
  <2>4. ASSUME NEW r \in Rank, jobs[r] # <<>>
        PROVE  jobs'[r] # <<>> /\ Head(jobs'[r]) = Head(jobs[r])
    BY <1>7, <1>8, <2>4
  <2>5. QueueInv'
    <3>1. \A i \in DOMAIN queue : queue[i].rank \in Rank
      BY <1>5, EntryFacts
    <3>2. QED
      BY <1>3, <2>1, <2>4, <3>1 DEF HandInv, QueueInv, Ready
  <2>6. IdleInv'
    <3>1. ASSUME NEW r \in Rank, jobs[r] # <<>>
          PROVE  Parked(r)' <=> Parked(r)
      <4> PICK j : j = Head(jobs[r])
        OBVIOUS
      <4>1. Head(jobs'[r]) = j /\ CallOf(j)' = CallOf(j)
        BY <1>3, <2>4, <3>1 DEF CallOf
      <4>2. QED
        BY <4>1 DEF Parked, Single
    <3>2. QED
      BY <1>3, <1>5, <1>7, <1>8, <2>2, <2>3, <3>1 DEF IdleInv
  <2>7. GatherInv'
    <3>1. ASSUME NEW r \in Rank
          PROVE  /\ Waits(r)' <=> Waits(r)
                 /\ Waits(r) => Head(jobs[r])' = Head(jobs[r])
      BY <1>7, <1>8, <2>2, <2>3, <2>4 DEF Waits
    <3>2. \A v \in Workers : Runs(v)' => Runs(v) /\ Stays(v) /\ IsJob(wjob[v], wrank[v])
      BY <1>12, RunsFacts
    <3>3. QED
      BY <1>3, <3>1, <3>2, GatherFrame
  <2>8. QED
    BY <1>9, <1>10, <1>11, <1>13, <2>2, <2>5, <2>6, <2>7 DEF HandInv
<1>16. QED
  BY <1>14, <1>15

-----------------------------------------------------------------------------
(* A blocking single call: the ranks gather, and the last one has them all. *)

\* A step of one such call: the others neither gain nor lose a rank.
LEMMA GatherCall ==
  ASSUME HandInv, OrdinaryPrograms, calls' = calls, NEW b \in Apps, NEW k \in DOMAIN calls[b],
         \A a \in Apps : \A i \in DOMAIN calls[a] :
           Gathers(a, i) /\ ~(a = b /\ i = k) =>
             left'[a][i] = left[a][i] /\ At(a, i)' = At(a, i),
         Gathers(b, k) /\ left'[b][k] > 0 =>
           left'[b][k] + Cardinality(At(b, k))' = Len(calls[b][k].ranks),
         \A v \in Workers : Runs(v)' =>
           \/ RunOk(v)'
           \/ /\ Runs(v) /\ Stays(v) /\ IsJob(wjob[v], wrank[v])
              /\ ~(wjob[v].app = b /\ wjob[v].n = k)
  PROVE  GatherInv'
<1>1. \A a \in Apps : \A i \in DOMAIN calls[a] : Gathers(a, i)' <=> Gathers(a, i)
  BY DEF Gathers, Single
<1>2. GatherInv
  BY DEF HandInv
<1>3. ASSUME NEW a \in Apps, NEW i \in DOMAIN calls[a], Gathers(a, i)', left'[a][i] > 0
      PROVE  left'[a][i] + Cardinality(At(a, i))' = Len(calls[a][i].ranks)
  <2>1. Gathers(a, i)
    BY <1>1, <1>3
  <2>2. CASE a = b /\ i = k
    BY <1>3, <2>1, <2>2
  <2>3. CASE ~(a = b /\ i = k)
    <3>1. left'[a][i] = left[a][i] /\ At(a, i)' = At(a, i)
      BY <2>1, <2>3
    <3>2. left[a][i] + Cardinality(At(a, i)) = Len(calls[a][i].ranks)
      BY <1>2, <1>3, <2>1, <3>1 DEF GatherInv
    <3>3. QED
      BY <3>1, <3>2
  <2>4. QED
    BY <2>2, <2>3
<1>4. ASSUME NEW v \in Workers, Runs(v)'
      PROVE  RunOk(v)'
  <2> SUFFICES ASSUME Runs(v), Stays(v), IsJob(wjob[v], wrank[v]),
                      ~(wjob[v].app = b /\ wjob[v].n = k)
               PROVE  RunOk(v)'
    BY <1>4
  <2> PICK j : j = wjob[v]
    OBVIOUS
  <2>1. wjob[v] = j /\ wjob'[v] = j /\ wrank'[v] = wrank[v] /\ IsJob(j, wrank[v])
    BY DEF Stays
  <2>2. j.app \in Apps /\ j.n \in DOMAIN calls[j.app] /\ j.flags = CallOf(j).flags
    BY <2>1, JobFacts DEF IsJob, HandInv
  <2>3. Gathers(j.app, j.n)
    BY <2>1, <2>2 DEF Runs, Gathers, Blocking, CallOf, HandInv, WorkInv, WorkOk
  <2>4. left[j.app][j.n] < 1 /\ Range(CallOf(j).ranks) \ {wrank[v]} \subseteq At(j.app, j.n)
    BY <1>2, <2>1 DEF GatherInv, RunOk
  <2>5. At(j.app, j.n)' = At(j.app, j.n) /\ left'[j.app][j.n] = left[j.app][j.n]
    BY <2>1, <2>2, <2>3
  <2>6. Range(CallOf(j).ranks)' = Range(CallOf(j).ranks)
    BY DEF CallOf
  <2>7. (/\ left[j.app][j.n] < 1
         /\ Range(CallOf(j).ranks) \ {wrank[v]} \subseteq At(j.app, j.n))'
    BY <2>1, <2>4, <2>5, <2>6
  <2>8. QED
    BY <2>1, <2>7 DEF CallOf, At, RunOk
<1>5. QED
  BY <1>3, <1>4 DEF GatherInv

\* A worker that runs such a call is the only one, and has all its ranks.
LEMMA RunsAll ==
  ASSUME HandInv, OrdinaryPrograms, NEW w \in Workers, Runs(w)
  PROVE  /\ \A r \in Range(CallOf(wjob[w]).ranks) \ {wrank[w]} : Waits(r) /\ r \in Rank
         /\ \A v \in Workers \ {w} : Runs(v) =>
              ~(wjob[v].app = wjob[w].app /\ wjob[v].n = wjob[w].n)
<1>1. RunOk(w) /\ IsJob(wjob[w], wrank[w])
  BY RunsFacts DEF HandInv, GatherInv
<1> PICK j : j = wjob[w]
  OBVIOUS
<1>2. j.app \in Apps /\ j.n \in DOMAIN calls[j.app]
  BY <1>1, JobFacts DEF HandInv
<1>3. Range(CallOf(j).ranks) \subseteq Rank
  BY <1>2, CallFacts DEF HandInv, CallOf
<1>4. \A r \in Range(CallOf(j).ranks) \ {wrank[w]} : Waits(r) /\ r \in Rank
  BY <1>1, <1>3 DEF RunOk, At
<1>5. ASSUME NEW v \in Workers \ {w}, Runs(v), wjob[v].app = j.app, wjob[v].n = j.n
      PROVE  FALSE
  <2>1. HasList(v) /\ HasList(w) /\ IsJob(wjob[v], wrank[v])
    BY <1>5, RunsFacts
  <2>2. CallOf(wjob[v]) = CallOf(j)
    BY <1>5 DEF CallOf
  <2>3. wrank[v] \in Range(CallOf(j).ranks)
    BY <2>1, <2>2 DEF IsJob
  <2>4. wrank[v] # wrank[w]
    BY <2>1 DEF HandInv, OneInv
  <2>5. Idle(wrank[v])
    BY <1>4, <2>3, <2>4 DEF Waits
  <2>6. QED
    BY <2>1, <2>5 DEF Idle
<1>6. QED
  BY <1>4, <1>5

\* What is left of a sequence without its i-th element.
LEMMA RemoveFacts ==
  ASSUME NEW S, NEW s \in Seq(S), NEW i \in DOMAIN s,
         \A k, m \in 1 .. Len(s) : s[k] = s[m] => k = m,
         NEW rest, rest = RemoveAt(s, i)
  PROVE  /\ rest \in Seq(S)
         /\ Range(rest) = Range(s) \ {s[i]}
         /\ \A k, m \in DOMAIN rest : rest[k] = rest[m] => k = m
<1>1. i \in 1 .. Len(s) /\ Len(s) \in Nat
  OBVIOUS
<1>2. SubSeq(s, 1, i - 1) \in Seq(S) /\ Len(SubSeq(s, 1, i - 1)) = i - 1
      /\ \A k \in 1 .. i - 1 : SubSeq(s, 1, i - 1)[k] = s[k]
  BY <1>1
<1>3. SubSeq(s, i + 1, Len(s)) \in Seq(S) /\ Len(SubSeq(s, i + 1, Len(s))) = Len(s) - i
      /\ \A k \in 1 .. Len(s) - i : SubSeq(s, i + 1, Len(s))[k] = s[k + i]
  BY <1>1
<1>4. PICK x \in Seq(S), y \in Seq(S) :
        /\ rest = x \o y
        /\ Len(x) = i - 1 /\ Len(y) = Len(s) - i
        /\ \A k \in 1 .. i - 1 : x[k] = s[k]
        /\ \A k \in 1 .. Len(s) - i : y[k] = s[k + i]
  BY <1>2, <1>3, Zenon DEF RemoveAt
<1>5. rest \in Seq(S) /\ Len(rest) = Len(s) - 1 /\ DOMAIN rest = 1 .. Len(s) - 1
  <2>1. rest \in Seq(S) /\ Len(rest) = Len(s) - 1
    BY <1>1, <1>4
  <2>2. QED
    BY <1>1, <2>1
<1>6. ASSUME NEW k \in 1 .. Len(s) - 1
      PROVE  /\ k < i => rest[k] = s[k]
             /\ k >= i => rest[k] = s[k + 1]
  <2>1. CASE k < i
    <3>1. k \in 1 .. i - 1
      BY <1>1, <2>1
    <3>2. rest[k] = x[k]
      BY <1>1, <1>4, <3>1
    <3>3. QED
      BY <1>1, <1>4, <2>1, <3>1, <3>2
  <2>2. CASE k >= i
    <3>1. k - (i - 1) \in 1 .. Len(s) - i /\ k - (i - 1) + i = k + 1
      BY <1>1, <2>2
    <3>2. rest[k] = y[k - (i - 1)]
      <4>1. k \in Len(x) + 1 .. Len(x) + Len(y)
        BY <1>1, <1>4, <2>2
      <4>2. (x \o y)[k] = y[k - Len(x)]
        BY <4>1
      <4>3. QED
        BY <1>4, <4>2
    <3>3. y[k - (i - 1)] = s[k + 1]
      BY <1>4, <3>1
    <3>4. QED
      BY <1>1, <2>2, <3>2, <3>3
  <2>3. QED
    BY <1>1, <2>1, <2>2
<1>7. ASSUME NEW k \in 1 .. Len(s) - 1
      PROVE  \E u \in 1 .. Len(s) :
               rest[k] = s[u] /\ u # i /\ (k < i => u = k) /\ (k >= i => u = k + 1)
  <2>1. CASE k < i
    BY <1>1, <1>6, <2>1
  <2>2. CASE k >= i
    BY <1>1, <1>6, <2>2
  <2>3. QED
    BY <1>1, <2>1, <2>2
<1>8. \A k, m \in DOMAIN rest : rest[k] = rest[m] => k = m
  <2> SUFFICES ASSUME NEW k \in 1 .. Len(s) - 1, NEW m \in 1 .. Len(s) - 1, rest[k] = rest[m]
               PROVE  k = m
    BY <1>5
  <2>1. PICK u \in 1 .. Len(s) :
          rest[k] = s[u] /\ u # i /\ (k < i => u = k) /\ (k >= i => u = k + 1)
    BY <1>7
  <2>2. PICK v \in 1 .. Len(s) :
          rest[m] = s[v] /\ v # i /\ (m < i => v = m) /\ (m >= i => v = m + 1)
    BY <1>7
  <2>3. u = v
    BY <2>1, <2>2
  <2>4. QED
    BY <1>1, <2>1, <2>2, <2>3
<1>9. ASSUME NEW k \in 1 .. Len(s) - 1
      PROVE  rest[k] \in Range(s) \ {s[i]}
  <2>1. PICK u \in 1 .. Len(s) : rest[k] = s[u] /\ u # i
    BY <1>7
  <2>2. QED
    BY <1>1, <2>1 DEF Range
<1>10. ASSUME NEW u \in 1 .. Len(s), u # i
       PROVE  \E k \in DOMAIN rest : rest[k] = s[u]
  <2>1. CASE u < i
    <3>1. u \in 1 .. Len(s) - 1 /\ rest[u] = s[u]
      BY <1>1, <1>6, <2>1
    <3>2. QED
      BY <1>5, <3>1
  <2>2. CASE u > i
    <3>1. u - 1 \in 1 .. Len(s) - 1 /\ rest[u - 1] = s[u]
      BY <1>1, <1>6, <2>2
    <3>2. QED
      BY <1>5, <3>1
  <2>3. QED
    BY <1>1, <1>10, <2>1, <2>2
<1>11. Range(rest) = Range(s) \ {s[i]}
  BY <1>5, <1>9, <1>10 DEF Range
<1>12. QED
  BY <1>5, <1>8, <1>11

\* What the elements of u are when t has been added to s.
Joined(s, t, u) ==
  /\ Len(s) \in Nat
  /\ DOMAIN s \subseteq Nat /\ DOMAIN t \subseteq Nat
  /\ \A i \in DOMAIN s : i <= Len(s) /\ i \in DOMAIN u /\ u[i] = s[i]
  /\ \A i \in DOMAIN t : i > 0 /\ Len(s) + i \in DOMAIN u /\ u[Len(s) + i] = t[i]
  /\ \A k \in DOMAIN u : k \in DOMAIN s \/ \E i \in DOMAIN t : k = Len(s) + i

LEMMA JoinFacts ==
  ASSUME NEW S, NEW s \in Seq(S), NEW t \in Seq(S)
  PROVE  s \o t \in Seq(S) /\ Joined(s, t, s \o t)
<1>1. s \o t \in Seq(S) /\ Len(s \o t) = Len(s) + Len(t) /\ Len(s) \in Nat /\ Len(t) \in Nat
  OBVIOUS
<1>2. DOMAIN s = 1 .. Len(s) /\ DOMAIN t = 1 .. Len(t)
      /\ DOMAIN (s \o t) = 1 .. Len(s) + Len(t)
  BY <1>1
<1>3. \A i \in 1 .. Len(s) : (s \o t)[i] = s[i]
  OBVIOUS
<1>4. ASSUME NEW i \in 1 .. Len(t)
      PROVE  (s \o t)[Len(s) + i] = t[i]
  <2>1. Len(s) + i \in Len(s) + 1 .. Len(s) + Len(t) /\ (Len(s) + i) - Len(s) = i
    BY <1>1
  <2>2. (s \o t)[Len(s) + i] = t[(Len(s) + i) - Len(s)]
    BY <1>1, <2>1
  <2>3. QED
    BY <2>1, <2>2
<1>5. ASSUME NEW k \in 1 .. Len(s) + Len(t), k \notin 1 .. Len(s)
      PROVE  \E i \in 1 .. Len(t) : k = Len(s) + i
  <2>1. k - Len(s) \in 1 .. Len(t) /\ k = Len(s) + (k - Len(s))
    BY <1>1, <1>5
  <2>2. QED
    BY <2>1
<1>6. \A i \in 1 .. Len(t) : Len(s) + i \in 1 .. Len(s) + Len(t) /\ i > 0
  BY <1>1
<1>7. \A i \in 1 .. Len(s) : i <= Len(s) /\ i \in 1 .. Len(s) + Len(t)
  BY <1>1
<1>8. \A i \in DOMAIN t : /\ i > 0 /\ Len(s) + i \in DOMAIN (s \o t)
                           /\ (s \o t)[Len(s) + i] = t[i]
  BY <1>2, <1>4, <1>6
<1>9. \A k \in DOMAIN (s \o t) : k \in DOMAIN s \/ \E i \in DOMAIN t : k = Len(s) + i
  BY <1>2, <1>5
<1>10. DOMAIN s \subseteq Nat /\ DOMAIN t \subseteq Nat
  BY <1>2
<1>11. \A i \in DOMAIN s : i <= Len(s) /\ i \in DOMAIN (s \o t) /\ (s \o t)[i] = s[i]
  BY <1>2, <1>3, <1>7
<1>12. QED
  BY <1>1, <1>8, <1>9, <1>10, <1>11 DEF Joined

\* What the end of a blocking single call finds: the other ranks wait with its job at
\* their heads.
LEMMA GlobalFacts ==
  ASSUME HandInv, OrdinaryPrograms, NEW w \in Workers, wpc[w] = "global",
         NEW j, j = wjob[w], NEW q, q = wrank[w]
  PROVE  /\ HasHead(w) /\ HasList(w) /\ Runs(w) /\ IsJob(j, q)
         /\ j.kind = "callback" /\ Blocking(j) /\ Single(CallOf(j))
         /\ j.app \in Apps /\ j.n \in DOMAIN calls[j.app]
         /\ \A r \in Range(CallOf(j).ranks) \ {q} :
              /\ r \in Rank /\ r # q /\ Idle(r) /\ nb[r] = 0
              /\ jobs[r] \in Seq(Jobs) /\ jobs[r] # <<>>
              /\ Head(jobs[r]).app = j.app /\ Head(jobs[r]).n = j.n
<1>1. HasHead(w) /\ Runs(w) /\ HasList(w)
  BY DEF HasHead, Runs, HasList
<1>2. IsJob(j, q) /\ j.app \in Apps /\ j.n \in DOMAIN calls[j.app]
  BY <1>1, HeadFacts, JobFacts DEF HandInv
<1>3. j.kind = "callback" /\ Blocking(j) /\ Single(CallOf(j))
  BY DEF HandInv, WorkInv, WorkOk
<1>4. Range(CallOf(j).ranks) \subseteq Rank
  BY <1>2, CallFacts DEF HandInv, CallOf
<1>5. ASSUME NEW r \in Range(CallOf(j).ranks) \ {q}
      PROVE  /\ r \in Rank /\ r # q /\ Idle(r) /\ nb[r] = 0
             /\ jobs[r] \in Seq(Jobs) /\ jobs[r] # <<>>
             /\ Head(jobs[r]).app = j.app /\ Head(jobs[r]).n = j.n
  <2>1. RunOk(w)
    BY <1>1 DEF HandInv, GatherInv
  <2>2. Waits(r) /\ Head(jobs[r]).app = j.app /\ Head(jobs[r]).n = j.n
    BY <2>1, <1>5 DEF RunOk, At
  <2>3. r \in Rank /\ jobs[r] \in Seq(Jobs)
    BY <1>4 DEF HandInv, TypeInv, RankType
  <2>4. QED
    BY <1>5, <2>2, <2>3 DEF Waits, HandInv, IdleInv
<1>6. QED
  BY <1>1, <1>2, <1>3, <1>5

\* The other ranks, each once.
LEMMA OthersOf ==
  ASSUME NEW s \in Seq(Rank), NEW q \in Range(s),
         \A k, m \in 1 .. Len(s) : s[k] = s[m] => k = m,
         NEW others, others = AllBut(s, q)
  PROVE  /\ others \in Seq(Rank)
         /\ \A i, k \in DOMAIN others : others[i] = others[k] => i = k
         /\ Range(others) = Range(s) \ {q}
<1>1. \E i \in DOMAIN s : s[i] = q
  BY DEF Range
<1>2. PICK i : i = CHOOSE k \in DOMAIN s : s[k] = q
  OBVIOUS
<1>3. i \in DOMAIN s /\ s[i] = q
  BY <1>1, <1>2
<1>4. others = RemoveAt(s, i)
  BY <1>2, Zenon DEF AllBut
<1>5. QED
  BY <1>3, <1>4, RemoveFacts

\* The next job of every other rank goes into the work queue, if there is one.
LEMMA GlobalBlockInv ==
  ASSUME HandInv, OrdinaryPrograms, NEW w \in Workers, GlobalBlock(w), ~crashed'
  PROVE  HandInv'
<1> USE DEF appVars, callVars, slotVars, queueVars, workerVars, pollVars, rankVars, runVars,
            sleepVars
<1> PICK j : j = wjob[w]
  OBVIOUS
<1> PICK q : q = wrank[w]
  OBVIOUS
<1>a. PICK others : others = AllBut(CallOf(j).ranks, q)
  OBVIOUS
<1>b. PICK O : O = Range(others)
  OBVIOUS
<1>c. PICK new : new = [i \in DOMAIN others |->
                        [rank |-> others[i],
                         job  |-> NextJob(Tail(jobs[others[i]]), others[i])]]
  OBVIOUS
<1>1. /\ wpc[w] = "global" /\ wpc' = [wpc EXCEPT ![w] = "master"]
      /\ \A r \in O : jlock[r] = None
      /\ jobs' = [r \in Rank |-> IF r \in O THEN Tail(jobs[r]) ELSE jobs[r]]
      /\ queue' = queue \o new
      /\ \A r \in O : NextJob(Tail(jobs[r]), r) # NoJob
      /\ UNCHANGED <<calls, n, step, at, left, jobs_thread, jlock, wrank, wjob, was, hw, nb,
                     launched, active, rlock>>
  <2>1. UNCHANGED <<calls, n, step, at, left, jobs_thread, jlock, wrank, wjob, was, hw, nb,
                    launched, active, rlock>>
    BY DEF GlobalBlock
  <2>2. wpc[w] = "global" /\ wpc' = [wpc EXCEPT ![w] = "master"]
    BY DEF GlobalBlock, GotoW
  <2>3. /\ \A r \in Range(others) : jlock[r] = None
        /\ \A r \in Range(others) : NextJob(Tail(jobs[r]), r) # NoJob
        /\ queue' = queue \o new
    BY <1>a, <1>c, Zenon DEF GlobalBlock, MyRank
  <2>4. jobs' = [r \in Rank |-> IF r \in Range(others) THEN Tail(jobs[r]) ELSE jobs[r]]
    BY <1>a, Zenon DEF GlobalBlock, MyRank
  <2>5. QED
    BY <1>b, <2>1, <2>2, <2>3, <2>4
<1>2. TypeInv /\ AppType /\ RankType /\ WorkType /\ RunType /\ WorkOk(w) /\ OneInv
  BY DEF HandInv, TypeInv, WorkInv
<1>3. /\ HasHead(w) /\ HasList(w) /\ Runs(w) /\ IsJob(j, q)
      /\ j.kind = "callback" /\ Blocking(j) /\ Single(CallOf(j))
      /\ j.app \in Apps /\ j.n \in DOMAIN calls[j.app]
      /\ others \in Seq(Rank)
      /\ \A i, k \in DOMAIN others : others[i] = others[k] => i = k
      /\ O = Range(CallOf(j).ranks) \ {q}
      /\ \A r \in O : /\ r \in Rank /\ r # q /\ Idle(r) /\ nb[r] = 0
                      /\ jobs[r] \in Seq(Jobs) /\ jobs[r] # <<>>
                      /\ Head(jobs[r]).app = j.app /\ Head(jobs[r]).n = j.n
  <2>1. /\ HasHead(w) /\ HasList(w) /\ Runs(w) /\ IsJob(j, q)
        /\ j.kind = "callback" /\ Blocking(j) /\ Single(CallOf(j))
        /\ j.app \in Apps /\ j.n \in DOMAIN calls[j.app]
        /\ \A r \in Range(CallOf(j).ranks) \ {q} :
             /\ r \in Rank /\ r # q /\ Idle(r) /\ nb[r] = 0
             /\ jobs[r] \in Seq(Jobs) /\ jobs[r] # <<>>
             /\ Head(jobs[r]).app = j.app /\ Head(jobs[r]).n = j.n
    BY <1>1, GlobalFacts
  <2>2. PICK c : c = CallOf(j)
    OBVIOUS
  <2>3. c.ranks \in Seq(Rank) /\ \A k, m \in 1 .. Len(c.ranks) : c.ranks[k] = c.ranks[m] => k = m
    <3>1. j.app \in Apps /\ j.n \in DOMAIN calls[j.app] /\ TypeInv
      BY <1>2, <2>1
    <3>2. c = calls[j.app][j.n]
      BY <2>2 DEF CallOf
    <3>3. QED
      BY <3>1, <3>2, CallFacts
  <2>4. q \in Range(c.ranks)
    BY <2>1, <2>2 DEF IsJob
  <2>5. /\ others \in Seq(Rank)
        /\ \A i, k \in DOMAIN others : others[i] = others[k] => i = k
        /\ Range(others) = Range(c.ranks) \ {q}
    BY <1>a, <2>2, <2>3, <2>4, OthersOf
  <2>6. QED
    BY <1>b, <2>1, <2>2, <2>5
<1>4. q \in Rank
  BY <1>2 DEF WorkType
<1>5. ASSUME NEW r \in O
      PROVE  /\ jobs'[r] = Tail(jobs[r]) /\ Tail(jobs[r]) \in Seq(Jobs)
             /\ Tail(jobs[r]) # <<>> /\ Head(Tail(jobs[r])) \in Jobs
             /\ NextJob(Tail(jobs[r]), r) = Head(Tail(jobs[r]))
             /\ Ready(Head(Tail(jobs[r])), r)
             /\ \A i \in DOMAIN jobs'[r] : \E k \in DOMAIN jobs[r] : jobs'[r][i] = jobs[r][k]
  <2>1. r \in Rank /\ jobs[r] \in Seq(Jobs) /\ jobs[r] # <<>>
    BY <1>3, <1>5
  <2>2. jobs'[r] = Tail(jobs[r])
    BY <1>1, <1>5, <2>1
  <2>3. /\ Tail(jobs[r]) \in Seq(Jobs)
        /\ \A i \in DOMAIN Tail(jobs[r]) : i + 1 \in DOMAIN jobs[r]
                                           /\ Tail(jobs[r])[i] = jobs[r][i + 1]
    BY <2>1, TailFacts
  <2>4. /\ Tail(jobs[r]) # <<>> /\ Ready(Head(Tail(jobs[r])), r)
        /\ NextJob(Tail(jobs[r]), r) = Head(Tail(jobs[r]))
    BY <1>1, <1>2, <1>5, <2>1, <2>3, NextJobFacts
  <2>5. Head(Tail(jobs[r])) \in Jobs
    BY <2>3, <2>4, TailFacts
  <2>6. QED
    BY <2>2, <2>3, <2>4, <2>5
<1>6. \A r \in Rank \ O : jobs'[r] = jobs[r]
  BY <1>1
<1>7. /\ DOMAIN new = DOMAIN others
      /\ \A i \in DOMAIN new : new[i].rank \in O
      /\ \A i \in DOMAIN new : new[i].rank = others[i]
      /\ \A i \in DOMAIN new : new[i].job = Head(jobs'[new[i].rank])
      /\ \A i \in DOMAIN new : Ready(new[i].job, new[i].rank)
      /\ new \in Seq([rank : Rank, job : Jobs])
  <2>1. DOMAIN new = DOMAIN others /\ DOMAIN others = 1 .. Len(others)
    BY <1>3, <1>c
  <2>2. ASSUME NEW i \in DOMAIN new
        PROVE  /\ new[i].rank = others[i] /\ others[i] \in O
               /\ new[i].job = Head(Tail(jobs[others[i]]))
               /\ new[i] \in [rank : Rank, job : Jobs]
    <3>1. others[i] \in O
      BY <1>b, <2>1, <2>2 DEF Range
    <3>2. /\ others[i] \in Rank
          /\ NextJob(Tail(jobs[others[i]]), others[i]) = Head(Tail(jobs[others[i]]))
          /\ Head(Tail(jobs[others[i]])) \in Jobs
      BY <1>3, <1>5, <3>1
    <3>3. QED
      BY <1>c, <2>1, <2>2, <3>1, <3>2
  <2>3. new \in Seq([rank : Rank, job : Jobs])
    <3>1. Len(others) \in Nat
      BY <1>3
    <3>2. new = [i \in 1 .. Len(others) |-> new[i]]
      BY <1>c, <2>1
    <3>3. QED
      BY <2>1, <2>2, <3>1, <3>2
  <2>4. ASSUME NEW i \in DOMAIN new
        PROVE  /\ new[i].rank = others[i] /\ new[i].rank \in O
               /\ new[i].job = Head(jobs'[new[i].rank])
               /\ Ready(new[i].job, new[i].rank)
    <3>1. new[i].rank = others[i] /\ others[i] \in O
          /\ new[i].job = Head(Tail(jobs[others[i]]))
      BY <2>2, <2>4
    <3>2. jobs'[others[i]] = Tail(jobs[others[i]])
          /\ Ready(Head(Tail(jobs[others[i]])), others[i])
      BY <1>5, <3>1
    <3>3. QED
      BY <3>1, <3>2
  <2>5. QED
    BY <2>1, <2>3, <2>4
<1>8. /\ queue' \in Seq([rank : Rank, job : Jobs])
      /\ Len(queue) \in Nat
      /\ DOMAIN queue \subseteq Nat /\ DOMAIN new \subseteq Nat
      /\ \A i \in DOMAIN queue : /\ i <= Len(queue) /\ i \in DOMAIN queue'
                                 /\ queue'[i] = queue[i]
      /\ \A i \in DOMAIN new : /\ i > 0 /\ Len(queue) + i \in DOMAIN queue'
                               /\ queue'[Len(queue) + i] = new[i]
      /\ \A k \in DOMAIN queue' :
           k \in DOMAIN queue \/ \E i \in DOMAIN new : k = Len(queue) + i
  <2>1. queue \in Seq([rank : Rank, job : Jobs]) /\ new \in Seq([rank : Rank, job : Jobs])
    BY <1>2, <1>7 DEF RankType
  <2>2. queue' = queue \o new
    BY <1>1
  <2>3. queue' \in Seq([rank : Rank, job : Jobs]) /\ Joined(queue, new, queue')
    BY <2>1, <2>2, JoinFacts
  <2>4. QED
    BY <2>3 DEF Joined
<1>9. wpc'[w] = "master" /\ \A v \in Workers \ {w} : Same(v)
  BY <1>1, <1>2 DEF WorkType, Same, Stays
<1>10. HasList(w)' /\ HasHead(w)' /\ ~Runs(w)' /\ Locked(w)'
  BY <1>1, <1>3, <1>9 DEF HasList, HasHead, Runs, Locked, Blocking
<1>11. TypeInv'
  <2>1. AppType' /\ RunType'
    BY <1>1, <1>2 DEF AppType, RunType
  <2>2. jobs' \in [Rank -> Seq(Jobs)]
    BY <1>1, <1>2, <1>5 DEF RankType
  <2>3. RankType'
    BY <1>1, <1>2, <1>8, <2>2 DEF RankType
  <2>4. WorkType'
    BY <1>1, <1>2 DEF WorkType, Places
  <2>5. QED
    BY <2>1, <2>3, <2>4 DEF TypeInv
<1>12. LockInv'
  <2>1. rlock[q] = w
    BY <1>1 DEF HandInv, LockInv, Locked
  <2>2. QED
    BY <1>1, <1>9, <2>1, LockStep
<1>13. CallerInv' /\ ListInv'
  BY <1>1, <1>5, <1>6, ListStep
<1>14. RunInv'
  BY <1>1, <1>9, RunHands DEF Same, Stays, Sleeping
<1>15. ASSUME NEW v \in Workers \ {w}
       PROVE  WorkOk(v)' /\ (HasList(v)' <=> HasList(v)) /\ (Runs(v)' <=> Runs(v))
  <2>1. Same(v) /\ WorkOk(v) /\ wrank[v] \in Rank
    BY <1>2, <1>9 DEF HandInv, WorkInv, WorkType
  <2>2. (HasList(v)' <=> HasList(v)) /\ (Runs(v)' <=> Runs(v))
    BY <1>1, <2>1, SameFacts
  <2>3. CASE wrank[v] \in O
    <3>1. ~HasList(v)
      BY <1>3, <2>3 DEF Idle
    <3>2. wpc[v] \in Places
      BY <1>2 DEF WorkType
    <3>3. QED
      BY <1>1, <2>1, <2>2, <3>1, <3>2, NoList
  <2>4. CASE wrank[v] \notin O
    <3>1. SameRank(wrank[v])
      BY <1>1, <1>6, <2>1, <2>4 DEF SameRank
    <3>2. QED
      BY <1>1, <2>1, <2>2, <3>1, SameWork
  <2>5. QED
    BY <2>3, <2>4
<1>16. jobs'[q] = jobs[q]
  BY <1>3, <1>4, <1>6
<1>17. WorkOk(w)'
  <2>1. IsJob(j, q)'
    BY <1>1, <1>3 DEF IsJob, CallOf
  <2>2. jobs[q] # <<>> /\ j = Head(jobs[q]) /\ jobs_thread[q] /\ Ready(j, q)
    BY <1>1, <1>2, <1>3 DEF WorkOk
  <2>3. Ready(j, q)'
    BY <1>1, <2>2 DEF Ready
  <2>4. QED
    BY <1>1, <1>3, <1>9, <1>16, <2>1, <2>2, <2>3 DEF WorkOk
<1>18. WorkInv'
  BY <1>15, <1>17 DEF WorkInv
<1>19. \A i \in DOMAIN queue : queue[i].rank \in Rank \ O
  BY <1>2, <1>3, EntryFacts DEF Idle
<1>20. \A v \in Workers : HasList(v) => wrank[v] \in Rank \ O
  BY <1>2, <1>3 DEF Idle, WorkType
<1>21. \A v \in Workers : (HasList(v)' <=> HasList(v)) /\ wrank'[v] = wrank[v]
  BY <1>1, <1>3, <1>10, <1>15
<1>22. ASSUME NEW k \in DOMAIN queue'
       PROVE  \/ /\ k \in DOMAIN queue /\ queue'[k] = queue[k] /\ queue'[k].rank \in Rank \ O
                 /\ k \in Nat /\ k <= Len(queue)
              \/ \E i \in DOMAIN new :
                   /\ k = Len(queue) + i /\ queue'[k] = new[i] /\ queue'[k].rank \in O
                   /\ i \in Nat /\ i > 0
  <2>1. CASE k \in DOMAIN queue
    BY <1>8, <1>19, <2>1
  <2>2. CASE k \notin DOMAIN queue
    <3>1. PICK i \in DOMAIN new : k = Len(queue) + i
      BY <1>8, <2>2
    <3>2. queue'[k] = new[i] /\ i \in Nat /\ i > 0
      BY <1>8, <3>1
    <3>3. QED
      BY <1>7, <3>1, <3>2
  <2>3. QED
    BY <2>1, <2>2
<1>23. OneInv'
  <2>1. ASSUME NEW k \in DOMAIN queue', NEW m \in DOMAIN queue',
               queue'[k].rank = queue'[m].rank
        PROVE  k = m
    <3>1. CASE queue'[k].rank \in O
      <4>1. PICK i \in DOMAIN new : k = Len(queue) + i /\ queue'[k] = new[i]
        BY <1>22, <3>1
      <4>2. PICK x \in DOMAIN new : m = Len(queue) + x /\ queue'[m] = new[x]
        BY <1>22, <2>1, <3>1
      <4>3. i = x
        BY <1>3, <1>7, <2>1, <4>1, <4>2
      <4>4. QED
        BY <4>1, <4>2, <4>3
    <3>2. CASE queue'[k].rank \notin O
      <4>1. k \in DOMAIN queue /\ queue'[k] = queue[k]
        BY <1>22, <3>2
      <4>2. m \in DOMAIN queue /\ queue'[m] = queue[m]
        BY <1>22, <2>1, <3>2
      <4>3. QED
        BY <1>2, <2>1, <4>1, <4>2 DEF OneInv
    <3>3. QED
      BY <3>1, <3>2
  <2>2. \A u, v \in Workers : HasList(u)' /\ HasList(v)' /\ wrank'[u] = wrank'[v] => u = v
    BY <1>2, <1>21 DEF OneInv
  <2>3. ASSUME NEW k \in DOMAIN queue', NEW v \in Workers, HasList(v)'
        PROVE  wrank'[v] # queue'[k].rank
    <3>1. HasList(v) /\ wrank'[v] = wrank[v] /\ wrank[v] \in Rank \ O
      BY <1>20, <1>21, <2>3
    <3>2. CASE queue'[k].rank \in O
      BY <3>1, <3>2
    <3>3. CASE queue'[k].rank \notin O
      <4>1. k \in DOMAIN queue /\ queue'[k] = queue[k]
        BY <1>22, <3>3
      <4>2. QED
        BY <1>2, <3>1, <4>1 DEF OneInv
    <3>4. QED
      BY <3>2, <3>3
  <2>4. QED
    BY <2>1, <2>2, <2>3 DEF OneInv
<1>24. ASSUME NEW r \in O
       PROVE  ~Idle(r)'
  <2>1. PICK i \in DOMAIN others : others[i] = r
    BY <1>b, <1>24 DEF Range
  <2>2. i \in DOMAIN new /\ new[i].rank = r
    BY <1>7, <2>1
  <2>3. Len(queue) + i \in DOMAIN queue' /\ queue'[Len(queue) + i].rank = r
    BY <1>8, <2>2
  <2>4. QED
    BY <2>3 DEF Idle
<1>25. ASSUME NEW r \in Rank \ O
       PROVE  Idle(r)' <=> Idle(r)
  <2>1. (\A k \in DOMAIN queue' : queue'[k].rank # r) <=>
          (\A k \in DOMAIN queue : queue[k].rank # r)
    <3>1. ASSUME NEW k \in DOMAIN queue', queue'[k].rank = r
          PROVE  k \in DOMAIN queue /\ queue[k].rank = r
      BY <1>22, <1>25, <3>1
    <3>2. \A k \in DOMAIN queue : k \in DOMAIN queue' /\ queue'[k] = queue[k]
      BY <1>8
    <3>3. QED
      BY <3>1, <3>2
  <2>2. QED
    BY <1>21, <2>1 DEF Idle
<1>26. QueueInv'
  <2> SUFFICES ASSUME NEW k \in DOMAIN queue'
               PROVE  /\ jobs'[queue'[k].rank] # <<>>
                      /\ queue'[k].job = Head(jobs'[queue'[k].rank])
                      /\ Parallel(queue'[k].job) \/ nb[queue'[k].rank] = 0
    BY <1>1 DEF QueueInv, Ready
  <2>1. CASE queue'[k].rank \in O
    <3>1. PICK i \in DOMAIN new : queue'[k] = new[i]
      BY <1>22, <2>1
    <3>2. jobs'[queue'[k].rank] # <<>>
      BY <1>5, <2>1
    <3>3. QED
      BY <1>7, <3>1, <3>2 DEF Ready
  <2>2. CASE queue'[k].rank \notin O
    <3>1. k \in DOMAIN queue /\ queue'[k] = queue[k] /\ queue[k].rank \in Rank \ O
      BY <1>22, <2>2
    <3>2. jobs'[queue[k].rank] = jobs[queue[k].rank]
      BY <1>6, <3>1
    <3>3. QED
      BY <3>1, <3>2 DEF HandInv, QueueInv, Ready
  <2>3. QED
    BY <2>1, <2>2
<1>27. IdleInv'
  <2> SUFFICES ASSUME NEW r \in Rank
               PROVE  /\ Idle(r)' => nb[r] = 0
                      /\ Idle(r)' /\ jobs'[r] # <<>> => Parked(r)'
                      /\ jobs'[r] = <<>> => (Idle(r)' <=> ~jobs_thread[r])
    BY <1>1 DEF IdleInv
  <2>1. CASE r \in O
    BY <1>5, <1>24, <2>1
  <2>2. CASE r \notin O
    <3>1. (Idle(r)' <=> Idle(r)) /\ jobs'[r] = jobs[r]
      BY <1>6, <1>25, <2>2
    <3>2. Parked(r)' <=> Parked(r)
      BY <1>1, <3>1 DEF Parked, CallOf, Single
    <3>3. QED
      BY <3>1, <3>2 DEF HandInv, IdleInv
  <2>3. QED
    BY <2>1, <2>2
<1>28. GatherInv'
  <2>1. left[j.app][j.n] < 1
    BY <1>3 DEF HandInv, GatherInv, RunOk
  <2>2. ASSUME NEW a \in Apps, NEW i \in DOMAIN calls[a], ~(a = j.app /\ i = j.n)
        PROVE  At(a, i)' = At(a, i)
    <3>1. Range(calls[a][i].ranks) \subseteq Rank
      BY <1>2, CallFacts
    <3>2. PICK R : R = Range(calls[a][i].ranks)
      OBVIOUS
    <3>3. ASSUME NEW r \in R
          PROVE  (Waits(r) /\ Head(jobs[r]).app = a /\ Head(jobs[r]).n = i) <=>
                   (Waits(r)' /\ Head(jobs'[r]).app = a /\ Head(jobs'[r]).n = i)
      <4>1. r \in Rank
        BY <3>1, <3>2
      <4>2. CASE r \in O
        BY <1>3, <1>24, <2>2, <4>2 DEF Waits
      <4>3. CASE r \notin O
        BY <1>6, <1>25, <4>1, <4>3 DEF Waits
      <4>4. QED
        BY <4>2, <4>3
    <3>4. Range(calls[a][i].ranks)' = R
      BY <1>1, <3>2
    <3> HIDE DEF Waits
    <3>5. QED
      BY <3>2, <3>3, <3>4 DEF At
  <2>3. ASSUME NEW v \in Workers, Runs(v)'
        PROVE  /\ Runs(v) /\ Stays(v) /\ IsJob(wjob[v], wrank[v])
               /\ ~(wjob[v].app = j.app /\ wjob[v].n = j.n)
    <3>1. v # w /\ Runs(v) /\ Stays(v)
      BY <1>9, <1>10, <1>15, <2>3 DEF Same
    <3>2. IsJob(wjob[v], wrank[v])
      BY <3>1, RunsFacts
    <3>3. ~(wjob[v].app = j.app /\ wjob[v].n = j.n)
      BY <1>3, <3>1, RunsAll
    <3>4. QED
      BY <3>1, <3>2, <3>3
  <2>4. left' = left /\ calls' = calls
    BY <1>1
  <2>5. ~(left'[j.app][j.n] > 0)
    <3>1. left[j.app][j.n] \in Int
      BY <1>2, <1>3 DEF AppType
    <3>2. QED
      BY <2>1, <2>4, <3>1
  <2>6. QED
    BY <1>3, <2>2, <2>3, <2>4, <2>5, GatherCall
<1>29. QED
  BY <1>11, <1>12, <1>13, <1>14, <1>18, <1>23, <1>26, <1>27, <1>28 DEF HandInv

LEMMA RanksCount ==
  ASSUME NEW s \in Seq(Rank), \A k, m \in 1 .. Len(s) : s[k] = s[m] => k = m
  PROVE  IsFiniteSet(Range(s)) /\ Cardinality(Range(s)) = Len(s)
<1>1. Len(s) \in Nat /\ DOMAIN s = 1 .. Len(s)
  OBVIOUS
<1>2. IsFiniteSet(1 .. Len(s)) /\ Cardinality(1 .. Len(s)) = Len(s)
  BY <1>1, FS_Interval
<1>3. s \in Bijection(1 .. Len(s), Range(s))
  BY <1>1 DEF Bijection, Injection, Surjection, IsInjective, Range
<1>4. QED
  BY <1>2, <1>3, FS_Bijection DEF ExistsBijection

\* The ranks of a call that wait at it are among its ranks, and none of them is one
\* that a worker has.
LEMMA AtFacts ==
  ASSUME HandInv, OrdinaryPrograms, NEW a \in Apps, NEW i \in DOMAIN calls[a],
         NEW R, R = Range(calls[a][i].ranks)
  PROVE  /\ R \subseteq Rank /\ At(a, i) \subseteq R
         /\ IsFiniteSet(R) /\ Cardinality(R) = Len(calls[a][i].ranks)
         /\ IsFiniteSet(At(a, i)) /\ Cardinality(At(a, i)) \in Nat
         /\ \A r \in At(a, i) : Idle(r)
<1>1. PICK s : s = calls[a][i].ranks
  OBVIOUS
<1>2. s \in Seq(Rank) /\ (\A k, m \in 1 .. Len(s) : s[k] = s[m] => k = m) /\ R \subseteq Rank
  BY <1>1, CallFacts DEF HandInv
<1>3. IsFiniteSet(R) /\ Cardinality(R) = Len(calls[a][i].ranks)
  BY <1>1, <1>2, RanksCount
<1>4. At(a, i) \subseteq R /\ \A r \in At(a, i) : Idle(r)
  BY DEF At, Waits
<1>5. IsFiniteSet(At(a, i)) /\ Cardinality(At(a, i)) \in Nat
  BY <1>3, <1>4, FS_Subset, FS_CardinalityType
<1>6. QED
  BY <1>2, <1>3, <1>4, <1>5

\* A worker that comes to a blocking single call: nobody runs it yet.
LEMMA GatherFacts ==
  ASSUME HandInv, OrdinaryPrograms, NEW w \in Workers, wpc[w] = "job",
         NEW j, j = wjob[w], NEW q, q = wrank[w],
         j.kind = "callback", Single(CallOf(j)), Blocking(j)
  PROVE  /\ HasList(w) /\ HasHead(w) /\ rlock[q] = w /\ ~Idle(q) /\ nb[q] = 0
         /\ IsJob(j, q) /\ q \in Rank /\ jobs[q] # <<>> /\ j = Head(jobs[q])
         /\ j.app \in Apps /\ j.n \in DOMAIN calls[j.app] /\ left[j.app][j.n] \in Int
         /\ Gathers(j.app, j.n)
         /\ q \in Range(calls[j.app][j.n].ranks) /\ q \notin At(j.app, j.n)
         /\ left[j.app][j.n] > 0 =>
              left[j.app][j.n] + Cardinality(At(j.app, j.n)) = Len(calls[j.app][j.n].ranks)
         /\ \A v \in Workers : Runs(v) => ~(wjob[v].app = j.app /\ wjob[v].n = j.n)
<1>1. HasList(w) /\ HasHead(w) /\ Locked(w) /\ ~Runs(w)
  BY DEF HasList, HasHead, Locked, Runs
<1>2. rlock[q] = w /\ ~Idle(q)
  BY <1>1 DEF HandInv, LockInv, Idle
<1>3. IsJob(j, q) /\ q \in Rank /\ jobs[q] # <<>> /\ j = Head(jobs[q])
  BY <1>1, HeadFacts
<1>4. /\ j.app \in Apps /\ j.n \in DOMAIN calls[j.app] /\ ~Parallel(j)
  BY <1>3, JobFacts DEF HandInv
<1>5. nb[q] = 0
  BY <1>4 DEF HandInv, WorkInv, WorkOk, Ready
<1>6. left[j.app][j.n] \in Int
  BY <1>4 DEF HandInv, TypeInv, AppType
<1>7. Gathers(j.app, j.n) /\ q \in Range(calls[j.app][j.n].ranks)
  <2>1. CallOf(j) = calls[j.app][j.n]
    BY DEF CallOf
  <2>2. j.flags = CallOf(j).flags /\ q \in Range(CallOf(j).ranks)
    BY <1>3 DEF IsJob
  <2>3. Gathers(j.app, j.n)
    BY <2>1, <2>2 DEF Gathers, Blocking
  <2>4. QED
    BY <2>1, <2>2, <2>3
<1>8. q \notin At(j.app, j.n)
  BY <1>2 DEF At, Waits
<1>9. left[j.app][j.n] > 0 =>
        left[j.app][j.n] + Cardinality(At(j.app, j.n)) = Len(calls[j.app][j.n].ranks)
  BY <1>4, <1>7 DEF HandInv, GatherInv
<1>10. ASSUME NEW v \in Workers, Runs(v), wjob[v].app = j.app, wjob[v].n = j.n
       PROVE  FALSE
  <2>1. v # w /\ HasList(v)
    BY <1>1, <1>10, RunsFacts
  <2>2. wrank[v] # q
    BY <1>1, <2>1 DEF HandInv, OneInv
  <2>3. q \in Range(CallOf(wjob[v]).ranks) \ {wrank[v]}
    BY <1>7, <1>10, <2>2 DEF CallOf
  <2>4. Waits(q)
    BY <1>10, <2>3, RunsAll
  <2>5. QED
    BY <1>2, <2>4 DEF Waits
<1>11. \A v \in Workers : Runs(v) => ~(wjob[v].app = j.app /\ wjob[v].n = j.n)
  BY <1>10
<1>12. /\ HasList(w) /\ HasHead(w) /\ rlock[q] = w /\ ~Idle(q) /\ nb[q] = 0
       /\ j.app \in Apps /\ j.n \in DOMAIN calls[j.app]
  BY <1>1, <1>2, <1>4, <1>5
<1>13. QED
  BY <1>3, <1>6, <1>7, <1>8, <1>9, <1>11, <1>12, Zenon

\* One rank more waits, or none.
LEMMA AtGrows ==
  ASSUME HandInv, OrdinaryPrograms, calls' = calls, jobs' = jobs, NEW q \in Rank,
         \A r \in Rank : Waits(r)' <=> Waits(r) \/ r = q,
         NEW a \in Apps, NEW i \in DOMAIN calls[a]
  PROVE  /\ /\ q \in Range(calls[a][i].ranks)
            /\ Head(jobs[q]).app = a /\ Head(jobs[q]).n = i
            => At(a, i)' = At(a, i) \cup {q}
         /\ ~(Head(jobs[q]).app = a /\ Head(jobs[q]).n = i) => At(a, i)' = At(a, i)
<1>1. PICK R : R = Range(calls[a][i].ranks)
  OBVIOUS
<1>2. R \subseteq Rank
  BY <1>1, CallFacts DEF HandInv
<1>3. Range(calls[a][i].ranks)' = R
  BY <1>1
<1>4. At(a, i) = {r \in R : Waits(r) /\ Head(jobs[r]).app = a /\ Head(jobs[r]).n = i}
  BY <1>1 DEF At
<1>5. At(a, i)' = {r \in R : Waits(r)' /\ Head(jobs[r]).app = a /\ Head(jobs[r]).n = i}
  BY <1>3 DEF At
<1>6. \A r \in R : Waits(r)' <=> Waits(r) \/ r = q
  BY <1>2
<1> HIDE DEF Waits
<1>7. ASSUME q \in R, Head(jobs[q]).app = a, Head(jobs[q]).n = i
      PROVE  At(a, i)' = At(a, i) \cup {q}
  BY <1>4, <1>5, <1>6, <1>7
<1>8. ASSUME ~(Head(jobs[q]).app = a /\ Head(jobs[q]).n = i)
      PROVE  At(a, i)' = At(a, i)
  BY <1>4, <1>5, <1>6, <1>8
<1>9. QED
  BY <1>1, <1>7, <1>8

LEMMA AtStays ==
  ASSUME HandInv, OrdinaryPrograms, calls' = calls, jobs' = jobs,
         \A r \in Rank : Waits(r)' <=> Waits(r),
         NEW a \in Apps, NEW i \in DOMAIN calls[a]
  PROVE  At(a, i)' = At(a, i)
<1>1. PICK R : R = Range(calls[a][i].ranks)
  OBVIOUS
<1>2. R \subseteq Rank
  BY <1>1, CallFacts DEF HandInv
<1>3. Range(calls[a][i].ranks)' = R
  BY <1>1
<1>4. At(a, i) = {r \in R : Waits(r) /\ Head(jobs[r]).app = a /\ Head(jobs[r]).n = i}
  BY <1>1 DEF At
<1>5. At(a, i)' = {r \in R : Waits(r)' /\ Head(jobs[r]).app = a /\ Head(jobs[r]).n = i}
  BY <1>3 DEF At
<1>6. \A r \in R : Waits(r)' <=> Waits(r)
  BY <1>2
<1> HIDE DEF Waits
<1>7. QED
  BY <1>4, <1>5, <1>6

\* A rank that is not the last one waits without a worker; the last one goes on to take
\* every rank's mutex.
LEMMA CallbackGatherInv ==
  ASSUME HandInv, OrdinaryPrograms, NEW w \in Workers, Callback(w),
         Single(CallOf(wjob[w])), Blocking(wjob[w])
  PROVE  HandInv'
<1> USE DEF appVars, callVars, slotVars, queueVars, workerVars, pollVars, rankVars, runVars,
            sleepVars
<1> PICK j : j = wjob[w]
  OBVIOUS
<1> PICK q : q = wrank[w]
  OBVIOUS
<1> PICK b : b = j.app
  OBVIOUS
<1> PICK k : k = j.n
  OBVIOUS
<1>1. /\ wpc[w] = "job" /\ j.kind = "callback" /\ Told(j)
      /\ UNCHANGED <<calls, n, step, at, jobs, jobs_thread, jlock, queue, wrank, wjob,
                     was, hw, nb, launched, active>>
  BY DEF Callback, GotoW
<1>2. /\ HasList(w) /\ HasHead(w) /\ rlock[q] = w /\ ~Idle(q) /\ nb[q] = 0
      /\ IsJob(j, q) /\ q \in Rank /\ jobs[q] # <<>> /\ j = Head(jobs[q])
      /\ b \in Apps /\ k \in DOMAIN calls[b] /\ left[b][k] \in Int
  BY <1>1, GatherFacts
<1>a. b \in Apps /\ k \in DOMAIN calls[b] /\ left[b][k] \in Int
  BY <1>2
<1>b. q \in Range(calls[b][k].ranks) /\ q \notin At(b, k)
  BY <1>1, GatherFacts
<1>c. left[b][k] > 0 => left[b][k] + Cardinality(At(b, k)) = Len(calls[b][k].ranks)
  BY <1>1, GatherFacts
<1>d. \A v \in Workers : Runs(v) => ~(wjob[v].app = b /\ wjob[v].n = k)
  BY <1>1, GatherFacts
<1>e. CallOf(j) = calls[b][k] /\ Told(j) /\ Head(jobs[q]).app = b /\ Head(jobs[q]).n = k
  BY <1>1, <1>2 DEF CallOf
<1>3. TypeInv /\ AppType /\ RankType /\ WorkType /\ RunType /\ WorkOk(w)
  BY DEF HandInv, TypeInv, WorkInv
<1>4. "nonblocking" \notin CallOf(j).flags
  BY <1>2 DEF IsJob, Blocking
<1>5. PICK p \in {"idle", "lockall"} :
        /\ wpc' = [wpc EXCEPT ![w] = p]
        /\ p = "lockall" <=> left[b][k] = 1
        /\ rlock' = [rlock EXCEPT ![q] = IF p = "idle" THEN None ELSE w]
  <2> DEFINE isLast == Single(CallOf(j)) => left[b][k] = 1
  <2>1. /\ isLast => CallbackPc(CallOf(j), isLast) = "lockall"
        /\ ~isLast => CallbackPc(CallOf(j), isLast) = "idle"
    BY <1>4 DEF CallbackPc
  <2>2. /\ GotoW(w, "job", CallbackPc(CallOf(j), isLast))
        /\ rlock' = [rlock EXCEPT ![q] =
             IF CallbackPc(CallOf(j), isLast) \in {"idle", "detach"} THEN None ELSE w]
    BY DEF Callback, MyRank
  <2>3. isLast <=> left[b][k] = 1
    OBVIOUS
  <2> HIDE DEF isLast
  <2>4. QED
    BY <2>1, <2>2, <2>3 DEF GotoW
<1>6. /\ AppType'
      /\ left'[b][k] = left[b][k] - 1
      /\ \A a \in Apps : \A i \in DOMAIN calls[a] :
           ~(a = b /\ i = k) => left'[a][i] = left[a][i]
  <2>1. UNCHANGED <<calls, n, step, at>>
    BY <1>1
  <2>2. AppType' /\ \A a \in Apps : \A i \in DOMAIN calls[a] :
          /\ a = b /\ i = k => left'[a][i] = left[a][i] - 1
          /\ ~(a = b /\ i = k) => left'[a][i] = left[a][i]
    BY <1>e, <2>1, ToldTypes
  <2>3. QED
    BY <1>a, <2>2
<1>7. /\ wpc'[w] = p /\ wrank'[w] = q /\ wjob'[w] = j
      /\ rlock' \in [Rank -> Workers \cup {None}]
      /\ p = "lockall" => rlock'[q] = w
      /\ \A r \in Rank : rlock'[r] = rlock[r] \/ rlock[r] \in {None, w}
  BY <1>1, <1>2, <1>3, <1>5 DEF RankType, WorkType
<1>8. TypeInv'
  <2>1. RankType' /\ RunType'
    BY <1>1, <1>3, <1>7 DEF RankType, RunType
  <2>2. WorkType'
    BY <1>1, <1>3, <1>5 DEF WorkType, Places
  <2>3. QED
    BY <1>6, <2>1, <2>2 DEF TypeInv
<1>9. \A v \in Workers \ {w} : Same(v)
  BY <1>1, <1>3, <1>5 DEF WorkType, Same, Stays
<1>10. \A r \in Rank : SameRank(r)
  BY <1>1 DEF SameRank
<1>11. \A v \in Workers \ {w} : /\ WorkOk(v)'
                                /\ HasList(v)' <=> HasList(v)
                                /\ Runs(v)' => Runs(v) /\ IsJob(wjob[v], wrank[v])
  BY <1>1, <1>2, <1>9, <1>10, Others
<1>12. \A v \in Workers \ {w} : Runs(v)' =>
         /\ Runs(v) /\ Stays(v) /\ IsJob(wjob[v], wrank[v])
         /\ ~(wjob[v].app = b /\ wjob[v].n = k)
  BY <1>d, <1>9, <1>11 DEF Same
<1>13. LockInv'
  BY <1>1, <1>5, <1>7, <1>9, LockStep DEF Locked
<1>14. CallerInv' /\ ListInv'
  BY <1>1, ListStep
<1>15. RunInv'
  BY <1>1, <1>5, <1>7, <1>9, RunHands DEF Same, Stays, Sleeping
<1>16. QueueInv'
  BY <1>1 DEF HandInv, QueueInv, Ready
<1>17. \A r \in Rank : Parked(r)' <=> Parked(r)
  BY <1>1 DEF Parked, CallOf, Single
<1>19. CASE p = "idle"
  <2>1. ~HasList(w)' /\ ~HasHead(w)' /\ ~Runs(w)'
    BY <1>7, <1>19 DEF HasList, HasHead, Runs
  <2>2. OneInv' /\ \A r \in Rank : Idle(r)' <=> (Idle(r) \/ r = q)
    BY <1>1, <1>2, <1>9, <1>11, <2>1, HandOpen DEF Same, Stays
  <2>3. WorkInv'
    <3>1. WorkOk(w)'
      BY <1>7, <1>19, <2>1 DEF WorkOk
    <3>2. QED
      BY <1>11, <3>1 DEF WorkInv
  <2>4. IdleInv'
    <3>1. Parked(q)
      BY <1>1, <1>2 DEF Parked, Blocking
    <3>2. QED
      BY <1>1, <1>2, <1>17, <2>2, <3>1 DEF HandInv, IdleInv
  <2>5. \A r \in Rank : Waits(r)' <=> Waits(r) \/ r = q
    <3>1. jobs[q] # <<>>
      BY <1>2
    <3>2. UNCHANGED jobs
      BY <1>1
    <3>3. QED
      BY <2>2, <3>1, <3>2 DEF Waits
  <2>6. /\ At(b, k)' = At(b, k) \cup {q}
        /\ \A a \in Apps : \A i \in DOMAIN calls[a] : ~(a = b /\ i = k) =>
             At(a, i)' = At(a, i)
    <3>1. UNCHANGED <<calls, jobs>> /\ q \in Rank
      BY <1>1, <1>2
    <3>2. At(b, k)' = At(b, k) \cup {q}
      BY <1>a, <1>b, <1>e, <2>5, <3>1, AtGrows
    <3>3. ASSUME NEW a \in Apps, NEW i \in DOMAIN calls[a], ~(a = b /\ i = k)
          PROVE  At(a, i)' = At(a, i)
      <4>1. ~(Head(jobs[q]).app = a /\ Head(jobs[q]).n = i)
        BY <1>e, <3>3
      <4>2. QED
        BY <2>5, <3>1, <4>1, AtGrows
    <3>4. QED
      BY <3>2, <3>3
  <2>7. left'[b][k] > 0 =>
          left'[b][k] + Cardinality(At(b, k))' = Len(calls[b][k].ranks)
    <3>1. PICK A : A = At(b, k) /\ IsFiniteSet(A) /\ Cardinality(A) \in Nat
      BY <1>a, AtFacts
    <3>2. Cardinality(A \cup {q}) = Cardinality(A) + 1
      BY <1>b, <3>1, FS_AddElement
    <3>3. Cardinality(At(b, k))' = Cardinality(A) + 1
      BY <2>6, <3>1, <3>2
    <3>4. left[b][k] > 0 => left[b][k] + Cardinality(A) = Len(calls[b][k].ranks)
      BY <1>c, <3>1
    <3>5. left'[b][k] = left[b][k] - 1
      BY <1>6
    <3>6. QED
      BY <1>a, <3>1, <3>3, <3>4, <3>5
  <2>8. GatherInv'
    <3>1. \A v \in Workers : Runs(v)' =>
            /\ Runs(v) /\ Stays(v) /\ IsJob(wjob[v], wrank[v])
            /\ ~(wjob[v].app = b /\ wjob[v].n = k)
      BY <1>12, <2>1
    <3>2. \A a \in Apps : \A i \in DOMAIN calls[a] : ~(a = b /\ i = k) =>
            left'[a][i] = left[a][i] /\ At(a, i)' = At(a, i)
      BY <1>6, <2>6
    <3>3. QED
      BY <1>1, <1>a, <2>7, <3>1, <3>2, GatherCall
  <2>9. QED
    BY <1>8, <1>13, <1>14, <1>15, <1>16, <2>2, <2>3, <2>4, <2>8 DEF HandInv
<1>20. CASE p = "lockall"
  <2>1. HasList(w)' /\ HasHead(w)'
    BY <1>7, <1>20 DEF HasList, HasHead
  <2>2. OneInv' /\ \A r \in Rank : Idle(r)' <=> Idle(r)
    BY <1>1, <1>2, <1>9, <1>11, <2>1, HandKeep DEF Same, Stays
  <2>3. WorkInv'
    <3>1. WorkOk(w)'
      <4>1. CallOf(j)' = CallOf(j) /\ jobs_thread[q]
        BY <1>1, <1>2, <1>3 DEF CallOf, WorkOk
      <4>2. Single(CallOf(j))'
        BY <4>1 DEF Single
      <4>3. Ready(j, q)
        BY <1>1, <1>2, <1>3 DEF WorkOk
      <4>4. Ready(j, q)'
        BY <1>1, <4>3 DEF Ready
      <4>5. QED
        BY <1>1, <1>2, <1>7, <1>20, <4>1, <4>2, <4>4 DEF WorkOk, Blocking
    <3>2. QED
      BY <1>11, <3>1 DEF WorkInv
  <2>4. IdleInv'
    BY <1>1, <1>17, <2>2 DEF HandInv, IdleInv
  <2>5. \A a \in Apps : \A i \in DOMAIN calls[a] : At(a, i)' = At(a, i)
    <3>1. \A r \in Rank : Waits(r)' <=> Waits(r)
      BY <1>1, <2>2 DEF Waits
    <3>2. QED
      BY <1>1, <3>1, AtStays
  <2>6. RunOk(w)'
    <3>1. PICK R : R = Range(calls[b][k].ranks)
      OBVIOUS
    <3>2. PICK A : A = At(b, k)
      OBVIOUS
    <3>3. /\ A \subseteq R /\ IsFiniteSet(R) /\ IsFiniteSet(A) /\ Cardinality(A) \in Nat
          /\ Cardinality(R) = Len(calls[b][k].ranks)
      BY <1>a, <3>1, <3>2, AtFacts
    <3>4. left[b][k] = 1
      BY <1>5, <1>20
    <3>5. 1 + Cardinality(A) = Cardinality(R)
      BY <1>c, <3>2, <3>3, <3>4
    <3>6. q \in R /\ q \notin A
      BY <1>b, <3>1, <3>2
    <3>7. PICK T : T = R \ {q} /\ IsFiniteSet(T) /\ Cardinality(T) = Cardinality(R) - 1
      BY <3>3, <3>6, FS_RemoveElement
    <3>8. Cardinality(T) = Cardinality(A)
      <4>1. 1 + Cardinality(A) = Cardinality(R) /\ Cardinality(A) \in Nat
        BY <3>3, <3>5
      <4>2. Cardinality(T) = Cardinality(R) - 1
        BY <3>7
      <4>3. QED
        BY <4>1, <4>2
    <3>9. A \in SUBSET T
      BY <3>3, <3>6, <3>7
    <3>10. A = R \ {q}
      BY <3>7, <3>8, <3>9, FS_Subset
    <3>11. At(b, k)' = A
      BY <1>a, <2>5, <3>2
    <3>12. calls'[b][k] = calls[b][k] /\ wjob'[w] = j /\ wrank'[w] = q
      BY <1>1, <1>7
    <3>13. (CallOf(wjob[w]))' = calls[b][k]
      BY <3>12 DEF CallOf
    <3>14. left'[b][k] = left[b][k] - 1
      BY <1>6
    <3>15. left'[b][k] < 1
      BY <3>4, <3>14
    <3>16. (Range(CallOf(wjob[w]).ranks) \ {wrank[w]} \subseteq At(b, k))'
      BY <3>1, <3>10, <3>11, <3>12, <3>13
    <3>17. wjob'[w].app = b /\ wjob'[w].n = k
      BY <3>12
    <3>18. QED
      BY <3>12, <3>15, <3>16, <3>17 DEF RunOk, At
  <2>7. GatherInv'
    <3>1. \A a \in Apps : \A i \in DOMAIN calls[a] : ~(a = b /\ i = k) =>
            left'[a][i] = left[a][i] /\ At(a, i)' = At(a, i)
      BY <1>6, <2>5
    <3>2. ~(left'[b][k] > 0)
      <4>1. left[b][k] = 1 /\ left'[b][k] = left[b][k] - 1
        BY <1>5, <1>6, <1>20
      <4>2. QED
        BY <4>1
    <3>3. \A v \in Workers : Runs(v)' =>
            \/ RunOk(v)'
            \/ /\ Runs(v) /\ Stays(v) /\ IsJob(wjob[v], wrank[v])
               /\ ~(wjob[v].app = b /\ wjob[v].n = k)
      BY <1>12, <2>6
    <3>4. QED
      BY <1>1, <1>a, <3>1, <3>2, <3>3, GatherCall
  <2>8. QED
    BY <1>8, <1>13, <1>14, <1>15, <1>16, <2>2, <2>3, <2>4, <2>7 DEF HandInv
<1>21. QED
  BY <1>19, <1>20

-----------------------------------------------------------------------------
(* The theorems.                                                           *)

\* A worker about to execute a job has its rank, so nobody is to notice a run of it.
LEMMA HandSafe ==
  ASSUME HandInv
  PROVE  SerialJobsWait /\ AssertionsHold
<1>1. ASSUME NEW w \in Workers, wpc[w] = "job"
      PROVE  Ready(wjob[w], wrank[w])
  <2>1. WorkOk(w)
    BY DEF HandInv, WorkInv
  <2>2. QED
    BY <1>1, <2>1 DEF WorkOk
<1>2. ASSUME NEW w \in Workers, wpc[w] = "job", nb[wrank[w]] = 0
      PROVE  ~launched[wrank[w]]
  <2>1. HasList(w) /\ wpc[w] \notin Sleeping
    BY <1>2 DEF HasList, Sleeping
  <2>2. QED
    BY <1>2, <2>1, NotWatched
<1>3. \A w \in Workers : wpc[w] = "status" => launched[wrank[w]]
  BY DEF HandInv, RunInv
<1>4. SerialJobsWait
  BY <1>1 DEF SerialJobsWait, Ready, MyRank
<1>5. AssertionsHold
  BY <1>2, <1>3 DEF AssertionsHold, MyRank
<1>6. QED
  BY <1>4, <1>5

\* A null pointer in the queue: no other worker has moved.
LEMMA GlobalCrash ==
  ASSUME HandInv, NEW w \in Workers, GlobalBlock(w)
  PROVE  SerialJobsWait' /\ AssertionsHold'
<1> USE DEF appVars, callVars, slotVars, queueVars, workerVars, pollVars, rankVars, runVars,
            sleepVars
<1>1. wpc' = [wpc EXCEPT ![w] = "master"] /\ UNCHANGED <<wrank, wjob, nb, launched>>
  BY DEF GlobalBlock, GotoW
<1>2. wpc \in [Workers -> Places]
  BY DEF HandInv, TypeInv, WorkType
<1>3. \A v \in Workers : wpc'[v] \in {"job", "status"} => wpc[v] = wpc'[v]
  BY <1>1, <1>2
<1>4. SerialJobsWait /\ AssertionsHold
  BY HandSafe
<1>5. SerialJobsWait'
  BY <1>1, <1>3, <1>4 DEF SerialJobsWait, MyRank, Parallel
<1>6. AssertionsHold'
  BY <1>1, <1>3, <1>4 DEF AssertionsHold, MyRank
<1>7. QED
  BY <1>5, <1>6

LEMMA InitInv ==
  ASSUME Init, OrdinaryPrograms
  PROVE  HandInv
<1> USE DEF Init
<1>1. ASSUME NEW a \in Apps, NEW i \in DOMAIN calls[a]
      PROVE  /\ 1 \in DOMAIN calls[a]
             /\ calls[a][i] \in Calls
             /\ Len(calls[a][i].ranks) \in Nat \ {0}
  <2>1. calls[a] \in Seq(Calls) /\ calls[a] # <<>>
    BY ThreadJobAssumption
  <2>2. calls[a][i] \in Calls
    BY <2>1
  <2>3. calls[a][i].ranks \in Seq(Rank) \ {<<>>}
    BY <2>2 DEF Calls
  <2>4. QED
    BY <2>1, <2>2, <2>3
<1>2. \A a \in Apps : 1 \in DOMAIN calls[a]
  BY ThreadJobAssumption
<1>3. AppType
  <2>1. \A a \in Apps : left[a] = [i \in DOMAIN calls[a] |-> Len(calls[a][i].ranks)]
    OBVIOUS
  <2>2. \A a \in Apps : left[a] \in [DOMAIN calls[a] -> Int]
    BY <1>1, <2>1
  <2>3. QED
    BY <2>2 DEF AppType
<1>4. RankType
  <2>1. <<>> \in Seq(Jobs) /\ <<>> \in Seq([rank : Rank, job : Jobs])
    OBVIOUS
  <2>2. QED
    BY <2>1 DEF RankType
<1>5. WorkType
  BY ThreadJobAssumption DEF WorkType, Places, Rank
<1>6. RunType
  BY DEF RunType
<1>7. CallerInv
  <2>1. ASSUME NEW a \in Apps
        PROVE  at[a] <= Len(Call(a).ranks) /\ n[a] \in DOMAIN calls[a] /\ step[a] = "slots"
    BY <1>1, <1>2 DEF Call
  <2>2. QED
    BY <2>1 DEF CallerInv, CallerOk
<1>8. \A w \in Workers : wpc[w] = "idle" /\ ~HasList(w)
  BY DEF HasList
<1>9. ListInv
  BY DEF ListInv
<1>10. LockInv
  BY <1>8 DEF LockInv, Locked
<1>11. WorkInv
  BY <1>8 DEF WorkInv, WorkOk, HasHead
<1>12. QueueInv /\ OneInv
  BY <1>8 DEF QueueInv, OneInv
<1>13. IdleInv
  BY <1>8 DEF IdleInv, Idle
<1>14. RunInv
  BY <1>8 DEF RunInv
<1>15. GatherInv
  <2>1. ASSUME NEW a \in Apps, NEW i \in DOMAIN calls[a]
        PROVE  left[a][i] + Cardinality(At(a, i)) = Len(calls[a][i].ranks)
    <3>1. left[a][i] = Len(calls[a][i].ranks)
      OBVIOUS
    <3>2. Range(calls[a][i].ranks) \subseteq Rank
      BY <1>1 DEF Calls, Range
    <3>3. At(a, i) = {}
      BY <3>2 DEF At, Waits
    <3>4. Cardinality(At(a, i)) = 0
      BY <3>3, FS_EmptySet
    <3>5. QED
      BY <1>1, <3>1, <3>4
  <2>2. \A w \in Workers : ~Runs(w)
    BY <1>8 DEF Runs
  <2>3. QED
    BY <2>1, <2>2 DEF GatherInv
<1>16. QED
  BY <1>3, <1>4, <1>5, <1>6, <1>7, <1>9, <1>10, <1>11, <1>12, <1>13, <1>14, <1>15
  DEF HandInv, TypeInv

LEMMA WorkerInv ==
  ASSUME HandInv, OrdinaryPrograms, NEW w \in Workers, WorkerStep(w)
  PROVE  HandInv' \/ (crashed' /\ SerialJobsWait' /\ AssertionsHold')
<1>1. CASE Pick(w)
  BY <1>1, PickInv
<1>2. CASE LockRank(w)
  BY <1>2, LockRankInv
<1>3. CASE Compute(w)
  BY <1>3, ComputeInv, LaunchInv
<1>4. CASE Advance(w)
  BY <1>4, AdvanceInv
<1>5. CASE Fail(w)
  BY <1>5, FailInv
<1>6. CASE Leave(w)
  BY <1>6, LeaveInv
<1>7. CASE PollSelf(w)
  BY <1>7, PollSelfInv
<1>8. CASE FallAsleep(w)
  BY <1>8, FallAsleepInv
<1>9. CASE Wake(w)
  BY <1>9, WakeInv
<1>10. CASE Status(w)
  BY <1>10, StatusInv
<1>11. CASE NextAfterWake(w)
  BY <1>11, NextAfterWakeInv
<1>12. CASE Callback(w)
  BY <1>12, CallbackInv, CallbackGatherInv
<1>13. CASE Detach(w)
  BY <1>13, DetachInv
<1>14. CASE Requeue(w)
  BY <1>14, RequeueInv
<1>15. CASE LockAll(w)
  BY <1>15, LockAllInv
<1>16. CASE CallFunction(w)
  BY <1>16, CallFunctionInv
<1>17. CASE GlobalBlock(w)
  BY <1>17, GlobalBlockInv, GlobalCrash
<1>18. CASE ReleaseMaster(w)
  BY <1>18, ReleaseMasterInv
<1>19. QED
  BY <1>1, <1>2, <1>3, <1>4, <1>5, <1>6, <1>7, <1>8, <1>9, <1>10, <1>11, <1>12, <1>13,
     <1>14, <1>15, <1>16, <1>17, <1>18 DEF WorkerStep

LEMMA StutterInv ==
  ASSUME IInv, OrdinaryPrograms, UNCHANGED vars
  PROVE  IInv'
<1> USE DEF vars, appVars, callVars, slotVars, queueVars, workerVars, pollVars, rankVars,
            runVars, sleepVars
<1>1. CASE HandInv
  <2>1. TypeInv' /\ CallerInv' /\ RunInv'
    BY <1>1 DEF HandInv, TypeInv, AppType, RankType, WorkType, RunType, CallerInv, CallerOk,
                Call, RankAt, RunInv
  <2>2. QED
    BY <1>1, <2>1, CoreFrame DEF HandInv, IInv
<1>2. CASE crashed /\ SerialJobsWait /\ AssertionsHold
  BY <1>2 DEF IInv, SerialJobsWait, AssertionsHold, MyRank, Parallel
<1>3. QED
  BY <1>1, <1>2 DEF IInv

LEMMA NextInv ==
  ASSUME IInv, OrdinaryPrograms, [Next]_vars
  PROVE  IInv'
<1>1. CASE UNCHANGED vars
  BY <1>1, StutterInv
<1>2. CASE Next
  <2>1. ~crashed
    BY <1>2 DEF Next, AppStep, WorkerStep, DpuStops, PollerStep
  <2>2. HandInv
    BY <2>1 DEF IInv
  <2>3. ASSUME NEW a \in Apps, AppStep(a)
        PROVE  HandInv'
    BY <2>2, <2>3, WaitingInv, AddInv
  <2>4. ASSUME NEW w \in Workers, WorkerStep(w)
        PROVE  IInv'
    BY <2>2, <2>4, WorkerInv DEF IInv
  <2>5. ASSUME NEW r \in Rank, DpuStops(r)
        PROVE  HandInv'
    BY <2>2, <2>5, DpuStopsInv
  <2>6. ASSUME PollerStep
        PROVE  HandInv'
    BY <2>2, <2>6, PollerInv
  <2>7. QED
    BY <1>2, <2>3, <2>4, <2>5, <2>6 DEF Next, IInv
<1>3. QED
  BY <1>1, <1>2

LEMMA AtMostOne ==
  ASSUME NEW S, \A x, y \in S : x = y
  PROVE  /\ Cardinality(S) \in {0, 1}
         /\ Cardinality(S) = 0 <=> S = {}
<1>1. CASE S = {}
  BY <1>1, FS_EmptySet
<1>2. CASE S # {}
  <2>1. PICK x \in S : S = {x}
    BY <1>2
  <2>2. Cardinality({x}) = 1
    BY FS_Singleton
  <2>3. Cardinality(S) = 1
    BY <2>1, <2>2
  <2>4. QED
    BY <1>2, <2>3
<1>3. QED
  BY <1>1, <1>2

\* The hands of a rank: no two of the same kind, and not one of each.
LEMMA HandsFacts ==
  ASSUME HandInv, NEW r \in Rank
  PROVE  /\ Hands(r) \in {0, 1}
         /\ Hands(r) = 0 <=> Idle(r)
<1> DEFINE Q == {i \in DOMAIN queue : queue[i].rank = r}
           W == {w \in Workers : wrank[w] = r /\ HasList(w)}
<1>1. OneInv
  BY DEF HandInv
<1>2. \A x, y \in Q : x = y
  BY <1>1 DEF OneInv
<1>3. \A x, y \in W : x = y
  BY <1>1 DEF OneInv
<1>4. Q = {} \/ W = {}
  BY <1>1 DEF OneInv
<1>5. Idle(r) <=> Q = {} /\ W = {}
  BY DEF Idle
<1>6. /\ Cardinality(Q) \in {0, 1} /\ (Cardinality(Q) = 0 <=> Q = {})
      /\ Cardinality(W) \in {0, 1} /\ (Cardinality(W) = 0 <=> W = {})
  BY <1>2, <1>3, AtMostOne
<1>7. Hands(r) = Cardinality(Q) + Cardinality(W)
  BY DEF Hands
<1> HIDE DEF Q, W
<1>8. QED
  BY <1>4, <1>5, <1>6, <1>7

LEMMA InvSafe ==
  ASSUME IInv
  PROVE  SerialJobsWait /\ AssertionsHold /\ RankInOneHand
<1>1. CASE HandInv
  <2>1. ASSUME NEW r \in Rank
        PROVE  Hands(r) <= 1 /\ (jobs[r] # <<>> /\ ~Parked(r) => Hands(r) = 1)
    <3>1. Idle(r) /\ jobs[r] # <<>> => Parked(r)
      BY <1>1 DEF HandInv, IdleInv
    <3>2. QED
      BY <1>1, <3>1, HandsFacts
  <2>2. RankInOneHand
    BY <2>1 DEF RankInOneHand
  <2>3. QED
    BY <1>1, <2>2, HandSafe
<1>2. CASE crashed /\ SerialJobsWait /\ AssertionsHold
  BY <1>2 DEF RankInOneHand
<1>3. QED
  BY <1>1, <1>2 DEF IInv

\* In ordinary programs every rank's list, lock and DPUs fit what the queue, the workers
\* and the callers are about to do with them, at every step of dpu_thread_job.c and
\* dpu_polling.c until the null pointer of line 180, if a program meets it.
THEOREM ThreadJobInv ==
  ASSUME OrdinaryPrograms
  PROVE  FairSpec => []IInv
<1>1. Init => IInv
  BY InitInv DEF IInv
<1>2. IInv /\ [Next]_vars => IInv'
  BY NextInv
<1>3. QED
  BY <1>1, <1>2, PTL DEF FairSpec

\* In ordinary programs a job that is not parallel is executed only when no DPU of its
\* rank is known to run (dpu_thread_is_job_ready), also when it comes from the work queue.
\* It is not so when a parallel job fails or leaves its rank while DPUs run.
THEOREM SerialJobsAlwaysWait ==
  ASSUME OrdinaryPrograms
  PROVE  FairSpec => []SerialJobsWait
<1>1. FairSpec => []IInv
  BY ThreadJobInv
<1>2. IInv => SerialJobsWait
  BY InvSafe
<1>3. QED
  BY <1>1, <1>2, PTL

\* In ordinary programs no assertion of the library about the state of a rank's run fails:
\* the boot's (dpu_thread_job.c 215) and the one after a poll (434).
THEOREM AssertionsAlwaysHold ==
  ASSUME OrdinaryPrograms
  PROVE  FairSpec => []AssertionsHold
<1>1. FairSpec => []IInv
  BY ThreadJobInv
<1>2. IInv => AssertionsHold
  BY InvSafe
<1>3. QED
  BY <1>1, <1>2, PTL

\* In ordinary programs, however callers, workers and the polling thread interleave, a
\* rank's list has one owner until a null pointer ends the program: jobs_thread,
\* jobs_mutex and the work queue never give it to two, and lose none.  Parallel jobs that
\* fail, or callbacks that are parallel and nonblocking or single, are excluded: after
\* those, lines 398 and 315 leave a rank whose DPUs run to nobody.
THEOREM RankAlwaysInOneHand ==
  ASSUME OrdinaryPrograms
  PROVE  FairSpec => []RankInOneHand
<1>1. FairSpec => []IInv
  BY ThreadJobInv
<1>2. IInv => RankInOneHand
  BY InvSafe
<1>3. QED
  BY <1>1, <1>2, PTL

=============================================================================

------------------------- MODULE StratumPoolProofs -------------------------
(***************************************************************************)
(* The pool's registry, job histories, job ids, payees and statistics, for *)
(* every number of connections, names, runs and jobs.                      *)
(***************************************************************************)
EXTENDS StratumPool, TLAPS

\* The handler of the connection was started by the running process.
Live(c) == status[c] \in {"open", "closed"}

(***************************************************************************)
(* Nothing works for a connection of an earlier run or one that was never  *)
(* made: registry, broadcast round and suspended coroutines only name      *)
(* connections of the running process.                                     *)
(***************************************************************************)
WorkIsLive ==
  /\ \A n \in DOMAIN miners : Live(miners[n])
  /\ \A e \in todo : Live(e[2])
  /\ \A c \in Conns : task[c].conn = c /\ (task[c].pc # "read" => Live(c))
  /\ \A t \in Tasks : task[t].pc = "difficulty" =>
       task[t].conn \in Conns /\ Live(task[t].conn)
  /\ \A c \in Conns : status[c] = "new" => jobs[c] = <<>> /\ notified[c] = <<>>

\* The form in which the steps below use the constants' assumption.
LEMMA PoolFacts ==
  /\ Broadcaster \notin Conns /\ NoName \notin Names
  /\ Wallet \in [Names -> Addresses]
  /\ MaxHistory \in Nat /\ MaxTip \in Nat /\ MaxJobCounter \in Nat
  /\ \A r \in Runs : StartTime[r] % SessionMod \in Nat
  /\ POOL_ADDRESS \in Addresses
  /\ 1 \in Runs
<1>1. \A r \in Runs : StartTime[r] \in Nat /\ SessionMod \in Nat \ {0}
  BY PoolAssumption DEF Runs
<1>2. \A a \in Nat, b \in Nat \ {0} : a % b \in Nat
  OBVIOUS
<1> QED BY <1>1, <1>2, PoolAssumption DEF Addresses

\* Adding an entry to a registry keeps its type.
LEMMA WithTyped ==
  ASSUME NEW S, NEW V, NEW f, DOMAIN f \subseteq S, f \in [DOMAIN f -> V],
         NEW x \in S, NEW y \in V
  PROVE  /\ DOMAIN With(f, x, y) \subseteq S
         /\ With(f, x, y) \in [DOMAIN With(f, x, y) -> V]
  BY DEF With

\* Suspending a task, or moving its pc, keeps the tasks typed.
LEMMA TaskTyped ==
  ASSUME task \in [Tasks -> TaskStates], NEW t \in Tasks
  PROVE  /\ \A p \in Pcs : [task EXCEPT ![t].pc = p] \in [Tasks -> TaskStates]
         /\ \A x \in TaskStates : [task EXCEPT ![t] = x] \in [Tasks -> TaskStates]
         /\ \A p \in Pcs, c \in Tasks, j \in PendingJobs : Suspended(p, c, j) \in TaskStates
         /\ NoJob \in PendingJobs
<1>1. \A p \in Pcs : [task EXCEPT ![t].pc = p] \in [Tasks -> TaskStates]
  BY DEF TaskStates
<1>2. \A x \in TaskStates : [task EXCEPT ![t] = x] \in [Tasks -> TaskStates]
  OBVIOUS
<1>3. \A p \in Pcs, c \in Tasks, j \in PendingJobs : Suspended(p, c, j) \in TaskStates
  BY DEF TaskStates, Suspended
<1>4. NoJob \in PendingJobs
  BY PoolFacts DEF NoJob, PendingJobs
<1> QED BY <1>1, <1>2, <1>3, <1>4

\* What send_job stores is well formed.
LEMMA EntryTyped ==
  ASSUME TypeOK, NEW c \in Conns, NEW job \in PendingJobs, StoreJob(c, job)
  PROVE  /\ jobs' \in [Conns -> Seq(JobEntries)]
         /\ notified' \in [Conns -> Seq(Nat \X Nat)]
<1> DEFINE entry == [id |-> JobId(job.n), template |-> job.template,
                     payee |-> CoinbaseAddress(worker_name[c])]
<1>1. JobId(job.n) \in Nat \X Nat
  BY PoolFacts DEF TypeOK, JobId, SESSION_ID, PendingJobs
<1>2. CoinbaseAddress(worker_name[c]) \in Addresses
  BY PoolFacts DEF TypeOK, CoinbaseAddress, extract_miner_address
<1>3. entry \in JobEntries
  BY <1>1, <1>2 DEF JobEntries, PendingJobs
<1>4. jobs[c] \in Seq(JobEntries) /\ Len(jobs[c]) \in Nat
  BY DEF TypeOK
<1>5. MaxHistory \in Nat BY PoolFacts
<1>6. CASE Len(jobs[c]) > MaxHistory
  <2>1. Tail(jobs[c]) \in Seq(JobEntries)
    BY <1>4, <1>5, <1>6
  <2> QED BY <1>1, <1>3, <1>6, <2>1 DEF TypeOK, StoreJob
<1>7. CASE ~(Len(jobs[c]) > MaxHistory)
  BY <1>1, <1>3, <1>4, <1>7 DEF TypeOK, StoreJob
<1> QED BY <1>6, <1>7

\* Both outcomes of a call of send_job keep the types.
LEMMA SendJobTyped ==
  ASSUME TypeOK, NEW t \in Tasks, NEW c \in Conns, SendJob(t, c),
         todo' \subseteq Names \X Conns
  PROVE  TypeOK'
<1> DEFINE job == [n |-> job_counter[c] + 1, template |-> tip]
<1>0. c \in Tasks /\ NoJob \in PendingJobs
  BY PoolFacts DEF Tasks, NoJob, PendingJobs
<1>1. CASE SendJobStart(t, c)
  <2>1. job \in PendingJobs
    BY <1>1, PoolFacts DEF SendJobStart, TypeOK, PendingJobs
  <2>2. job_counter' \in [Conns -> 0..MaxJobCounter]
    <3>1. job_counter[c] + 1 \in 0..MaxJobCounter
      BY <1>1, PoolFacts DEF SendJobStart, TypeOK
    <3>2. job_counter' = [job_counter EXCEPT ![c] = job_counter[c] + 1]
      BY <1>1 DEF SendJobStart
    <3> QED BY <3>1, <3>2 DEF TypeOK
  <2>3. difficultySent' \in [Conns -> BOOLEAN]
    BY <1>1 DEF SendJobStart, TypeOK
  <2>4. /\ jobs' \in [Conns -> Seq(JobEntries)]
        /\ notified' \in [Conns -> Seq(Nat \X Nat)]
    <3>1. CASE difficultySent[c]
      BY <1>1, <2>1, <3>1, EntryTyped DEF SendJobStart
    <3>2. CASE ~difficultySent[c]
      BY <1>1, <3>2 DEF SendJobStart, TypeOK
    <3> QED BY <3>1, <3>2
  <2>5. task' \in [Tasks -> TaskStates]
    <3>1. task \in [Tasks -> TaskStates] /\ "drain" \in Pcs /\ "difficulty" \in Pcs
      BY DEF TypeOK, Pcs
    <3>2. \/ task' = [task EXCEPT ![t] = Suspended("drain", c, NoJob)]
          \/ task' = [task EXCEPT ![t] = Suspended("difficulty", c, job)]
      BY <1>1 DEF SendJobStart
    <3> QED BY <1>0, <2>1, <3>1, <3>2, TaskTyped
  <2> QED BY <2>2, <2>3, <2>4, <2>5
          DEF TypeOK, SendJob, nodeVars
<1>2. CASE SendJobFails(t)
  <2>1. task \in [Tasks -> TaskStates] /\ "drain" \in Pcs
    BY DEF TypeOK, Pcs
  <2>2. task' \in [Tasks -> TaskStates]
    BY <1>2, <2>1, TaskTyped DEF SendJobFails
  <2> QED BY <1>2, <2>2 DEF SendJob, SendJobFails, TypeOK, nodeVars
<1> QED BY <1>1, <1>2 DEF SendJob

\* Every action keeps the types.
LEMMA TypeStep == TypeOK /\ WorkIsLive /\ [Next]_vars => TypeOK'
<1> SUFFICES ASSUME TypeOK, WorkIsLive, [Next]_vars PROVE TypeOK'
  OBVIOUS
<1> USE DEF nodeVars, connVars, histVars
<1>0. /\ Broadcaster \in Tasks /\ Conns \subseteq Tasks /\ NoJob \in PendingJobs
      /\ Asleep \in TaskStates
      /\ \A c \in Conns : Idle(c) \in TaskStates
  <2>1. Broadcaster \in Tasks /\ Conns \subseteq Tasks  BY DEF Tasks
  <2>2. {"read", "sleep"} \subseteq Pcs  BY DEF Pcs
  <2> QED BY <2>1, <2>2, TaskTyped DEF TypeOK, Asleep, Idle
<1>1. CASE NodeAdvances
  BY <1>1, PoolFacts DEF NodeAdvances, TypeOK
<1>2. CASE Restart
  <2>1. miners' = <<>> /\ worker_stats' = <<>> /\ DOMAIN <<>> = {}
    BY <1>2 DEF Restart
  <2>2. /\ miners' \in [DOMAIN miners' -> Conns]
        /\ worker_stats' \in [DOMAIN worker_stats' -> [shares : Nat, best_diff : Nat]]
    BY <2>1
  <2>3. task' \in [Tasks -> TaskStates]
    BY <1>0, <1>2 DEF Restart, Tasks
  <2>4. jobs' \in [Conns -> Seq(JobEntries)] /\ run' \in Runs
    BY <1>2 DEF Restart
  <2>5. status' \in [Conns -> {"new", "open", "closed", "dead"}]
    BY <1>2 DEF Restart
  <2> QED BY <1>2, <2>1, <2>2, <2>3, <2>4, <2>5 DEF Restart, TypeOK
<1>3. ASSUME NEW c \in Conns, PeerStep(c) PROVE TypeOK'
  <2>1. CASE Connect(c)
    <3>1. status' \in [Conns -> {"new", "open", "closed", "dead"}]
      BY <2>1 DEF Connect, TypeOK
    <3> QED BY <2>1, <3>1 DEF Connect, TypeOK
  <2>2. ASSUME NEW to \in {"reads", "stalled", "gone"}, SetPeer(c, to) PROVE TypeOK'
    <3>1. peer' \in [Conns -> {"reads", "stalled", "gone"}]
      BY <2>2 DEF SetPeer, TypeOK
    <3> QED BY <2>2, <3>1 DEF SetPeer, TypeOK
  <2> QED BY <1>3, <2>1, <2>2 DEF PeerStep, PeerStalls, PeerResumes, PeerLeaves
<1>4. ASSUME NEW c \in Conns, ReplyOnly(c) \/ ResumeReading(c) PROVE TypeOK'
  <2>1. task \in [Tasks -> TaskStates] /\ "drain" \in Pcs /\ "read" \in Pcs
    BY DEF TypeOK, Pcs
  <2>2. task' \in [Tasks -> TaskStates]
    BY <1>0, <1>4, <2>1, TaskTyped DEF ReplyOnly, ResumeReading
  <2> QED BY <1>4, <2>2 DEF ReplyOnly, ResumeReading, TypeOK
<1>5. ASSUME NEW c \in Conns, NEW n \in Names, Authorize(c, n) PROVE TypeOK'
  <2>1. /\ DOMAIN miners' \subseteq Names /\ miners' \in [DOMAIN miners' -> Conns]
    BY <1>5 DEF Authorize, With, TypeOK
  <2>2. /\ DOMAIN worker_stats' \subseteq Names
        /\ worker_stats' \in [DOMAIN worker_stats' -> [shares : Nat, best_diff : Nat]]
    <3>1. NewStats \in [shares : Nat, best_diff : Nat]  BY DEF NewStats
    <3>2. CASE n \in DOMAIN worker_stats
      BY <1>5, <3>2 DEF Authorize, TypeOK
    <3>3. CASE n \notin DOMAIN worker_stats
      <4>1. worker_stats' = With(worker_stats, n, NewStats)
        BY <1>5, <3>3 DEF Authorize
      <4>2. /\ DOMAIN worker_stats \subseteq Names
            /\ worker_stats \in [DOMAIN worker_stats -> [shares : Nat, best_diff : Nat]]
        BY DEF TypeOK
      <4> DEFINE V == [shares : Nat, best_diff : Nat]
      <4>3. NewStats \in V /\ worker_stats \in [DOMAIN worker_stats -> V]
        BY <3>1, <4>2
      <4> HIDE DEF V
      <4>4. /\ DOMAIN worker_stats' \subseteq Names
            /\ worker_stats' \in [DOMAIN worker_stats' -> V]
        BY <4>1, <4>2, <4>3, WithTyped
      <4> QED BY <4>4 DEF V
    <3> QED BY <3>2, <3>3
  <2>3. task' \in [Tasks -> TaskStates]
    <3>1. task \in [Tasks -> TaskStates] /\ "send_job" \in Pcs
      BY DEF TypeOK, Pcs
    <3> QED BY <1>0, <1>5, <3>1, TaskTyped DEF Authorize
  <2>4. worker_name' \in [Conns -> Names \cup {NoName}] /\ names' \in [Conns -> SUBSET Names]
    BY <1>5 DEF Authorize, TypeOK
  <2> QED BY <1>5, <2>1, <2>2, <2>3, <2>4 DEF Authorize, TypeOK
<1>6. ASSUME NEW c \in Conns, NEW d \in Diffs, CountShare(c, d)
      PROVE  /\ DOMAIN worker_stats' \subseteq Names
             /\ worker_stats' \in [DOMAIN worker_stats' -> [shares : Nat, best_diff : Nat]]
  <2>1. d \in Nat  BY PoolAssumption
  <2>2. CASE worker_name[c] \in DOMAIN worker_stats
    <3> DEFINE w == worker_name[c]
               stats == [shares |-> worker_stats[w].shares + 1,
                         best_diff |-> IF d > worker_stats[w].best_diff
                                         THEN d ELSE worker_stats[w].best_diff]
    <3>1. worker_stats[w] \in [shares : Nat, best_diff : Nat]
      BY <2>2 DEF TypeOK
    <3>2. stats \in [shares : Nat, best_diff : Nat]
      BY <2>1, <3>1
    <3>3. worker_stats' = [worker_stats EXCEPT ![w] = stats]
      BY <1>6, <2>2, <3>1 DEF CountShare, TypeOK
    <3> QED BY <2>2, <3>2, <3>3 DEF TypeOK
  <2>3. CASE worker_name[c] \notin DOMAIN worker_stats
    BY <1>6, <2>3 DEF CountShare, TypeOK
  <2> QED BY <2>2, <2>3
<1>7. ASSUME NEW c \in Conns, NEW i \in DOMAIN jobs[c], NEW d \in Diffs, SubmitShare(c, i, d)
      PROVE  TypeOK'
  <2>1. CountShare(c, d)  BY <1>7 DEF SubmitShare
  <2>2. task' \in [Tasks -> TaskStates]
    <3>1. task \in [Tasks -> TaskStates] /\ {"drain", "send_job"} \subseteq Pcs
      BY DEF TypeOK, Pcs
    <3>2. \E p \in {"drain", "send_job"} : task' = [task EXCEPT ![c].pc = p]
      BY <1>7 DEF SubmitShare
    <3> QED BY <1>0, <3>1, <3>2, TaskTyped
  <2> QED BY <1>6, <1>7, <2>1, <2>2 DEF SubmitShare, TypeOK
<1>8. ASSUME NEW c \in Conns, NEW i \in DOMAIN jobs[c], NEW d \in Diffs,
             NEW a \in Answers, NEW up \in BOOLEAN, SubmitBlock(c, i, d, a, up)
      PROVE  TypeOK'
  <2>1. CountShare(c, d)  BY <1>8 DEF SubmitBlock
  <2>2. task' \in [Tasks -> TaskStates]
    <3>1. task \in [Tasks -> TaskStates] /\ {"drain", "send_job"} \subseteq Pcs
      BY DEF TypeOK, Pcs
    <3>2. \E p \in {"drain", "send_job"} : task' = [task EXCEPT ![c].pc = p]
      BY <1>8 DEF SubmitBlock
    <3> QED BY <1>0, <3>1, <3>2, TaskTyped
  <2>3. tip' \in 0..MaxTip
    BY <1>8, PoolFacts DEF SubmitBlock, TypeOK
  <2>4. UNCHANGED <<run, miners, connVars, todo, histVars>>
    BY <1>8 DEF SubmitBlock
  <2> QED BY <1>6, <2>1, <2>2, <2>3, <2>4 DEF TypeOK
<1>9. ASSUME NEW c \in Conns, ResumeHandler(c) PROVE TypeOK'
  BY <1>0, <1>9, SendJobTyped DEF ResumeHandler, TypeOK
<1>10. ASSUME NEW t \in Tasks, ResumeSendJob(t) PROVE TypeOK'
  <2> DEFINE c == task[t].conn
  <2>0. c \in Conns  BY <1>10 DEF WorkIsLive, ResumeSendJob
  <2>1. task[t].job \in PendingJobs  BY DEF TypeOK, TaskStates
  <2>2. StoreJob(c, task[t].job)  BY <1>10 DEF ResumeSendJob
  <2>3. /\ jobs' \in [Conns -> Seq(JobEntries)]
        /\ notified' \in [Conns -> Seq(Nat \X Nat)]
    BY <2>0, <2>1, <2>2, EntryTyped
  <2>4. task' \in [Tasks -> TaskStates]
    <3>1. task \in [Tasks -> TaskStates] /\ "drain" \in Pcs /\ c \in Tasks
      BY <1>0, <2>0 DEF TypeOK, Pcs
    <3>2. task' = [task EXCEPT ![t] = Suspended("drain", c, NoJob)]
      BY <1>10 DEF ResumeSendJob
    <3> QED BY <3>1, <3>2, TaskTyped
  <2> QED BY <1>10, <2>3, <2>4 DEF ResumeSendJob, TypeOK
<1>11. ASSUME NEW c \in Conns, HandlerEnds(c) PROVE TypeOK'
  <2>1. status' \in [Conns -> {"new", "open", "closed", "dead"}]
    BY <1>11 DEF HandlerEnds, TypeOK
  <2>2. DOMAIN miners' \subseteq Names /\ miners' \in [DOMAIN miners' -> Conns]
    BY <1>11 DEF HandlerEnds, Without, Restrict, TypeOK
  <2> QED BY <1>11, <2>1, <2>2 DEF HandlerEnds, TypeOK
<1>12. CASE BroadcasterWakes
  <2>1. todo' \subseteq Names \X Conns
    BY <1>12 DEF BroadcasterWakes, TypeOK
  <2>2. task' \in [Tasks -> TaskStates]
    <3>1. task \in [Tasks -> TaskStates] /\ {"sleep", "round"} \subseteq Pcs
      BY DEF TypeOK, Pcs
    <3>2. \E p \in {"sleep", "round"} : task' = [task EXCEPT ![Broadcaster].pc = p]
      BY <1>12 DEF BroadcasterWakes
    <3> QED BY <1>0, <3>1, <3>2, TaskTyped
  <2> QED BY <1>12, <2>1, <2>2 DEF BroadcasterWakes, TypeOK
<1>13. ASSUME NEW e \in todo, BroadcasterSends(e) PROVE TypeOK'
  <2>1. e[2] \in Conns /\ todo' \subseteq Names \X Conns
    BY <1>13 DEF BroadcasterSends, TypeOK
  <2> QED BY <1>0, <1>13, <2>1, SendJobTyped DEF BroadcasterSends
<1>14. CASE BroadcasterResumes
  <2>1. Suspended("round", Broadcaster, NoJob) \in
          TaskStates
    BY <1>0, TaskTyped DEF TypeOK, Pcs
  <2>2. task' \in [Tasks -> TaskStates]
    BY <1>0, <1>14, <2>1 DEF BroadcasterResumes, TypeOK
  <2> QED BY <1>14, <2>2 DEF BroadcasterResumes, TypeOK
<1>15. CASE UNCHANGED vars
  BY <1>15 DEF vars, TypeOK
<1> QED BY <1>0, <1>1, <1>2, <1>3, <1>4, <1>5, <1>7, <1>8, <1>9, <1>10, <1>11, <1>12,
           <1>13, <1>14, <1>15
        DEF Next, Request, HandlerStep, EndOfInput, BroadcasterStep

-----------------------------------------------------------------------------
\* send_job for a live connection leaves only live work behind.
LEMMA SendJobLive ==
  ASSUME TypeOK, WorkIsLive, NEW t \in Tasks, NEW c \in Conns, SendJob(t, c), Live(c),
         todo' \subseteq todo, t \in Conns => t = c
  PROVE  WorkIsLive'
<1> USE DEF nodeVars
<1>1. UNCHANGED <<miners, status>>  BY DEF SendJob
<1>2. /\ \A n \in DOMAIN miners' : Live(miners[n])'
      /\ \A e \in todo' : Live(e[2])'
  BY <1>1 DEF WorkIsLive, Live
<1>3. \A u \in Tasks \ {t} : task'[u] = task[u]
  BY DEF SendJob, SendJobStart, SendJobFails, TypeOK
<1>4. /\ task'[t].pc = "difficulty" => task'[t].conn = c
      /\ t \in Conns => task'[t].conn = c
  <2>1. CASE SendJobStart(t, c)
    BY <2>1 DEF SendJobStart, Suspended, TypeOK
  <2>2. CASE SendJobFails(t)
    <3>1. /\ task[t] \in TaskStates
          /\ task' = [task EXCEPT ![t].pc = "drain"]
      BY <2>2 DEF SendJobFails, TypeOK
    <3>2. task'[t].pc = "drain" /\ task'[t].conn = task[t].conn
      BY <3>1 DEF TypeOK, TaskStates
    <3> QED BY <3>2 DEF WorkIsLive
  <2> QED BY <2>1, <2>2 DEF SendJob
<1>5. \A d \in Conns : task'[d].conn = d /\ (task'[d].pc # "read" => Live(d)')
  BY <1>1, <1>3, <1>4 DEF WorkIsLive, Live, Tasks
<1>6. \A u \in Tasks : task'[u].pc = "difficulty" =>
        task'[u].conn \in Conns /\ Live(task[u].conn)'
  BY <1>1, <1>3, <1>4 DEF WorkIsLive, Live
<1>7. \A d \in Conns : status'[d] = "new" => jobs'[d] = <<>> /\ notified'[d] = <<>>
  <2>1. \A d \in Conns \ {c} : jobs'[d] = jobs[d] /\ notified'[d] = notified[d]
    BY DEF SendJob, SendJobStart, SendJobFails, StoreJob, TypeOK
  <2> QED BY <1>1, <2>1 DEF WorkIsLive, Live
<1> QED BY <1>2, <1>5, <1>6, <1>7 DEF WorkIsLive

\* Every action keeps the work live.
LEMMA LiveStep == TypeOK /\ WorkIsLive /\ [Next]_vars => WorkIsLive'
<1> SUFFICES ASSUME TypeOK, WorkIsLive, [Next]_vars PROVE WorkIsLive'
  OBVIOUS
<1> USE DEF nodeVars, connVars, histVars
<1>0. /\ Broadcaster \in Tasks /\ Conns \subseteq Tasks /\ Broadcaster \notin Conns
      /\ task \in [Tasks -> TaskStates] /\ \A t \in Tasks : task[t] \in TaskStates
  BY PoolFacts DEF Tasks, TypeOK
<1>a. ASSUME UNCHANGED <<miners, todo, task, status, jobs, notified>> PROVE WorkIsLive'
  BY <1>a DEF WorkIsLive, Live
<1>b. ASSUME NEW c \in Conns, Live(c), NEW p \in Pcs \ {"difficulty"},
             task' = [task EXCEPT ![c].pc = p],
             UNCHANGED <<miners, todo, status, jobs, notified>>
      PROVE  WorkIsLive'
  <2>1. task'[c].pc = p /\ task'[c].conn = task[c].conn
    BY <1>0, <1>b DEF TaskStates
  <2>2. \A u \in Tasks \ {c} : task'[u] = task[u]
    BY <1>0, <1>b
  <2>3. \A d \in Conns : task'[d].conn = d /\ (task'[d].pc # "read" => Live(d)')
    BY <1>0, <1>b, <2>1, <2>2 DEF WorkIsLive, Live
  <2>4. \A u \in Tasks : task'[u].pc = "difficulty" =>
          task'[u].conn \in Conns /\ Live(task[u].conn)'
    BY <1>0, <1>b, <2>1, <2>2 DEF WorkIsLive, Live
  <2> QED BY <1>b, <2>3, <2>4 DEF WorkIsLive, Live
<1>c. ASSUME NEW x \in TaskStates, x.pc # "difficulty",
             task' = [task EXCEPT ![Broadcaster] = x],
             UNCHANGED <<miners, status, jobs, notified>>,
             \A e \in todo' : Live(e[2])
      PROVE  WorkIsLive'
  <2>1. task'[Broadcaster] = x /\ \A u \in Conns : task'[u] = task[u]
    BY <1>0, <1>c
  <2> QED BY <1>0, <1>c, <2>1 DEF WorkIsLive, Live, Tasks
<1>1. CASE NodeAdvances
  BY <1>1, <1>a DEF NodeAdvances
<1>2. CASE Restart
  <2>1. /\ miners' = <<>> /\ todo' = {} /\ DOMAIN miners' = {}
        /\ task' = [t \in Tasks |-> IF t = Broadcaster THEN Asleep ELSE Idle(t)]
        /\ status' = [c \in Conns |-> IF status[c] = "new" THEN "new" ELSE "dead"]
        /\ jobs' = [c \in Conns |-> <<>>] /\ notified' = notified
    BY <1>2 DEF Restart
  <2>2. \A c \in Conns : task'[c] = Idle(c)
    BY <1>0, <2>1
  <2>3. \A c \in Conns : task'[c].conn = c /\ task'[c].pc = "read"
    <3>1. \A c \in Conns : Idle(c).conn = c /\ Idle(c).pc = "read"
      BY DEF Idle, Suspended
    <3> QED BY <2>2, <3>1
  <2>4. task'[Broadcaster].pc = "sleep"
    BY <1>0, <2>1 DEF Asleep, Suspended
  <2>5. \A c \in Conns : status'[c] = "new" => jobs'[c] = <<>> /\ notified'[c] = <<>>
    BY <2>1 DEF WorkIsLive
  <2> QED BY <2>1, <2>3, <2>4, <2>5 DEF WorkIsLive, Tasks
<1>3. ASSUME NEW c \in Conns, PeerStep(c) PROVE WorkIsLive'
  <2>1. CASE Connect(c)
    <3>1. \A d \in Conns : Live(d) => Live(d)'
      BY <2>1 DEF Connect, Live, TypeOK
    <3>2. \A d \in Conns : status'[d] = "new" => status[d] = "new"
      BY <2>1 DEF Connect, TypeOK
    <3>3. UNCHANGED <<miners, todo, task, jobs, notified>>
      BY <2>1 DEF Connect
    <3>4. \A n \in DOMAIN miners : miners[n] \in Conns
      BY DEF TypeOK
    <3>5. \A e \in todo : e[2] \in Conns
      BY DEF TypeOK
    <3> QED BY <3>1, <3>2, <3>3, <3>4, <3>5 DEF WorkIsLive, Live
  <2>2. CASE ~Connect(c)
    BY <1>3, <1>a, <2>2 DEF PeerStep, PeerStalls, PeerResumes, PeerLeaves, SetPeer
  <2> QED BY <2>1, <2>2
<1>4. ASSUME NEW c \in Conns, ReplyOnly(c) PROVE WorkIsLive'
  BY <1>4, <1>b DEF ReplyOnly, Reading, Live, Pcs
<1>5. ASSUME NEW c \in Conns, ResumeReading(c) PROVE WorkIsLive'
  <2>1. Live(c)  BY <1>5 DEF ResumeReading, WorkIsLive
  <2> QED BY <1>5, <1>b, <2>1 DEF ResumeReading, Pcs
<1>6. ASSUME NEW c \in Conns, NEW n \in Names, Authorize(c, n) PROVE WorkIsLive'
  <2>1. Live(c) /\ UNCHANGED <<status, todo, jobs, notified>>
        /\ task' = [task EXCEPT ![c].pc = "send_job"]
    BY <1>6 DEF Authorize, Reading, Live
  <2>2. \A m \in DOMAIN miners' : Live(miners[m])'
    BY <1>6, <2>1 DEF Authorize, With, WorkIsLive, Live
  <2>3. task'[c].pc = "send_job" /\ task'[c].conn = task[c].conn
    BY <1>0, <2>1 DEF TaskStates
  <2>4. \A u \in Tasks \ {c} : task'[u] = task[u]
    BY <1>0, <2>1
  <2> QED BY <1>0, <2>1, <2>2, <2>3, <2>4 DEF WorkIsLive, Live
<1>7. ASSUME NEW c \in Conns, NEW i \in DOMAIN jobs[c], NEW d \in Diffs, SubmitShare(c, i, d)
      PROVE  WorkIsLive'
  <2>1. \E p \in Pcs \ {"difficulty"} : task' = [task EXCEPT ![c].pc = p]
    <3>1. \E p \in {"drain"} : task' = [task EXCEPT ![c].pc = p]
      BY <1>7 DEF SubmitShare
    <3>2. {"drain"} \subseteq Pcs \ {"difficulty"}  BY DEF Pcs
    <3> QED BY <3>1, <3>2
  <2>2. Live(c) /\ UNCHANGED <<miners, todo, status, jobs, notified>>
    BY <1>7 DEF SubmitShare, Reading, Live
  <2> QED BY <1>b, <2>1, <2>2
<1>8. ASSUME NEW c \in Conns, NEW i \in DOMAIN jobs[c], NEW d \in Diffs,
             NEW a \in Answers, NEW up \in BOOLEAN, SubmitBlock(c, i, d, a, up)
      PROVE  WorkIsLive'
  <2>1. \E p \in Pcs \ {"difficulty"} : task' = [task EXCEPT ![c].pc = p]
    BY <1>8 DEF SubmitBlock, Pcs
  <2>2. Live(c) /\ UNCHANGED <<miners, todo, status, jobs, notified>>
    BY <1>8 DEF SubmitBlock, Reading, Live
  <2> QED BY <1>b, <2>1, <2>2
<1>9. ASSUME NEW c \in Conns, ResumeHandler(c) PROVE WorkIsLive'
  <2>1. Live(c)  BY <1>9 DEF ResumeHandler, WorkIsLive
  <2> QED BY <1>0, <1>9, <2>1, SendJobLive DEF ResumeHandler
<1>10. ASSUME NEW t \in Tasks, ResumeSendJob(t) PROVE WorkIsLive'
  <2> DEFINE c == task[t].conn
  <2>1. c \in Conns /\ Live(c) /\ UNCHANGED <<miners, todo, status>>
        /\ task' = [task EXCEPT ![t] = Suspended("drain", c, NoJob)]
        /\ StoreJob(c, task[t].job)
    BY <1>10 DEF ResumeSendJob, WorkIsLive
  <2> HIDE DEF c
  <2>2. task'[t].pc = "drain" /\ task'[t].conn = c /\ \A u \in Tasks \ {t} : task'[u] = task[u]
    BY <1>0, <2>1 DEF Suspended
  <2>3. t \in Conns => t = c
    BY DEF WorkIsLive, c
  <2>4. \A d \in Conns \ {c} : jobs'[d] = jobs[d] /\ notified'[d] = notified[d]
    BY <2>1 DEF StoreJob, TypeOK
  <2>5. \A d \in Conns : status'[d] = "new" => jobs'[d] = <<>> /\ notified'[d] = <<>>
    BY <2>1, <2>4 DEF WorkIsLive, Live
  <2>6. \A d \in Conns : task'[d].conn = d /\ (task'[d].pc # "read" => Live(d)')
    BY <1>0, <2>1, <2>2, <2>3 DEF WorkIsLive, Live
  <2>7. \A u \in Tasks : task'[u].pc = "difficulty" =>
          task'[u].conn \in Conns /\ Live(task[u].conn)'
    BY <2>1, <2>2 DEF WorkIsLive, Live
  <2> QED BY <2>1, <2>5, <2>6, <2>7 DEF WorkIsLive, Live
<1>11. ASSUME NEW c \in Conns, HandlerEnds(c) PROVE WorkIsLive'
  <2>1. \A d \in Conns : (Live(d) => Live(d)') /\ (status'[d] = "new" => status[d] = "new")
    BY <1>11 DEF HandlerEnds, Live, TypeOK
  <2>2. UNCHANGED <<todo, task, jobs, notified>>
    BY <1>11 DEF HandlerEnds
  <2>3. \A n \in DOMAIN miners' : n \in DOMAIN miners /\ miners'[n] = miners[n]
    BY <1>11 DEF HandlerEnds, Without, Restrict
  <2>4. /\ \A n \in DOMAIN miners : miners[n] \in Conns
        /\ \A e \in todo : e[2] \in Conns
    BY DEF TypeOK
  <2>5. \A n \in DOMAIN miners' : Live(miners[n])'
    BY <2>1, <2>3, <2>4 DEF WorkIsLive, Live
  <2> QED BY <2>1, <2>2, <2>4, <2>5 DEF WorkIsLive, Live
<1>12. CASE BroadcasterWakes
  <2>1. \E x \in TaskStates : x.pc # "difficulty" /\ task' = [task EXCEPT ![Broadcaster] = x]
    <3>1. PICK p \in {"sleep", "round"} : task' = [task EXCEPT ![Broadcaster].pc = p]
      BY <1>12 DEF BroadcasterWakes
    <3> DEFINE x == [task[Broadcaster] EXCEPT !.pc = p]
    <3>2. x \in TaskStates /\ x.pc = p
      BY <1>0 DEF TaskStates, Pcs
    <3>3. task' = [task EXCEPT ![Broadcaster] = x]
      BY <3>1
    <3> QED BY <3>2, <3>3
  <2>2. \A e \in todo' : Live(e[2])
    BY <1>12 DEF BroadcasterWakes, WorkIsLive
  <2> QED BY <1>12, <1>c, <2>1, <2>2 DEF BroadcasterWakes
<1>13. ASSUME NEW e \in todo, BroadcasterSends(e) PROVE WorkIsLive'
  <2>1. e[2] \in Conns /\ Live(e[2]) /\ todo' \subseteq todo
    BY <1>13 DEF BroadcasterSends, TypeOK, WorkIsLive
  <2> QED BY <1>0, <1>13, <2>1, SendJobLive DEF BroadcasterSends
<1>14. CASE BroadcasterResumes
  <2>1. \E x \in TaskStates : x.pc # "difficulty" /\ task' = [task EXCEPT ![Broadcaster] = x]
    <3>1. /\ Asleep \in TaskStates /\ Asleep.pc = "sleep"
          /\ Suspended("round", Broadcaster, NoJob) \in TaskStates
          /\ Suspended("round", Broadcaster, NoJob).pc = "round"
      BY <1>0, TaskTyped DEF Asleep, Suspended, Pcs
    <3> QED BY <1>14, <3>1 DEF BroadcasterResumes
  <2> QED BY <1>14, <1>c, <2>1 DEF BroadcasterResumes, WorkIsLive
<1>15. CASE UNCHANGED vars
  BY <1>15, <1>a DEF vars
<1> QED BY <1>0, <1>1, <1>2, <1>3, <1>4, <1>5, <1>6, <1>7, <1>8, <1>9, <1>10, <1>11, <1>12,
           <1>13, <1>14, <1>15
        DEF Next, Request, HandlerStep, EndOfInput, BroadcasterStep

-----------------------------------------------------------------------------
\* The history of one connection: the jobs kept are the end of those sent.
History(js, ids) ==
  /\ Len(js) = IF Len(ids) > MaxHistory + 1 THEN MaxHistory + 1 ELSE Len(ids)
  /\ \A i \in 1..Len(js) : js[i].id = ids[Len(ids) - Len(js) + i]

\* Evict, append and send keep the history of the connection served.
LEMMA StoreKeepsHistory ==
  ASSUME NEW js \in Seq(JobEntries), NEW ids \in Seq(Nat \X Nat), NEW e \in JobEntries,
         History(js, ids), MaxHistory \in Nat
  PROVE  History(Append(IF Len(js) > MaxHistory THEN Tail(js) ELSE js, e), Append(ids, e.id))
<1> DEFINE new == Append(IF Len(js) > MaxHistory THEN Tail(js) ELSE js, e)
           sent == Append(ids, e.id)
           m == Len(ids)
           k == Len(js)
<1>1. m \in Nat /\ k \in Nat /\ e.id \in Nat \X Nat  BY DEF JobEntries
<1>2. Len(sent) = m + 1 /\ sent[m + 1] = e.id /\ \A i \in 1..m : sent[i] = ids[i]
  BY <1>1
<1>3. CASE k > MaxHistory
  <2>1. k = MaxHistory + 1 /\ m >= MaxHistory + 1
    BY <1>1, <1>3 DEF History
  <2>2. Tail(js) \in Seq(JobEntries) /\ Len(Tail(js)) = MaxHistory
        /\ \A i \in 1..MaxHistory : Tail(js)[i] = js[i + 1]
    BY <1>1, <2>1
  <2>3. Len(new) = MaxHistory + 1 /\ new[MaxHistory + 1] = e
        /\ \A i \in 1..MaxHistory : new[i] = js[i + 1]
    BY <1>1, <1>3, <2>2
  <2>4. \A i \in 1..MaxHistory : js[i + 1].id = ids[m - (MaxHistory + 1) + (i + 1)]
    <3>1. \A i \in 1..MaxHistory : i + 1 \in 1..k
      BY <1>1, <2>1
    <3> QED BY <2>1, <3>1 DEF History
  <2>5. \A i \in 1..(MaxHistory + 1) : new[i].id = sent[m + 1 - (MaxHistory + 1) + i]
    <3> SUFFICES ASSUME NEW i \in 1..(MaxHistory + 1)
                 PROVE  new[i].id = sent[m + 1 - (MaxHistory + 1) + i]
      OBVIOUS
    <3>1. CASE i = MaxHistory + 1
      <4>1. m + 1 - (MaxHistory + 1) + i = m + 1  BY <1>1, <3>1
      <4> QED BY <1>2, <2>3, <3>1, <4>1
    <3>2. CASE i \in 1..MaxHistory
      <4>1. m + 1 - (MaxHistory + 1) + i = m - (MaxHistory + 1) + (i + 1)
            /\ m - (MaxHistory + 1) + (i + 1) \in 1..m
        BY <1>1, <2>1, <3>2
      <4> HIDE DEF new, sent, m, k
      <4> QED BY <1>2, <2>3, <2>4, <3>2, <4>1
    <3>3. i = MaxHistory + 1 \/ i \in 1..MaxHistory
      <4> HIDE DEF new, sent, m, k
      <4> QED OBVIOUS
    <3> QED BY <3>1, <3>2, <3>3
  <2>6. Len(sent) > MaxHistory + 1  BY <1>1, <1>2, <2>1
  <2> HIDE DEF new, sent, m, k
  <2>7. Len(new) = IF Len(sent) > MaxHistory + 1 THEN MaxHistory + 1 ELSE Len(sent)
    BY <2>3, <2>6
  <2>8. \A i \in 1..Len(new) : new[i].id = sent[Len(sent) - Len(new) + i]
    <3> SUFFICES ASSUME NEW i \in 1..Len(new)
                 PROVE  new[i].id = sent[Len(sent) - Len(new) + i]
      OBVIOUS
    <3>1. i \in 1..(MaxHistory + 1)  BY <2>3
    <3>a. Len(sent) = m + 1  BY <1>2
    <3>b. Len(new) = MaxHistory + 1  BY <2>3
    <3>2. Len(sent) - Len(new) = m + 1 - (MaxHistory + 1)  BY <1>1, <3>a, <3>b
    <3> QED BY <2>5, <3>1, <3>2
  <2> QED BY <2>7, <2>8 DEF History, new, sent
<1>4. CASE ~(k > MaxHistory)
  <2>1. k = m /\ m <= MaxHistory
    BY <1>1, <1>4 DEF History
  <2>2. Len(new) = m + 1 /\ new[m + 1] = e /\ \A i \in 1..m : new[i] = js[i]
    BY <1>1, <1>4, <2>1
  <2>3. \A i \in 1..m : js[i].id = ids[i]
    <3> SUFFICES ASSUME NEW i \in 1..m PROVE js[i].id = ids[i]
      OBVIOUS
    <3>1. js[i].id = ids[m - k + i]  BY <2>1 DEF History
    <3>2. m - k + i = i  BY <1>1, <2>1
    <3> QED BY <3>1, <3>2
  <2>4. \A i \in 1..(m + 1) : new[i].id = sent[i]
    <3> HIDE DEF new, sent, m, k
    <3> QED BY <1>1, <1>2, <2>2, <2>3
  <2> HIDE DEF new, sent, m, k
  <2>5. Len(new) = IF Len(sent) > MaxHistory + 1 THEN MaxHistory + 1 ELSE Len(sent)
    BY <1>1, <1>2, <2>1, <2>2
  <2>6. \A i \in 1..Len(new) : new[i].id = sent[Len(sent) - Len(new) + i]
    BY <1>1, <1>2, <2>2, <2>4
  <2> QED BY <2>5, <2>6 DEF History, new, sent
<1> QED BY <1>3, <1>4

\* StoreJob appends to the history of c and touches no other.
LEMMA StoreJobHistory ==
  ASSUME TypeOK, NEW c \in Conns, NEW job \in PendingJobs, StoreJob(c, job),
         History(jobs[c], notified[c])
  PROVE  /\ History(jobs'[c], notified'[c])
         /\ \A d \in Conns \ {c} : jobs'[d] = jobs[d] /\ notified'[d] = notified[d]
<1> DEFINE e == [id |-> JobId(job.n), template |-> job.template,
                 payee |-> CoinbaseAddress(worker_name[c])]
<1>1. JobId(job.n) \in Nat \X Nat
  BY PoolFacts DEF TypeOK, JobId, SESSION_ID, PendingJobs
<1>2. CoinbaseAddress(worker_name[c]) \in Addresses
  BY PoolFacts DEF TypeOK, CoinbaseAddress, extract_miner_address
<1>3. e \in JobEntries /\ e.id = JobId(job.n)
  BY <1>1, <1>2 DEF JobEntries, PendingJobs
<1>4. jobs[c] \in Seq(JobEntries) /\ notified[c] \in Seq(Nat \X Nat) /\ MaxHistory \in Nat
  BY PoolFacts DEF TypeOK
<1>5. /\ jobs'[c] = Append(IF Len(jobs[c]) > MaxHistory THEN Tail(jobs[c]) ELSE jobs[c], e)
      /\ notified'[c] = Append(notified[c], e.id)
  BY DEF StoreJob, TypeOK
<1>6. \A d \in Conns \ {c} : jobs'[d] = jobs[d] /\ notified'[d] = notified[d]
  BY DEF StoreJob, TypeOK
<1> HIDE DEF e
<1> QED BY <1>3, <1>4, <1>5, <1>6, StoreKeepsHistory

\* RecentJobsResolve, in terms of History.
LEMMA RecentIsHistory ==
  RecentJobsResolve <=> \A c \in Conns : status[c] # "dead" => History(jobs[c], notified[c])
BY DEF RecentJobsResolve, History

\* The only steps that touch histories are StoreJob's, and Restart's.
LEMMA HistoryStep ==
  ASSUME TypeOK, WorkIsLive, RecentJobsResolve, [Next]_vars
  PROVE  RecentJobsResolve'
<1> USE DEF nodeVars, connVars, histVars
<1>0. Broadcaster \in Tasks /\ Conns \subseteq Tasks  BY DEF Tasks
<1>h. \A c \in Conns : status[c] # "dead" => History(jobs[c], notified[c])
  BY RecentIsHistory
<1>s. SUFFICES \A c \in Conns : status'[c] # "dead" => History(jobs'[c], notified'[c])
  BY DEF RecentJobsResolve, History
<1>a. ASSUME UNCHANGED <<jobs, notified>>,
             \A c \in Conns : status'[c] # "dead" => status[c] # "dead"
      PROVE  \A c \in Conns : status'[c] # "dead" => History(jobs'[c], notified'[c])
  BY <1>a, <1>h
<1>b. ASSUME NEW c \in Conns, NEW job \in PendingJobs, StoreJob(c, job), Live(c),
             UNCHANGED status
      PROVE  \A d \in Conns : status'[d] # "dead" => History(jobs'[d], notified'[d])
  <2>1. History(jobs[c], notified[c])  BY <1>b, <1>h DEF Live
  <2>2. /\ History(jobs'[c], notified'[c])
        /\ \A d \in Conns \ {c} : jobs'[d] = jobs[d] /\ notified'[d] = notified[d]
    BY <1>b, <2>1, StoreJobHistory
  <2> QED BY <1>b, <1>h, <2>2
<1>c. ASSUME NEW t \in Tasks, NEW c \in Conns, SendJob(t, c), Live(c)
      PROVE  \A d \in Conns : status'[d] # "dead" => History(jobs'[d], notified'[d])
  <2>0. UNCHANGED status  BY <1>c DEF SendJob
  <2>1. CASE SendJobFails(t)
    BY <1>a, <2>0, <2>1 DEF SendJobFails
  <2>2. CASE SendJobStart(t, c)
    <3> DEFINE job == [n |-> job_counter[c] + 1, template |-> tip]
    <3>1. job \in PendingJobs
      BY <2>2, PoolFacts DEF SendJobStart, TypeOK, PendingJobs
    <3>2. CASE difficultySent[c]
      <4>1. StoreJob(c, job)  BY <2>2, <3>2 DEF SendJobStart
      <4> HIDE DEF job
      <4> QED BY <1>b, <1>c, <2>0, <3>1, <4>1
    <3>3. CASE ~difficultySent[c]
      BY <1>a, <2>0, <2>2, <3>3 DEF SendJobStart
    <3> QED BY <3>2, <3>3
  <2> QED BY <1>c, <2>1, <2>2 DEF SendJob
<1>1. CASE Restart
  <2>1. \A c \in Conns : status'[c] # "dead" =>
          /\ status[c] = "new"
          /\ jobs'[c] = <<>> /\ notified'[c] = notified[c]
    BY <1>1 DEF Restart
  <2>2. \A c \in Conns : status[c] = "new" => jobs[c] = <<>> /\ notified[c] = <<>>
    BY DEF WorkIsLive
  <2> QED BY <1>h, <2>1, <2>2
<1>2. CASE NodeAdvances  BY <1>2, <1>a DEF NodeAdvances
<1>3. ASSUME NEW c \in Conns, PeerStep(c)
      PROVE  \A d \in Conns : status'[d] # "dead" => History(jobs'[d], notified'[d])
  <2>1. UNCHANGED <<jobs, notified>>
    BY <1>3 DEF PeerStep, Connect, PeerStalls, PeerResumes, PeerLeaves, SetPeer
  <2>2. \A d \in Conns : status'[d] # "dead" => status[d] # "dead"
    BY <1>3 DEF PeerStep, Connect, PeerStalls, PeerResumes, PeerLeaves, SetPeer, TypeOK
  <2> QED BY <1>a, <2>1, <2>2
<1>4. ASSUME NEW c \in Conns, Request(c)
      PROVE  \A d \in Conns : status'[d] # "dead" => History(jobs'[d], notified'[d])
  <2>1. UNCHANGED <<jobs, notified>>
    BY <1>4 DEF Request, ReplyOnly, Authorize, SubmitShare, SubmitBlock, HandlerEnds
  <2>2. \A d \in Conns : status'[d] # "dead" => status[d] # "dead"
    BY <1>4 DEF Request, ReplyOnly, Authorize, SubmitShare, SubmitBlock, HandlerEnds, Reading,
                connVars, TypeOK
  <2> QED BY <1>a, <2>1, <2>2
<1>5. ASSUME NEW c \in Conns, ResumeHandler(c)
      PROVE  \A d \in Conns : status'[d] # "dead" => History(jobs'[d], notified'[d])
  <2>1. Live(c)  BY <1>5 DEF ResumeHandler, WorkIsLive
  <2> QED BY <1>0, <1>5, <1>c, <2>1 DEF ResumeHandler
<1>6. ASSUME NEW t \in Tasks, ResumeSendJob(t)
      PROVE  \A d \in Conns : status'[d] # "dead" => History(jobs'[d], notified'[d])
  <2>1. task[t].job \in PendingJobs  BY DEF TypeOK, TaskStates
  <2>2. /\ task[t].conn \in Conns /\ Live(task[t].conn)
        /\ StoreJob(task[t].conn, task[t].job) /\ UNCHANGED status
    BY <1>6 DEF ResumeSendJob, WorkIsLive
  <2> QED BY <1>b, <2>1, <2>2
<1>7. ASSUME NEW c \in Conns, ResumeReading(c)
      PROVE  \A d \in Conns : status'[d] # "dead" => History(jobs'[d], notified'[d])
  BY <1>7, <1>a DEF ResumeReading
<1>8. ASSUME NEW c \in Conns, HandlerEnds(c)
      PROVE  \A d \in Conns : status'[d] # "dead" => History(jobs'[d], notified'[d])
  <2>1. \A d \in Conns : status'[d] # "dead" => status[d] # "dead"
    BY <1>8 DEF HandlerEnds, Reading, TypeOK
  <2> QED BY <1>8, <1>a, <2>1 DEF HandlerEnds
<1>9. CASE BroadcasterWakes \/ BroadcasterResumes
  BY <1>9, <1>a DEF BroadcasterWakes, BroadcasterResumes
<1>10. ASSUME NEW e \in todo, BroadcasterSends(e)
       PROVE  \A d \in Conns : status'[d] # "dead" => History(jobs'[d], notified'[d])
  <2>1. e[2] \in Conns /\ Live(e[2])
    BY <1>10 DEF TypeOK, WorkIsLive
  <2> QED BY <1>0, <1>10, <1>c, <2>1 DEF BroadcasterSends
<1>11. CASE UNCHANGED vars  BY <1>11, <1>a DEF vars
<1> QED BY <1>0, <1>1, <1>2, <1>3, <1>4, <1>5, <1>6, <1>7, <1>8, <1>9, <1>10, <1>11
        DEF Next, HandlerStep, EndOfInput, BroadcasterStep

\* The initial state.
LEMMA PoolInit == Init => TypeOK /\ WorkIsLive /\ RecentJobsResolve
<1> SUFFICES ASSUME Init PROVE TypeOK /\ WorkIsLive /\ RecentJobsResolve
  OBVIOUS
<1>1. TypeOK
  <2>1. DOMAIN <<>> = {} /\ <<>> \in [{} -> Conns]
        /\ <<>> \in [{} -> [shares : Nat, best_diff : Nat]]
    OBVIOUS
  <2>2. NoJob \in PendingJobs
    BY PoolFacts DEF NoJob, PendingJobs
  <2>3. Asleep \in TaskStates /\ \A c \in Conns : Idle(c) \in TaskStates
    BY <2>2 DEF Asleep, Idle, Suspended, TaskStates, Pcs, Tasks
  <2>4. task \in [Tasks -> TaskStates]
    BY <2>3 DEF Init, Tasks
  <2> QED BY <2>1, <2>4, PoolFacts DEF Init, TypeOK
<1>2. WorkIsLive
  <2>1. DOMAIN miners = {} /\ todo = {}  BY DEF Init
  <2>2. \A c \in Conns : Idle(c).conn = c /\ Idle(c).pc = "read"
    BY DEF Idle, Suspended
  <2>3. Asleep.pc = "sleep"  BY DEF Asleep, Suspended
  <2>4. \A c \in Conns : task[c] = Idle(c)
    BY PoolFacts DEF Init, Tasks
  <2>5. task[Broadcaster] = Asleep
    BY DEF Init, Tasks
  <2>6. \A c \in Conns : jobs[c] = <<>> /\ notified[c] = <<>>
    BY DEF Init
  <2> QED BY <2>1, <2>2, <2>3, <2>4, <2>5, <2>6 DEF WorkIsLive, Tasks
<1>3. RecentJobsResolve
  <2>1. \A c \in Conns : jobs[c] = <<>> /\ notified[c] = <<>>
    BY DEF Init
  <2>2. Len(<<>>) = 0 /\ ~(0 > MaxHistory + 1) /\ 1..0 = {}
    BY PoolFacts
  <2>3. \A c \in Conns : Len(jobs[c]) = 0 /\ Len(notified[c]) = 0
    BY <2>1, <2>2
  <2> QED BY <2>2, <2>3 DEF RecentJobsResolve
<1> QED BY <1>1, <1>2, <1>3

(***************************************************************************)
(* Type correctness and liveness of the work: for any number of            *)
(* connections, names, restarts and jobs, registry, round and coroutines   *)
(* name connections of the running process only.                           *)
(***************************************************************************)
THEOREM PoolTypeCorrect == Spec => [](TypeOK /\ WorkIsLive)
<1>1. Init => TypeOK /\ WorkIsLive  BY PoolInit
<1>2. TypeOK /\ WorkIsLive /\ [Next]_vars => (TypeOK /\ WorkIsLive)'
  BY TypeStep, LiveStep
<1> QED BY <1>1, <1>2, PTL DEF Spec

(***************************************************************************)
(* The variables of pool_v8.py keep their types, for any number of         *)
(* connections, names, restarts and jobs.                                  *)
(***************************************************************************)
THEOREM TypeCorrect == Spec => []TypeOK
<1> QED BY PoolTypeCorrect, PTL

(***************************************************************************)
(* A connection keeps exactly its last MaxHistory + 1 jobs, whatever the   *)
(* interleaving of its handler and the broadcaster.                        *)
(***************************************************************************)
THEOREM HistoryCorrect == Spec => []RecentJobsResolve
<1>1. Init => RecentJobsResolve  BY PoolInit
<1>2. TypeOK /\ WorkIsLive /\ RecentJobsResolve /\ [Next]_vars => RecentJobsResolve'
  BY HistoryStep
<1> QED BY <1>1, <1>2, PoolTypeCorrect, PTL DEF Spec

-----------------------------------------------------------------------------
\* Only Authorize, HandlerEnds and Restart change who is registered.
LEMMA RegistryStep ==
  ASSUME TypeOK, RegistryOwner, [Next]_vars
  PROVE  RegistryOwner'
<1> USE DEF nodeVars, connVars, histVars
<1>0. \A n \in DOMAIN miners : n \in Names /\ miners[n] \in Conns
  BY DEF TypeOK
<1>a. ASSUME UNCHANGED <<miners, names, worker_name>>,
             \A c \in Conns : status[c] = "open" => status'[c] = "open"
      PROVE  RegistryOwner'
  BY <1>0, <1>a DEF RegistryOwner
<1>1. CASE Restart
  <2>1. miners' = <<>> /\ DOMAIN miners' = {}
    BY <1>1 DEF Restart
  <2> QED BY <2>1 DEF RegistryOwner
<1>2. ASSUME NEW c \in Conns, Connect(c) PROVE RegistryOwner'
  <2>1. \A d \in Conns : status[d] = "open" => status'[d] = "open"
    BY <1>2 DEF Connect, TypeOK
  <2> QED BY <1>2, <1>a, <2>1 DEF Connect
<1>3. ASSUME NEW c \in Conns, NEW n \in Names, Authorize(c, n) PROVE RegistryOwner'
  <2>1. /\ status' = status /\ status[c] = "open"
        /\ miners' = With(miners, n, c)
        /\ names' = [names EXCEPT ![c] = @ \cup {n}]
        /\ worker_name' = [worker_name EXCEPT ![c] = n]
    BY <1>3 DEF Authorize, Reading
  <2>2. /\ DOMAIN miners' = DOMAIN miners \cup {n} /\ miners'[n] = c
        /\ \A m \in DOMAIN miners \ {n} : miners'[m] = miners[m]
    BY <2>1 DEF With
  <2>3. /\ n \in names'[c] /\ \A d \in Conns : names[d] \subseteq names'[d]
        /\ \A d \in Conns \ {c} : worker_name'[d] = worker_name[d]
    BY <2>1 DEF TypeOK
  <2>4. \A m \in DOMAIN miners \ {n} :
          /\ m \in names'[miners'[m]]
          /\ status'[miners'[m]] = "open" \/ worker_name'[miners'[m]] # m \/ m \in EmptyNames
    BY <1>0, <2>1, <2>2, <2>3 DEF RegistryOwner
  <2> QED BY <2>1, <2>2, <2>3, <2>4 DEF RegistryOwner
<1>4. ASSUME NEW c \in Conns, HandlerEnds(c) PROVE RegistryOwner'
  <2>1. UNCHANGED <<names, worker_name>> /\ \A d \in Conns \ {c} : status'[d] = status[d]
    BY <1>4 DEF HandlerEnds, TypeOK
  <2>2. \A n \in DOMAIN miners' :
          /\ n \in DOMAIN miners /\ miners'[n] = miners[n]
          /\ n # worker_name[c] \/ n \in EmptyNames
    BY <1>4 DEF HandlerEnds, Without, Restrict
  <2> QED BY <1>0, <2>1, <2>2 DEF RegistryOwner
<1>5. ASSUME NEW t, NEW c, SendJob(t, c) PROVE RegistryOwner'
  BY <1>5, <1>a DEF SendJob
<1>6. ASSUME NEW t, ResumeSendJob(t) PROVE RegistryOwner'
  BY <1>6, <1>a DEF ResumeSendJob
<1>7. ASSUME NEW c \in Conns,
             PeerStalls(c) \/ PeerResumes(c) \/ PeerLeaves(c) \/ ReplyOnly(c) \/ ResumeReading(c)
      PROVE  RegistryOwner'
  BY <1>7, <1>a DEF PeerStalls, PeerResumes, PeerLeaves, SetPeer, ReplyOnly, ResumeReading
<1>8. ASSUME NEW c \in Conns, NEW i, NEW d, SubmitShare(c, i, d) PROVE RegistryOwner'
  BY <1>8, <1>a DEF SubmitShare
<1>9. ASSUME NEW c \in Conns, NEW i, NEW d, NEW a, NEW up, SubmitBlock(c, i, d, a, up)
      PROVE  RegistryOwner'
  <2>1. UNCHANGED <<miners, names, worker_name, status>>  BY <1>9 DEF SubmitBlock
  <2> QED BY <1>a, <2>1
<1>10. CASE NodeAdvances \/ BroadcasterWakes \/ BroadcasterResumes
  BY <1>10, <1>a DEF NodeAdvances, BroadcasterWakes, BroadcasterResumes
<1>11. CASE UNCHANGED vars  BY <1>11, <1>a DEF vars
<1> QED BY <1>1, <1>2, <1>3, <1>4, <1>5, <1>6, <1>7, <1>8, <1>9, <1>10, <1>11
        DEF Next, PeerStep, Request, HandlerStep, EndOfInput, ResumeHandler,
            BroadcasterStep, BroadcasterSends

(***************************************************************************)
(* The registry names only connections that authorized the name, and a     *)
(* finished one only under a name it gave up or an empty one, for any      *)
(* number of connections and names taking over, giving up and leaving.     *)
(***************************************************************************)
THEOREM RegistryCorrect == Spec => []RegistryOwner
<1>1. Init => RegistryOwner
  <2>1. Init => DOMAIN miners = {}  BY DEF Init
  <2> QED BY <2>1 DEF RegistryOwner
<1>2. TypeOK /\ RegistryOwner /\ [Next]_vars => RegistryOwner'
  BY RegistryStep
<1> QED BY <1>1, <1>2, PoolTypeCorrect, PTL DEF Spec

\* A connection's current name is one it has authorized, after it was opened.
NameKnown ==
  \A c \in Conns : worker_name[c] # NoName => worker_name[c] \in names[c] /\ status[c] # "new"

\* A name's place is emptied only by a handler that ends under it.
LEMMA ReachStep ==
  ASSUME TypeOK, NameKnown, BroadcastReachesAll, [Next]_vars
  PROVE  NameKnown' /\ BroadcastReachesAll'
<1> USE DEF nodeVars, connVars, histVars
<1>a. ASSUME UNCHANGED <<miners, names, worker_name>>,
             \A c \in Conns : /\ status'[c] = "open" => status[c] = "open" \/ worker_name[c] = NoName
                              /\ status[c] = "closed" => status'[c] = "closed"
                              /\ status'[c] = "new" => status[c] = "new"
      PROVE  NameKnown' /\ BroadcastReachesAll'
  BY <1>a DEF NameKnown, BroadcastReachesAll
<1>1. CASE Restart
  <2>1. \A c \in Conns : status'[c] # "open" /\ (status'[c] = "new" => status[c] = "new")
    BY <1>1 DEF Restart
  <2> QED BY <1>1, <2>1 DEF Restart, NameKnown, BroadcastReachesAll
<1>2. ASSUME NEW c \in Conns, Connect(c) PROVE NameKnown' /\ BroadcastReachesAll'
  <2>1. /\ UNCHANGED <<miners, names, worker_name>>
        /\ status[c] = "new" /\ status' = [status EXCEPT ![c] = "open"]
    BY <1>2 DEF Connect
  <2>2. worker_name[c] = NoName  BY <2>1 DEF NameKnown
  <2> QED BY <1>2, <1>a, <2>1, <2>2 DEF TypeOK
<1>3. ASSUME NEW c \in Conns, NEW n \in Names, Authorize(c, n)
      PROVE  NameKnown' /\ BroadcastReachesAll'
  <2>1. /\ status' = status /\ status[c] = "open"
        /\ miners' = With(miners, n, c)
        /\ names' = [names EXCEPT ![c] = @ \cup {n}]
        /\ worker_name' = [worker_name EXCEPT ![c] = n]
    BY <1>3 DEF Authorize, Reading
  <2>2. /\ DOMAIN miners' = DOMAIN miners \cup {n} /\ miners'[n] = c
        /\ \A m \in DOMAIN miners \ {n} : miners'[m] = miners[m]
    BY <2>1 DEF With
  <2>3. /\ n \in names'[c] /\ \A d \in Conns : names[d] \subseteq names'[d]
        /\ worker_name'[c] = n /\ \A d \in Conns \ {c} : worker_name'[d] = worker_name[d]
    BY <2>1 DEF TypeOK
  <2>4. NameKnown'
    BY <2>1, <2>3 DEF NameKnown
  <2>5. BroadcastReachesAll'
    <3> SUFFICES ASSUME NEW d \in Conns, status'[d] = "open", worker_name'[d] # NoName
                 PROVE  \/ worker_name'[d] \in DOMAIN miners'
                        \/ \E x \in Conns \ {d} :
                             status'[x] = "closed" /\ worker_name'[x] = worker_name'[d]
                             /\ worker_name'[d] \notin EmptyNames
      BY DEF BroadcastReachesAll
    <3>1. CASE d = c
      BY <2>2, <2>3, <3>1
    <3>2. CASE d # c
      <4>1. \/ worker_name[d] \in DOMAIN miners
            \/ \E x \in Conns \ {d} : status[x] = "closed" /\ worker_name[x] = worker_name[d]
                                       /\ worker_name[d] \notin EmptyNames
        BY <2>1, <2>3, <3>2 DEF BroadcastReachesAll
      <4> QED BY <2>1, <2>2, <2>3, <3>2, <4>1
    <3> QED BY <3>1, <3>2
  <2> QED BY <2>4, <2>5
<1>4. ASSUME NEW c \in Conns, HandlerEnds(c) PROVE NameKnown' /\ BroadcastReachesAll'
  <2>1. /\ UNCHANGED <<names, worker_name>>
        /\ status'[c] = "closed" /\ \A d \in Conns \ {c} : status'[d] = status[d]
    BY <1>4 DEF HandlerEnds, TypeOK
  <2>2. \A n \in DOMAIN miners : n # worker_name[c] \/ n \in EmptyNames => n \in DOMAIN miners'
    BY <1>4 DEF HandlerEnds, Without, Restrict
  <2>3. BroadcastReachesAll'
    <3> SUFFICES ASSUME NEW d \in Conns, status'[d] = "open", worker_name[d] # NoName
                 PROVE  \/ worker_name[d] \in DOMAIN miners'
                        \/ \E x \in Conns \ {d} :
                             status'[x] = "closed" /\ worker_name[x] = worker_name[d]
                             /\ worker_name[d] \notin EmptyNames
      BY <2>1 DEF BroadcastReachesAll
    <3>1. d # c /\ status[d] = "open"  BY <2>1
    <3>2. \/ worker_name[d] \in DOMAIN miners
          \/ \E x \in Conns \ {d} : status[x] = "closed" /\ worker_name[x] = worker_name[d]
                                     /\ worker_name[d] \notin EmptyNames
      BY <3>1 DEF BroadcastReachesAll
    <3>3. CASE worker_name[d] = worker_name[c] /\ worker_name[d] \notin EmptyNames
      BY <2>1, <3>1, <3>3
    <3>4. CASE worker_name[d] # worker_name[c] \/ worker_name[d] \in EmptyNames
      BY <2>1, <2>2, <3>1, <3>2, <3>4
    <3> QED BY <3>3, <3>4
  <2> QED BY <2>1, <2>3 DEF NameKnown
<1>5. ASSUME NEW t, NEW c, SendJob(t, c) PROVE NameKnown' /\ BroadcastReachesAll'
  BY <1>5, <1>a DEF SendJob
<1>6. ASSUME NEW t, ResumeSendJob(t) PROVE NameKnown' /\ BroadcastReachesAll'
  BY <1>6, <1>a DEF ResumeSendJob
<1>7. ASSUME NEW c \in Conns,
             PeerStalls(c) \/ PeerResumes(c) \/ PeerLeaves(c) \/ ReplyOnly(c) \/ ResumeReading(c)
      PROVE  NameKnown' /\ BroadcastReachesAll'
  BY <1>7, <1>a DEF PeerStalls, PeerResumes, PeerLeaves, SetPeer, ReplyOnly, ResumeReading
<1>8. ASSUME NEW c \in Conns, NEW i, NEW d, SubmitShare(c, i, d)
      PROVE  NameKnown' /\ BroadcastReachesAll'
  BY <1>8, <1>a DEF SubmitShare
<1>9. ASSUME NEW c \in Conns, NEW i, NEW d, NEW a, NEW up, SubmitBlock(c, i, d, a, up)
      PROVE  NameKnown' /\ BroadcastReachesAll'
  <2>1. UNCHANGED <<miners, names, worker_name, status>>  BY <1>9 DEF SubmitBlock
  <2> QED BY <1>a, <2>1
<1>10. CASE NodeAdvances \/ BroadcasterWakes \/ BroadcasterResumes
  BY <1>10, <1>a DEF NodeAdvances, BroadcasterWakes, BroadcasterResumes
<1>11. CASE UNCHANGED vars  BY <1>11, <1>a DEF vars
<1> QED BY <1>1, <1>2, <1>3, <1>4, <1>5, <1>6, <1>7, <1>8, <1>9, <1>10, <1>11
        DEF Next, PeerStep, Request, HandlerStep, EndOfInput, ResumeHandler,
            BroadcasterStep, BroadcasterSends

(***************************************************************************)
(* The name of an open connection keeps its place where job_broadcaster    *)
(* looks, until another connection that had the name ends, for any number  *)
(* of connections, names and restarts.                                     *)
(***************************************************************************)
THEOREM ReachCorrect == Spec => []BroadcastReachesAll
<1>1. Init => NameKnown /\ BroadcastReachesAll
  BY DEF Init, NameKnown, BroadcastReachesAll
<1>2. TypeOK /\ NameKnown /\ BroadcastReachesAll /\ [Next]_vars
        => (NameKnown /\ BroadcastReachesAll)'
  BY ReachStep
<1> QED BY <1>1, <1>2, PoolTypeCorrect, PTL DEF Spec

-----------------------------------------------------------------------------
\* Work is only done for connections that have authorized a name.
WorkIsNamed ==
  /\ \A c \in Conns : task[c].pc = "send_job" \/ jobs[c] # <<>> => worker_name[c] # NoName
  /\ \A t \in Tasks : task[t].pc = "difficulty" => worker_name[task[t].conn] # NoName
  /\ \A e \in todo : worker_name[e[2]] # NoName
  /\ \A n \in DOMAIN miners : worker_name[miners[n]] # NoName

\* An entry that pays the address of one of the names in S.
Pays(e, S) ==
  \E n \in S : e.payee = IF Wallet[n] # NoAddress THEN Wallet[n] ELSE POOL_ADDRESS

\* Evicting the oldest entry and appending one leaves old entries and the new one.
LEMMA EvictAppend ==
  ASSUME NEW S, NEW s \in Seq(S), NEW e \in S, NEW m \in Nat
  PROVE  LET kept == IF Len(s) > m THEN Tail(s) ELSE s
         IN  \A i \in DOMAIN Append(kept, e) :
               \/ Append(kept, e)[i] = e
               \/ \E j \in DOMAIN s : Append(kept, e)[i] = s[j]
<1>1. CASE Len(s) > m
  <2>1. Tail(s) \in Seq(S) /\ Len(Tail(s)) = Len(s) - 1
        /\ \A i \in 1..(Len(s) - 1) : Tail(s)[i] = s[i + 1]
    BY <1>1
  <2>2. \A i \in 1..(Len(s) - 1) : Append(Tail(s), e)[i] = s[i + 1] /\ i + 1 \in DOMAIN s
    BY <2>1
  <2>3. DOMAIN Append(Tail(s), e) = 1..Len(s) /\ Append(Tail(s), e)[Len(s)] = e
    BY <1>1, <2>1
  <2> QED BY <1>1, <2>2, <2>3
<1>2. CASE ~(Len(s) > m)
  <2>1. \A i \in DOMAIN Append(s, e) :
          \/ Append(s, e)[i] = e
          \/ i \in DOMAIN s /\ Append(s, e)[i] = s[i]
    OBVIOUS
  <2> QED BY <1>2, <2>1
<1> QED BY <1>1, <1>2

\* A job stored for a connection with a name pays the address in that name.
LEMMA StorePays ==
  ASSUME TypeOK, NameKnown, JobsPayTheMiner, NEW c \in Conns, NEW job \in PendingJobs,
         StoreJob(c, job), worker_name[c] # NoName, UNCHANGED names
  PROVE  /\ JobsPayTheMiner'
         /\ \A d \in Conns \ {c} : jobs'[d] = jobs[d]
<1> DEFINE e == [id |-> JobId(job.n), template |-> job.template,
                 payee |-> CoinbaseAddress(worker_name[c])]
<1>1. JobId(job.n) \in Nat \X Nat
  BY PoolFacts DEF TypeOK, JobId, SESSION_ID, PendingJobs
<1>2. CoinbaseAddress(worker_name[c]) \in Addresses
  BY PoolFacts DEF TypeOK, CoinbaseAddress, extract_miner_address
<1>3. e \in JobEntries
  BY <1>1, <1>2 DEF JobEntries, PendingJobs
<1>4. jobs[c] \in Seq(JobEntries) /\ MaxHistory \in Nat
  BY PoolFacts DEF TypeOK
<1>5. worker_name[c] \in names[c]  BY DEF NameKnown
<1>6. e.payee = IF Wallet[worker_name[c]] # NoAddress THEN Wallet[worker_name[c]]
                                                      ELSE POOL_ADDRESS
  BY DEF CoinbaseAddress, extract_miner_address
<1>7. Pays(e, names[c])
  BY <1>5, <1>6 DEF Pays
<1>8. /\ jobs'[c] = Append(IF Len(jobs[c]) > MaxHistory THEN Tail(jobs[c]) ELSE jobs[c], e)
      /\ \A d \in Conns \ {c} : jobs'[d] = jobs[d]
  BY DEF StoreJob, TypeOK
<1> HIDE DEF e
<1>9. \A i \in DOMAIN jobs'[c] :
        jobs'[c][i] = e \/ \E j \in DOMAIN jobs[c] : jobs'[c][i] = jobs[c][j]
  BY <1>3, <1>4, <1>8, EvictAppend
<1>10. \A d \in Conns : \A i \in DOMAIN jobs[d] : Pays(jobs[d][i], names[d])
  BY DEF JobsPayTheMiner, Pays
<1>11. \A d \in Conns : \A i \in DOMAIN jobs'[d] : Pays(jobs'[d][i], names[d])
  <2>1. \A i \in DOMAIN jobs'[c] : Pays(jobs'[c][i], names[c])
    <3> SUFFICES ASSUME NEW i \in DOMAIN jobs'[c] PROVE Pays(jobs'[c][i], names[c])
      OBVIOUS
    <3>1. CASE jobs'[c][i] = e  BY <1>7, <3>1
    <3>2. ASSUME NEW j \in DOMAIN jobs[c], jobs'[c][i] = jobs[c][j]
          PROVE  Pays(jobs'[c][i], names[c])
      <4>1. Pays(jobs[c][j], names[c])  BY <1>10
      <4> QED BY <3>2, <4>1
    <3> QED BY <1>9, <3>1, <3>2
  <2>2. \A d \in Conns \ {c} : \A i \in DOMAIN jobs'[d] : Pays(jobs'[d][i], names[d])
    BY <1>8, <1>10
  <2> QED BY <2>1, <2>2
<1> QED BY <1>8, <1>11 DEF JobsPayTheMiner, Pays

\* send_job for a connection with a name.
LEMMA SendJobPays ==
  ASSUME TypeOK, NameKnown, WorkIsNamed, JobsPayTheMiner,
         NEW t \in Tasks, NEW c \in Conns, SendJob(t, c), worker_name[c] # NoName,
         todo' \subseteq todo, t \in Conns => t = c
  PROVE  WorkIsNamed' /\ JobsPayTheMiner'
<1> USE DEF nodeVars
<1>1. UNCHANGED <<miners, worker_name, names>>  BY DEF SendJob
<1>2. \A u \in Tasks \ {t} : task'[u] = task[u]
  BY DEF SendJob, SendJobStart, SendJobFails, TypeOK
<1>3. /\ task'[t].pc = "difficulty" => task'[t].conn = c
      /\ task'[t].pc # "send_job"
  <2>1. CASE SendJobStart(t, c)
    BY <2>1 DEF SendJobStart, Suspended, TypeOK
  <2>2. CASE SendJobFails(t)
    <3>1. task[t] \in TaskStates /\ task' = [task EXCEPT ![t].pc = "drain"]
      BY <2>2 DEF SendJobFails, TypeOK
    <3>2. task'[t].pc = "drain"
      BY <3>1 DEF TypeOK, TaskStates
    <3> QED BY <3>2
  <2> QED BY <2>1, <2>2 DEF SendJob
<1>4. JobsPayTheMiner' /\ \A d \in Conns \ {c} : jobs'[d] = jobs[d]
  <2>1. CASE UNCHANGED jobs
    BY <1>1, <2>1 DEF JobsPayTheMiner
  <2>2. CASE SendJobStart(t, c) /\ difficultySent[c]
    <3> DEFINE job == [n |-> job_counter[c] + 1, template |-> tip]
    <3>1. job \in PendingJobs
      BY <2>2, PoolFacts DEF SendJobStart, TypeOK, PendingJobs
    <3>2. StoreJob(c, job)  BY <2>2 DEF SendJobStart
    <3> HIDE DEF job
    <3> QED BY <1>1, <3>1, <3>2, StorePays
  <2> QED BY <2>1, <2>2 DEF SendJob, SendJobStart, SendJobFails
<1>5. /\ \A d \in Conns : task'[d].pc = "send_job" \/ jobs'[d] # <<>> => worker_name'[d] # NoName
      /\ \A u \in Tasks : task'[u].pc = "difficulty" => worker_name'[task'[u].conn] # NoName
  BY <1>1, <1>2, <1>3, <1>4 DEF WorkIsNamed, Tasks
<1>6. /\ \A x \in todo' : worker_name'[x[2]] # NoName
      /\ \A n \in DOMAIN miners' : worker_name'[miners'[n]] # NoName
  BY <1>1 DEF WorkIsNamed
<1> QED BY <1>4, <1>5, <1>6 DEF WorkIsNamed

\* Every action keeps work named and jobs paying the miner.
LEMMA PaysStep ==
  ASSUME TypeOK, WorkIsLive, NameKnown, WorkIsNamed, JobsPayTheMiner, [Next]_vars
  PROVE  WorkIsNamed' /\ JobsPayTheMiner'
<1> USE DEF nodeVars, connVars, histVars
<1>0. /\ Broadcaster \in Tasks /\ Conns \subseteq Tasks /\ Broadcaster \notin Conns
      /\ task \in [Tasks -> TaskStates] /\ \A t \in Tasks : task[t] \in TaskStates
  BY PoolFacts DEF Tasks, TypeOK
<1>a. ASSUME UNCHANGED <<miners, todo, task, worker_name, jobs, names>>
      PROVE  WorkIsNamed' /\ JobsPayTheMiner'
  BY <1>a DEF WorkIsNamed, JobsPayTheMiner
<1>b. ASSUME NEW t \in Tasks, NEW p \in Pcs \ {"difficulty"},
             p = "send_job" /\ t \in Conns => worker_name[t] # NoName,
             task' = [task EXCEPT ![t].pc = p],
             \A e \in todo' : worker_name[e[2]] # NoName,
             UNCHANGED <<miners, worker_name, jobs, names>>
      PROVE  WorkIsNamed' /\ JobsPayTheMiner'
  <2>1. task'[t].pc = p /\ \A u \in Tasks \ {t} : task'[u] = task[u]
    BY <1>0, <1>b DEF TaskStates
  <2>2. /\ \A d \in Conns : task'[d].pc = "send_job" \/ jobs'[d] # <<>> => worker_name'[d] # NoName
        /\ \A u \in Tasks : task'[u].pc = "difficulty" => worker_name'[task'[u].conn] # NoName
    BY <1>0, <1>b, <2>1 DEF WorkIsNamed
  <2> QED BY <1>b, <2>2 DEF WorkIsNamed, JobsPayTheMiner
<1>1. CASE NodeAdvances
  BY <1>1, <1>a DEF NodeAdvances
<1>2. CASE Restart
  <2>1. /\ miners' = <<>> /\ todo' = {} /\ DOMAIN miners' = {}
        /\ task' = [t \in Tasks |-> IF t = Broadcaster THEN Asleep ELSE Idle(t)]
        /\ jobs' = [c \in Conns |-> <<>>]
    BY <1>2 DEF Restart
  <2>2. \A t \in Tasks : task'[t].pc \in {"sleep", "read"}
    BY <2>1 DEF Asleep, Idle, Suspended
  <2>3. \A c \in Conns : jobs'[c] = <<>> /\ DOMAIN jobs'[c] = {}
    BY <2>1
  <2> QED BY <1>0, <2>1, <2>2, <2>3 DEF WorkIsNamed, JobsPayTheMiner
<1>3. ASSUME NEW c \in Conns, PeerStep(c) PROVE WorkIsNamed' /\ JobsPayTheMiner'
  BY <1>3, <1>a DEF PeerStep, Connect, PeerStalls, PeerResumes, PeerLeaves, SetPeer
<1>4. ASSUME NEW c \in Conns, ReplyOnly(c) \/ ResumeReading(c)
      PROVE  WorkIsNamed' /\ JobsPayTheMiner'
  <2>1. \E p \in {"drain", "read"} : task' = [task EXCEPT ![c].pc = p]
    BY <1>4 DEF ReplyOnly, ResumeReading
  <2>2. \A e \in todo' : worker_name[e[2]] # NoName
    BY <1>4 DEF ReplyOnly, ResumeReading, WorkIsNamed
  <2>3. UNCHANGED <<miners, worker_name, jobs, names>>
    BY <1>4 DEF ReplyOnly, ResumeReading
  <2> QED BY <1>0, <1>b, <2>1, <2>2, <2>3 DEF Pcs
<1>5. ASSUME NEW c \in Conns, NEW n \in Names, Authorize(c, n)
      PROVE  WorkIsNamed' /\ JobsPayTheMiner'
  <2>1. /\ UNCHANGED <<todo, jobs>>
        /\ miners' = With(miners, n, c)
        /\ names' = [names EXCEPT ![c] = @ \cup {n}]
        /\ worker_name' = [worker_name EXCEPT ![c] = n]
        /\ task' = [task EXCEPT ![c].pc = "send_job"]
    BY <1>5 DEF Authorize
  <2>2. /\ DOMAIN miners' = DOMAIN miners \cup {n} /\ miners'[n] = c
        /\ \A m \in DOMAIN miners \ {n} : miners'[m] = miners[m]
    BY <2>1 DEF With
  <2>3. /\ \A d \in Conns : names[d] \subseteq names'[d]
        /\ worker_name'[c] # NoName
        /\ \A d \in Conns \ {c} : worker_name'[d] = worker_name[d]
    BY <2>1, PoolFacts DEF TypeOK
  <2>4. \A d \in Conns : worker_name[d] # NoName => worker_name'[d] # NoName
    BY <2>3
  <2>5. task'[c].pc = "send_job" /\ \A u \in Tasks \ {c} : task'[u] = task[u]
    BY <1>0, <2>1 DEF TaskStates
  <2>6. /\ \A m \in DOMAIN miners : miners[m] \in Conns
        /\ \A e \in todo : e[2] \in Conns
    BY DEF TypeOK
  <2>7. \A t \in Tasks : task[t].pc = "difficulty" => task[t].conn \in Conns
    BY DEF WorkIsLive
  <2>8. JobsPayTheMiner'
    BY <2>1, <2>3 DEF JobsPayTheMiner
  <2>9. /\ \A d \in Conns : task'[d].pc = "send_job" \/ jobs'[d] # <<>> => worker_name'[d] # NoName
        /\ \A u \in Tasks : task'[u].pc = "difficulty" => worker_name'[task'[u].conn] # NoName
    BY <1>0, <2>1, <2>3, <2>4, <2>5, <2>7 DEF WorkIsNamed
  <2>10. /\ \A e \in todo' : worker_name'[e[2]] # NoName
         /\ \A m \in DOMAIN miners' : worker_name'[miners'[m]] # NoName
    BY <2>1, <2>2, <2>3, <2>4, <2>6 DEF WorkIsNamed
  <2> QED BY <2>8, <2>9, <2>10 DEF WorkIsNamed
<1>6. ASSUME NEW c \in Conns, NEW i \in DOMAIN jobs[c], NEW d \in Diffs, SubmitShare(c, i, d)
      PROVE  WorkIsNamed' /\ JobsPayTheMiner'
  <2>1. /\ task' = [task EXCEPT ![c].pc = "drain"]
        /\ UNCHANGED <<todo, miners, worker_name, jobs, names>>
    BY <1>6 DEF SubmitShare
  <2>2. \A e \in todo' : worker_name[e[2]] # NoName
    BY <2>1 DEF WorkIsNamed
  <2> QED BY <1>0, <1>b, <2>1, <2>2 DEF Pcs
<1>7. ASSUME NEW c \in Conns, NEW i \in DOMAIN jobs[c], NEW d \in Diffs,
             NEW a \in Answers, NEW up \in BOOLEAN, SubmitBlock(c, i, d, a, up)
      PROVE  WorkIsNamed' /\ JobsPayTheMiner'
  <2>1. /\ \E p \in {"drain", "send_job"} : task' = [task EXCEPT ![c].pc = p]
        /\ UNCHANGED <<todo, miners, worker_name, jobs, names>>
    BY <1>7 DEF SubmitBlock
  <2>2. \A e \in todo' : worker_name[e[2]] # NoName
    BY <2>1 DEF WorkIsNamed
  <2>3. jobs[c] # <<>>  BY <1>7
  <2>4. worker_name[c] # NoName  BY <2>3 DEF WorkIsNamed
  <2> QED BY <1>0, <1>b, <2>1, <2>2, <2>4 DEF Pcs
<1>8. ASSUME NEW c \in Conns, ResumeHandler(c) PROVE WorkIsNamed' /\ JobsPayTheMiner'
  <2>1. worker_name[c] # NoName  BY <1>8 DEF ResumeHandler, WorkIsNamed
  <2> QED BY <1>0, <1>8, <2>1, SendJobPays DEF ResumeHandler
<1>9. ASSUME NEW t \in Tasks, ResumeSendJob(t) PROVE WorkIsNamed' /\ JobsPayTheMiner'
  <2> DEFINE c == task[t].conn
  <2>1. /\ c \in Conns /\ worker_name[c] # NoName /\ task[t].job \in PendingJobs
        /\ UNCHANGED <<miners, todo, worker_name, names>>
        /\ task' = [task EXCEPT ![t] = Suspended("drain", c, NoJob)]
        /\ StoreJob(c, task[t].job)
    BY <1>0, <1>9 DEF ResumeSendJob, WorkIsLive, WorkIsNamed, TaskStates
  <2> HIDE DEF c
  <2>2. task'[t].pc = "drain" /\ \A u \in Tasks \ {t} : task'[u] = task[u]
    BY <1>0, <2>1 DEF Suspended
  <2>3. JobsPayTheMiner' /\ \A d \in Conns \ {c} : jobs'[d] = jobs[d]
    BY <2>1, StorePays
  <2>4. /\ \A d \in Conns : task'[d].pc = "send_job" \/ jobs'[d] # <<>> => worker_name'[d] # NoName
        /\ \A u \in Tasks : task'[u].pc = "difficulty" => worker_name'[task'[u].conn] # NoName
    BY <1>0, <2>1, <2>2, <2>3 DEF WorkIsNamed
  <2> QED BY <2>1, <2>3, <2>4 DEF WorkIsNamed
<1>10. ASSUME NEW c \in Conns, HandlerEnds(c) PROVE WorkIsNamed' /\ JobsPayTheMiner'
  <2>1. UNCHANGED <<todo, task, worker_name, jobs, names>>
    BY <1>10 DEF HandlerEnds
  <2>2. \A n \in DOMAIN miners' : n \in DOMAIN miners /\ miners'[n] = miners[n]
    BY <1>10 DEF HandlerEnds, Without, Restrict
  <2> QED BY <2>1, <2>2 DEF WorkIsNamed, JobsPayTheMiner
<1>11. CASE BroadcasterWakes
  <2>1. /\ \E p \in {"sleep", "round"} : task' = [task EXCEPT ![Broadcaster].pc = p]
        /\ UNCHANGED <<miners, worker_name, jobs, names>>
    BY <1>11 DEF BroadcasterWakes
  <2>2. \A e \in todo' : worker_name[e[2]] # NoName
    BY <1>11 DEF BroadcasterWakes, WorkIsNamed
  <2> QED BY <1>0, <1>b, <2>1, <2>2 DEF Pcs
<1>12. ASSUME NEW e \in todo, BroadcasterSends(e) PROVE WorkIsNamed' /\ JobsPayTheMiner'
  <2>1. e[2] \in Conns /\ worker_name[e[2]] # NoName /\ todo' \subseteq todo
    BY <1>12 DEF BroadcasterSends, TypeOK, WorkIsNamed
  <2> QED BY <1>0, <1>12, <2>1, SendJobPays DEF BroadcasterSends
<1>13. CASE BroadcasterResumes
  <2>1. /\ task'[Broadcaster].pc \in {"sleep", "round"}
        /\ \A c \in Conns : task'[c] = task[c]
    BY <1>0, <1>13 DEF BroadcasterResumes, Asleep, Suspended
  <2> QED BY <1>0, <1>13, <2>1 DEF BroadcasterResumes, WorkIsNamed, JobsPayTheMiner, Tasks
<1>14. CASE UNCHANGED vars  BY <1>14, <1>a DEF vars
<1> QED BY <1>0, <1>1, <1>2, <1>3, <1>4, <1>5, <1>6, <1>7, <1>8, <1>9, <1>10, <1>11, <1>12,
           <1>13, <1>14
        DEF Next, Request, HandlerStep, EndOfInput, BroadcasterStep

(***************************************************************************)
(* The payee of a job is read after the suspension in send_job, yet every  *)
(* job a connection holds pays an address this connection authorized, for  *)
(* any interleaving of re-authorization, shares and broadcast rounds.      *)
(***************************************************************************)
THEOREM PayeeCorrect == Spec => []JobsPayTheMiner
<1> DEFINE Inv == NameKnown /\ BroadcastReachesAll /\ WorkIsNamed /\ JobsPayTheMiner
<1>1. Init => Inv
  <2> SUFFICES ASSUME Init PROVE Inv  OBVIOUS
  <2>1. NameKnown /\ BroadcastReachesAll
    BY DEF Init, NameKnown, BroadcastReachesAll
  <2>2. \A c \in Conns : jobs[c] = <<>> /\ DOMAIN jobs[c] = {}
    BY DEF Init
  <2>3. \A t \in Tasks : task[t].pc \in {"sleep", "read"}
    BY DEF Init, Asleep, Idle, Suspended
  <2>4. DOMAIN miners = {} /\ todo = {}  BY DEF Init
  <2> QED BY <2>1, <2>2, <2>3, <2>4 DEF WorkIsNamed, JobsPayTheMiner, Tasks
<1>2. TypeOK /\ WorkIsLive /\ Inv /\ [Next]_vars => Inv'
  BY ReachStep, PaysStep
<1>3. Inv => JobsPayTheMiner  OBVIOUS
<1> QED BY <1>1, <1>2, <1>3, PoolTypeCorrect, PTL DEF Spec

-----------------------------------------------------------------------------
(***************************************************************************)
(* Where job numbers come from: a live connection has been sent numbers of *)
(* its counter under the running session only, and every job suspended in  *)
(* send_difficulty holds a number of its own.                              *)
(***************************************************************************)
IdsIssued ==
  /\ \A c \in Conns : status[c] = "new" => job_counter[c] = 0
  /\ \A c \in Conns : Live(c) => \A i \in DOMAIN notified[c] :
       \E n \in 1..job_counter[c] : notified[c][i] = JobId(n)
  /\ \A t \in Tasks : task[t].pc = "difficulty" =>
       task[t].job.n \in 1..job_counter[task[t].conn]
  /\ \A t, u \in Tasks :
       t # u /\ task[t].pc = "difficulty" /\ task[u].pc = "difficulty"
         /\ task[t].conn = task[u].conn => task[t].job.n # task[u].job.n

\* Within a session a number has one id.
LEMMA JobIdInjective == \A n, m : JobId(n) = JobId(m) => n = m
BY DEF JobId

\* StoreJob appends one id to the messages of c.
LEMMA StoreNotifies ==
  ASSUME TypeOK, NEW c \in Conns, NEW job \in PendingJobs, StoreJob(c, job)
  PROVE  /\ DOMAIN notified'[c] = 1..(Len(notified[c]) + 1)
         /\ DOMAIN notified[c] = 1..Len(notified[c])
         /\ Len(notified[c]) \in Nat
         /\ \A i \in 1..Len(notified[c]) : notified'[c][i] = notified[c][i]
         /\ notified'[c][Len(notified[c]) + 1] = JobId(job.n)
         /\ \A d \in Conns \ {c} : notified'[d] = notified[d]
<1>1. JobId(job.n) \in Nat \X Nat
  BY PoolFacts DEF TypeOK, JobId, SESSION_ID, PendingJobs
<1>2. notified[c] \in Seq(Nat \X Nat)  BY DEF TypeOK
<1>3. notified' = [notified EXCEPT ![c] = Append(notified[c], JobId(job.n))]
  BY DEF StoreJob, TypeOK
<1>4. notified'[c] = Append(notified[c], JobId(job.n))
      /\ \A d \in Conns \ {c} : notified'[d] = notified[d]
  BY <1>3 DEF TypeOK
<1> QED BY <1>1, <1>2, <1>4

\* Storing a number that was issued and not yet sent keeps the ids apart.
LEMMA StoreKeepsIds ==
  ASSUME TypeOK, WorkIsLive, IdsIssued, JobIdsUnique,
         NEW t \in Tasks, NEW c \in Conns, Live(c), NEW job \in PendingJobs,
         StoreJob(c, job), JobId(job.n) \notin Range(notified[c]),
         UNCHANGED <<run, status>>,
         \A d \in Conns : job_counter'[d] \in Nat /\ job_counter'[d] >= job_counter[d],
         \A d \in Conns \ {c} : job_counter'[d] = job_counter[d],
         job.n \in 1..job_counter'[c],
         \A u \in Tasks \ {t} : task'[u] = task[u],
         task'[t].pc = "drain",
         \A u \in Tasks \ {t} : task[u].pc = "difficulty" /\ task[u].conn = c
            => task[u].job.n # job.n
  PROVE  IdsIssued' /\ JobIdsUnique'
<1>0. \A d \in Conns : job_counter[d] \in Nat  BY DEF TypeOK
<1> DEFINE m == Len(notified[c])
<1>1. /\ DOMAIN notified'[c] = 1..(m + 1) /\ DOMAIN notified[c] = 1..m /\ m \in Nat
      /\ \A i \in 1..m : notified'[c][i] = notified[c][i]
      /\ notified'[c][m + 1] = JobId(job.n)
      /\ \A d \in Conns \ {c} : notified'[d] = notified[d]
  BY StoreNotifies
<1>2. \A n : JobId(n)' = JobId(n)  BY DEF JobId, SESSION_ID
<1> HIDE DEF m
<1>3. Range(notified'[c]) = Range(notified[c]) \cup {JobId(job.n)}
  <2>1. \A i \in 1..(m + 1) : i \in 1..m \/ i = m + 1  BY <1>1
  <2>2. 1..m \subseteq 1..(m + 1) /\ m + 1 \in 1..(m + 1)  BY <1>1
  <2> QED BY <1>1, <2>1, <2>2 DEF Range
<1>4. \A d \in Conns : status'[d] = "new" => job_counter'[d] = 0
  BY DEF IdsIssued, Live
<1>5. \A d \in Conns : Live(d)' => \A i \in DOMAIN notified'[d] :
        \E n \in 1..job_counter'[d] : notified'[d][i] = JobId(n)'
  <2>1. \A d \in Conns : Live(d)' => Live(d)  BY DEF Live
  <2>2. \A d \in Conns : 1..job_counter[d] \subseteq 1..job_counter'[d]  BY <1>0
  <2>3. CASE TRUE
    <3> SUFFICES ASSUME NEW d \in Conns, Live(d), NEW i \in DOMAIN notified'[d]
                 PROVE  \E n \in 1..job_counter'[d] : notified'[d][i] = JobId(n)
      BY <1>2, <2>1
    <3>1. CASE d # c
      BY <1>1, <2>2, <3>1 DEF IdsIssued
    <3>2. CASE d = c /\ i \in 1..m
      <4>1. PICK n \in 1..job_counter[c] : notified[c][i] = JobId(n)
        BY <1>1, <3>2 DEF IdsIssued
      <4> QED BY <1>1, <2>2, <3>2, <4>1
    <3>3. CASE d = c /\ i = m + 1
      BY <1>1, <3>3
    <3> QED BY <1>1, <3>1, <3>2, <3>3
  <2> QED BY <2>3
<1>6. \A u \in Tasks : task'[u].pc = "difficulty" =>
        u # t /\ task[u].pc = "difficulty" /\ task'[u] = task[u] /\ task[u].conn \in Conns
  BY DEF WorkIsLive
<1>7. \A u \in Tasks : task'[u].pc = "difficulty" =>
        task'[u].job.n \in 1..job_counter'[task'[u].conn]
  <2>1. \A d \in Conns : 1..job_counter[d] \subseteq 1..job_counter'[d]  BY <1>0
  <2> QED BY <1>6, <2>1 DEF IdsIssued
<1>8. \A u, v \in Tasks :
        u # v /\ task'[u].pc = "difficulty" /\ task'[v].pc = "difficulty"
          /\ task'[u].conn = task'[v].conn => task'[u].job.n # task'[v].job.n
  BY <1>6 DEF IdsIssued
<1>9. \A d \in Conns : \A i, j \in DOMAIN notified'[d] :
        notified'[d][i] = notified'[d][j] => i = j
  <2> SUFFICES ASSUME NEW d \in Conns, NEW i \in DOMAIN notified'[d],
                      NEW j \in DOMAIN notified'[d], notified'[d][i] = notified'[d][j]
               PROVE  i = j
    OBVIOUS
  <2>1. CASE d # c
    BY <1>1, <2>1 DEF JobIdsUnique
  <2>2. CASE d = c
    <3>1. \A k \in 1..m : notified'[c][k] # JobId(job.n)
      BY <1>1 DEF Range
    <3>2. CASE i \in 1..m /\ j \in 1..m
      BY <1>1, <2>2, <3>2 DEF JobIdsUnique
    <3>3. CASE i = m + 1 \/ j = m + 1
      <4>1. \A k \in 1..(m + 1) : k \in 1..m \/ k = m + 1  BY <1>1
      <4> QED BY <1>1, <2>2, <3>1, <3>3, <4>1
    <3> QED BY <1>1, <2>2, <3>2, <3>3
  <2> QED BY <2>1, <2>2
<1>10. \A u \in Tasks : task'[u].pc = "difficulty" =>
         JobId(task[u].job.n)' \notin Range(notified'[task'[u].conn])
  <2> SUFFICES ASSUME NEW u \in Tasks, task'[u].pc = "difficulty"
               PROVE  JobId(task'[u].job.n) \notin Range(notified'[task'[u].conn])
    BY <1>2, <1>6
  <2>1. JobId(task[u].job.n) \notin Range(notified[task[u].conn])
    BY <1>6 DEF JobIdsUnique
  <2>2. CASE task[u].conn # c
    BY <1>1, <1>6, <2>1, <2>2
  <2>3. CASE task[u].conn = c
    <3>1. task[u].job.n # job.n  BY <1>6, <2>3
    <3>2. JobId(task[u].job.n) # JobId(job.n)  BY <3>1, JobIdInjective
    <3> QED BY <1>3, <1>6, <2>1, <2>3, <3>2
  <2> QED BY <2>2, <2>3
<1>11. IdsIssued'  BY <1>4, <1>5, <1>7, <1>8 DEF IdsIssued
<1>12. JobIdsUnique'  BY <1>2, <1>9, <1>10 DEF JobIdsUnique
<1> QED BY <1>11, <1>12

\* A call of send_job takes the next number, stores it or holds it while suspended.
LEMMA SendJobIds ==
  ASSUME TypeOK, WorkIsLive, IdsIssued, JobIdsUnique,
         NEW t \in Tasks, NEW c \in Conns, Live(c), SendJob(t, c)
  PROVE  IdsIssued' /\ JobIdsUnique'
<1> USE DEF nodeVars
<1> DEFINE job == [n |-> job_counter[c] + 1, template |-> tip]
<1>0. UNCHANGED <<run, status>> /\ \A d \in Conns : job_counter[d] \in Nat
  BY DEF SendJob, TypeOK
<1>1. \A n : JobId(n)' = JobId(n)  BY <1>0 DEF JobId, SESSION_ID
<1>2. \A u \in Tasks \ {t} : task'[u] = task[u]
  BY DEF SendJob, SendJobStart, SendJobFails, TypeOK
<1>d. \A u \in Tasks : task[u].pc = "difficulty" => task[u].conn \in Conns
  BY DEF WorkIsLive
<1>3. CASE SendJobFails(t)
  <2>1. task'[t].pc = "drain"
    <3>1. task[t] \in TaskStates /\ task' = [task EXCEPT ![t].pc = "drain"]
      BY <1>3 DEF SendJobFails, TypeOK
    <3> QED BY <3>1 DEF TypeOK, TaskStates
  <2>2. \A u \in Tasks : task'[u].pc = "difficulty" => task[u] = task'[u]
    BY <1>2, <2>1
  <2>3. UNCHANGED <<job_counter, notified>>  BY <1>3 DEF SendJobFails
  <2>4. IdsIssued'  BY <1>0, <1>1, <2>2, <2>3 DEF IdsIssued, Live
  <2>5. JobIdsUnique'  BY <1>1, <2>2, <2>3 DEF JobIdsUnique
  <2> QED BY <2>4, <2>5
<1>4. CASE SendJobStart(t, c)
  <2>1. job \in PendingJobs
    BY <1>4, PoolFacts DEF SendJobStart, TypeOK, PendingJobs
  <2>2. job_counter'[c] = job_counter[c] + 1
        /\ \A d \in Conns \ {c} : job_counter'[d] = job_counter[d]
    BY <1>4 DEF SendJobStart, TypeOK
  <2>3. job.n = job_counter[c] + 1  OBVIOUS
  <2>4. JobId(job.n) \notin Range(notified[c])
    <3> SUFFICES ASSUME NEW i \in DOMAIN notified[c], notified[c][i] = JobId(job.n)
                 PROVE  FALSE
      BY DEF Range
    <3>1. PICK n \in 1..job_counter[c] : notified[c][i] = JobId(n)
      BY DEF IdsIssued
    <3>2. n = job_counter[c] + 1
      BY <3>1, JobIdInjective
    <3> QED BY <1>0, <3>1, <3>2
  <2>5. \A u \in Tasks : task[u].pc = "difficulty" /\ task[u].conn = c
          => task[u].job.n \in 1..job_counter[c] /\ task[u].job.n # job.n
    BY <1>0 DEF IdsIssued
  <2>6. CASE difficultySent[c]
    <3>1. StoreJob(c, job) /\ task'[t].pc = "drain"
      BY <1>4, <2>6 DEF SendJobStart, Suspended, TypeOK
    <3>2. job.n \in 1..job_counter'[c]
          /\ \A d \in Conns : job_counter'[d] \in Nat /\ job_counter'[d] >= job_counter[d]
      BY <1>0, <2>2
    <3> HIDE DEF job
    <3> QED BY <1>0, <1>2, <2>1, <2>2, <2>4, <2>5, <3>1, <3>2, StoreKeepsIds
  <2>7. CASE ~difficultySent[c]
    <3>1. /\ task'[t].pc = "difficulty" /\ task'[t].conn = c /\ task'[t].job = job
          /\ UNCHANGED notified
      BY <1>4, <2>7 DEF SendJobStart, Suspended, TypeOK
    <3>2. job.n \in 1..job_counter'[c]
          /\ \A d \in Conns : 1..job_counter[d] \subseteq 1..job_counter'[d]
      BY <1>0, <2>2
    <3>3. task'[t].job.n = job.n  BY <3>1
    <3> HIDE DEF job
    <3>4. \A d \in Conns : status'[d] = "new" => job_counter'[d] = 0
      BY <1>0, <2>2 DEF IdsIssued, Live
    <3>5. \A d \in Conns : Live(d)' => \A i \in DOMAIN notified'[d] :
            \E n \in 1..job_counter'[d] : notified'[d][i] = JobId(n)'
      BY <1>0, <1>1, <3>1, <3>2 DEF IdsIssued, Live
    <3>6. \A u \in Tasks : task'[u].pc = "difficulty" =>
            task'[u].job.n \in 1..job_counter'[task'[u].conn]
      BY <1>2, <1>d, <3>1, <3>2, <3>3 DEF IdsIssued
    <3>7. \A u, v \in Tasks :
            u # v /\ task'[u].pc = "difficulty" /\ task'[v].pc = "difficulty"
              /\ task'[u].conn = task'[v].conn => task'[u].job.n # task'[v].job.n
      <4> SUFFICES ASSUME NEW u \in Tasks, NEW v \in Tasks, u # v,
                          task'[u].pc = "difficulty", task'[v].pc = "difficulty",
                          task'[u].conn = task'[v].conn
                   PROVE  task'[u].job.n # task'[v].job.n
        OBVIOUS
      <4>1. CASE u = t
        BY <1>2, <2>5, <3>1, <3>3, <4>1
      <4>2. CASE v = t
        BY <1>2, <2>5, <3>1, <3>3, <4>2
      <4>3. CASE u # t /\ v # t
        BY <1>2, <4>3 DEF IdsIssued
      <4> QED BY <4>1, <4>2, <4>3
    <3>8. \A u \in Tasks : task'[u].pc = "difficulty" =>
            JobId(task'[u].job.n) \notin Range(notified'[task'[u].conn])
      BY <1>2, <2>4, <3>1, <3>3 DEF JobIdsUnique
    <3>9. IdsIssued'  BY <3>4, <3>5, <3>6, <3>7 DEF IdsIssued
    <3>10. JobIdsUnique'  BY <1>1, <3>1, <3>8 DEF JobIdsUnique
    <3> QED BY <3>9, <3>10
  <2> QED BY <2>6, <2>7
<1> QED BY <1>3, <1>4 DEF SendJob

\* Every action keeps job numbers apart.
LEMMA IdsStep ==
  ASSUME TypeOK, WorkIsLive, IdsIssued, JobIdsUnique, [Next]_vars
  PROVE  IdsIssued' /\ JobIdsUnique'
<1> USE DEF nodeVars, connVars, histVars
<1>0. /\ Broadcaster \in Tasks /\ Conns \subseteq Tasks
      /\ task \in [Tasks -> TaskStates] /\ \A t \in Tasks : task[t] \in TaskStates
  BY DEF Tasks, TypeOK
\* A step that issues nothing and suspends nothing in send_difficulty.
<1>a. ASSUME UNCHANGED <<run, job_counter, notified>>,
             \A c \in Conns : /\ status'[c] = "new" => status[c] = "new"
                              /\ Live(c)' => Live(c) \/ status[c] = "new",
             \A t \in Tasks : task'[t].pc = "difficulty" => task'[t] = task[t]
      PROVE  IdsIssued' /\ JobIdsUnique'
  <2>1. \A n : JobId(n)' = JobId(n)  BY <1>a DEF JobId, SESSION_ID
  <2>2. \A c \in Conns : status[c] = "new" => DOMAIN notified[c] = {}
    BY DEF WorkIsLive
  <2>3. \A c \in Conns : Live(c)' => \A i \in DOMAIN notified'[c] :
          \E n \in 1..job_counter'[c] : notified'[c][i] = JobId(n)'
    BY <1>a, <2>1, <2>2 DEF IdsIssued
  <2>4. IdsIssued'  BY <1>a, <2>3 DEF IdsIssued
  <2>5. JobIdsUnique'  BY <1>a, <2>1 DEF JobIdsUnique
  <2> QED BY <2>4, <2>5
<1>b. ASSUME NEW t \in Tasks, NEW p \in {"drain", "read", "send_job", "sleep", "round"},
             task' = [task EXCEPT ![t].pc = p], UNCHANGED <<run, status, job_counter, notified>>
      PROVE  IdsIssued' /\ JobIdsUnique'
  <2>1. task'[t].pc = p /\ \A u \in Tasks \ {t} : task'[u] = task[u]
    BY <1>0, <1>b DEF TaskStates
  <2>2. \A u \in Tasks : task'[u].pc = "difficulty" => task'[u] = task[u]
    BY <2>1
  <2> QED BY <1>a, <1>b, <2>2 DEF Live
<1>1. CASE NodeAdvances
  BY <1>1, <1>a DEF NodeAdvances, Live
<1>2. CASE Restart
  <2>1. \A t \in Tasks : task'[t].pc \in {"sleep", "read"}
    BY <1>2 DEF Restart, Asleep, Idle, Suspended
  <2>2. \A c \in Conns : ~Live(c)' /\ (status'[c] = "new" => status[c] = "new")
    BY <1>2 DEF Restart, Live
  <2>3. UNCHANGED <<job_counter, notified>>  BY <1>2 DEF Restart
  <2> QED BY <2>1, <2>2, <2>3 DEF IdsIssued, JobIdsUnique
<1>3. ASSUME NEW c \in Conns, PeerStep(c) PROVE IdsIssued' /\ JobIdsUnique'
  <2>1. CASE Connect(c)
    <3>1. \A d \in Conns : /\ status'[d] = "new" => status[d] = "new"
                           /\ Live(d)' => Live(d) \/ status[d] = "new"
      BY <2>1 DEF Connect, Live, TypeOK
    <3> QED BY <1>a, <2>1, <3>1 DEF Connect
  <2>2. CASE ~Connect(c)
    BY <1>3, <1>a, <2>2 DEF PeerStep, PeerStalls, PeerResumes, PeerLeaves, SetPeer, Live
  <2> QED BY <2>1, <2>2
<1>4. ASSUME NEW c \in Conns, ReplyOnly(c) \/ ResumeReading(c)
      PROVE  IdsIssued' /\ JobIdsUnique'
  <2>1. /\ \E p \in {"drain", "read"} : task' = [task EXCEPT ![c].pc = p]
        /\ UNCHANGED <<run, status, job_counter, notified>>
    BY <1>4 DEF ReplyOnly, ResumeReading
  <2> QED BY <1>0, <1>b, <2>1
<1>5. ASSUME NEW c \in Conns, NEW n \in Names, Authorize(c, n)
      PROVE  IdsIssued' /\ JobIdsUnique'
  BY <1>0, <1>b, <1>5 DEF Authorize
<1>6. ASSUME NEW c \in Conns, NEW i, NEW d, SubmitShare(c, i, d)
      PROVE  IdsIssued' /\ JobIdsUnique'
  BY <1>0, <1>b, <1>6 DEF SubmitShare
<1>7. ASSUME NEW c \in Conns, NEW i, NEW d, NEW a, NEW up, SubmitBlock(c, i, d, a, up)
      PROVE  IdsIssued' /\ JobIdsUnique'
  <2>1. /\ \E p \in {"drain", "send_job"} : task' = [task EXCEPT ![c].pc = p]
        /\ UNCHANGED <<run, status, job_counter, notified>>
    BY <1>7 DEF SubmitBlock
  <2> QED BY <1>0, <1>b, <2>1
<1>8. ASSUME NEW c \in Conns, ResumeHandler(c) PROVE IdsIssued' /\ JobIdsUnique'
  <2>1. Live(c)  BY <1>8 DEF ResumeHandler, WorkIsLive
  <2> QED BY <1>0, <1>8, <2>1, SendJobIds DEF ResumeHandler
<1>9. ASSUME NEW t \in Tasks, ResumeSendJob(t) PROVE IdsIssued' /\ JobIdsUnique'
  <2> DEFINE c == task[t].conn
             job == task[t].job
  <2>1. /\ c \in Conns /\ Live(c) /\ job \in PendingJobs
        /\ UNCHANGED <<run, status, job_counter>>
        /\ task' = [task EXCEPT ![t] = Suspended("drain", c, NoJob)]
        /\ StoreJob(c, job) /\ task[t].pc = "difficulty"
    BY <1>0, <1>9 DEF ResumeSendJob, WorkIsLive, TaskStates
  <2>2. /\ JobId(job.n) \notin Range(notified[c])
        /\ job.n \in 1..job_counter'[c]
        /\ \A u \in Tasks \ {t} : task[u].pc = "difficulty" /\ task[u].conn = c
             => task[u].job.n # job.n
    BY <2>1 DEF JobIdsUnique, IdsIssued
  <2> HIDE DEF c, job
  <2>3. task'[t].pc = "drain" /\ \A u \in Tasks \ {t} : task'[u] = task[u]
    BY <1>0, <2>1 DEF Suspended
  <2>4. \A d \in Conns : job_counter'[d] \in Nat /\ job_counter'[d] >= job_counter[d]
                         /\ job_counter'[d] = job_counter[d]
    BY <2>1 DEF TypeOK
  <2> QED BY <2>1, <2>2, <2>3, <2>4, StoreKeepsIds
<1>10. ASSUME NEW c \in Conns, HandlerEnds(c) PROVE IdsIssued' /\ JobIdsUnique'
  <2>1. \A d \in Conns : (status'[d] = "new" => status[d] = "new") /\ (Live(d)' => Live(d))
    BY <1>10 DEF HandlerEnds, Reading, Live, TypeOK
  <2> QED BY <1>10, <1>a, <2>1 DEF HandlerEnds
<1>11. CASE BroadcasterWakes
  <2>1. /\ \E p \in {"sleep", "round"} : task' = [task EXCEPT ![Broadcaster].pc = p]
        /\ UNCHANGED <<run, status, job_counter, notified>>
    BY <1>11 DEF BroadcasterWakes
  <2> QED BY <1>0, <1>b, <2>1
<1>12. ASSUME NEW e \in todo, BroadcasterSends(e) PROVE IdsIssued' /\ JobIdsUnique'
  <2>1. e[2] \in Conns /\ Live(e[2])
    BY <1>12 DEF TypeOK, WorkIsLive
  <2> QED BY <1>0, <1>12, <2>1, SendJobIds DEF BroadcasterSends
<1>13. CASE BroadcasterResumes
  <2>1. \A t \in Tasks : task'[t].pc = "difficulty" => task'[t] = task[t]
    BY <1>0, <1>13 DEF BroadcasterResumes, Asleep, Suspended
  <2> QED BY <1>13, <1>a, <2>1 DEF BroadcasterResumes, Live
<1>14. CASE UNCHANGED vars  BY <1>14, <1>a DEF vars, Live
<1> QED BY <1>0, <1>1, <1>2, <1>3, <1>4, <1>5, <1>6, <1>7, <1>8, <1>9, <1>10, <1>11, <1>12,
           <1>13, <1>14
        DEF Next, Request, HandlerStep, EndOfInput, BroadcasterStep

(***************************************************************************)
(* One id, one job: however the handler and the broadcaster interleave in  *)
(* send_job, no connection is sent an id twice, nor will be by a job still *)
(* suspended, for any number of jobs, connections and restarts.            *)
(***************************************************************************)
THEOREM IdsCorrect == Spec => [](IdsIssued /\ JobIdsUnique)
<1>1. Init => IdsIssued /\ JobIdsUnique
  <2> SUFFICES ASSUME Init PROVE IdsIssued /\ JobIdsUnique  OBVIOUS
  <2>1. \A c \in Conns : DOMAIN notified[c] = {} /\ job_counter[c] = 0
    BY DEF Init
  <2>2. \A t \in Tasks : task[t].pc \in {"sleep", "read"}
    BY DEF Init, Asleep, Idle, Suspended
  <2> QED BY <2>1, <2>2 DEF IdsIssued, JobIdsUnique
<1>2. TypeOK /\ WorkIsLive /\ IdsIssued /\ JobIdsUnique /\ [Next]_vars
        => (IdsIssued /\ JobIdsUnique)'
  BY IdsStep
<1> QED BY <1>1, <1>2, PoolTypeCorrect, PTL DEF Spec

-----------------------------------------------------------------------------
\* No worker's statistics go down in a step that is no restart.
StatsKept ==
  run' = run => \A w \in DOMAIN worker_stats :
    /\ w \in DOMAIN worker_stats'
    /\ worker_stats'[w].best_diff >= worker_stats[w].best_diff
    /\ worker_stats'[w].shares >= worker_stats[w].shares

\* Every action keeps or raises them.
LEMMA StatsStep == ASSUME TypeOK, [Next]_vars PROVE StatsKept
<1> USE DEF nodeVars, connVars, histVars
<1>0. \A w \in DOMAIN worker_stats : worker_stats[w].best_diff \in Nat /\ worker_stats[w].shares \in Nat
  <2>1. \A w \in DOMAIN worker_stats : worker_stats[w] \in [shares : Nat, best_diff : Nat]
    BY DEF TypeOK
  <2> QED BY <2>1
<1>a. ASSUME UNCHANGED worker_stats PROVE StatsKept
  BY <1>0, <1>a DEF StatsKept
<1>1. CASE Restart
  <2>1. run' = run + 1 /\ run \in Int
    BY <1>1, PoolAssumption DEF Restart, TypeOK, Runs
  <2>2. run' # run  BY <2>1
  <2> QED BY <2>2 DEF StatsKept
<1>2. ASSUME NEW c \in Conns, NEW n \in Names, Authorize(c, n) PROVE StatsKept
  <2>1. CASE n \in DOMAIN worker_stats
    BY <1>2, <1>a, <2>1 DEF Authorize
  <2>2. CASE n \notin DOMAIN worker_stats
    <3>1. worker_stats' = With(worker_stats, n, NewStats)
      BY <1>2, <2>2 DEF Authorize
    <3>2. \A w \in DOMAIN worker_stats : w \in DOMAIN worker_stats' /\ worker_stats'[w] = worker_stats[w]
      BY <2>2, <3>1 DEF With
    <3> QED BY <1>0, <3>2 DEF StatsKept
  <2> QED BY <2>1, <2>2
<1>3. ASSUME NEW c \in Conns, NEW d \in Diffs, CountShare(c, d) PROVE StatsKept
  <2>0. d \in Nat  BY PoolAssumption
  <2> DEFINE w == worker_name[c]
             old == worker_stats[w]
  <2>1. CASE w \notin DOMAIN worker_stats
    BY <1>3, <1>a, <2>1 DEF CountShare
  <2>2. CASE w \in DOMAIN worker_stats
    <3>1. worker_stats' = [worker_stats EXCEPT ![w] =
            [shares |-> old.shares + 1,
             best_diff |-> IF d > old.best_diff THEN d ELSE old.best_diff]]
      BY <1>3, <2>2 DEF CountShare
    <3>2. /\ DOMAIN worker_stats' = DOMAIN worker_stats
          /\ \A x \in DOMAIN worker_stats \ {w} : worker_stats'[x] = worker_stats[x]
          /\ worker_stats'[w] = [shares |-> old.shares + 1,
                                 best_diff |-> IF d > old.best_diff THEN d ELSE old.best_diff]
      BY <2>2, <3>1 DEF TypeOK
    <3>3. /\ worker_stats'[w].shares = old.shares + 1
          /\ worker_stats'[w].best_diff = IF d > old.best_diff THEN d ELSE old.best_diff
      BY <3>2
    <3>4. old.shares \in Nat /\ old.best_diff \in Nat
      BY <1>0, <2>2
    <3> HIDE DEF w
    <3> QED BY <1>0, <2>0, <3>2, <3>3, <3>4 DEF StatsKept
  <2> QED BY <2>1, <2>2
<1>4. ASSUME NEW c \in Conns, NEW i, NEW d \in Diffs, SubmitShare(c, i, d) PROVE StatsKept
  BY <1>3, <1>4 DEF SubmitShare
<1>5. ASSUME NEW c \in Conns, NEW i, NEW d \in Diffs, NEW a, NEW up, SubmitBlock(c, i, d, a, up)
      PROVE  StatsKept
  BY <1>3, <1>5 DEF SubmitBlock
<1>6. ASSUME NEW t, NEW c, SendJob(t, c) PROVE StatsKept
  BY <1>6, <1>a DEF SendJob
<1>7. ASSUME NEW t, ResumeSendJob(t) PROVE StatsKept
  BY <1>7, <1>a DEF ResumeSendJob
<1>8. ASSUME NEW c \in Conns,
             PeerStep(c) \/ ReplyOnly(c) \/ ResumeReading(c) \/ HandlerEnds(c)
      PROVE  StatsKept
  BY <1>8, <1>a DEF PeerStep, Connect, PeerStalls, PeerResumes, PeerLeaves, SetPeer,
                    ReplyOnly, ResumeReading, HandlerEnds
<1>9. CASE NodeAdvances \/ BroadcasterWakes \/ BroadcasterResumes \/ UNCHANGED vars
  BY <1>9, <1>a DEF NodeAdvances, BroadcasterWakes, BroadcasterResumes, vars
<1> QED BY <1>1, <1>2, <1>4, <1>5, <1>6, <1>7, <1>8, <1>9
        DEF Next, Request, HandlerStep, EndOfInput, ResumeHandler,
            BroadcasterStep, BroadcasterSends

(***************************************************************************)
(* "Reconnecting worker ... keep best_diff": for any sequence of shares,   *)
(* reconnections and takeovers of a name, no worker's best difficulty or   *)
(* share count goes down while the process lives.                          *)
(***************************************************************************)
THEOREM StatsCorrect == Spec => BestDiffKept
<1>1. TypeOK /\ [Next]_vars => [StatsKept]_vars
  BY StatsStep
<1> QED BY <1>1, PoolTypeCorrect, PTL DEF Spec, BestDiffKept, StatsKept
=============================================================================

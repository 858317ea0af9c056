---------------------------- MODULE StratumPool ----------------------------
(***************************************************************************)
(* pool_v8.py: the Stratum solo pool.  One asyncio loop runs a handler     *)
(* coroutine per connection and one job_broadcaster.  rpc() and            *)
(* report_block_to_ui() block the loop, so between two awaits a coroutine  *)
(* is atomic; every `await self.send(...)` may suspend it, for as long as  *)
(* the peer does not read, while the other coroutines go on.  An action    *)
(* below runs from one suspension to the next.  Consecutive sends with no  *)
(* effect between them are one suspension.                                 *)
(*                                                                         *)
(* A connection object is used once; a name is a Stratum worker name; the  *)
(* address in it (extract_miner_address) is the constant Wallet.  A block  *)
(* template is the height of the tip it builds on, a difficulty a number.  *)
(***************************************************************************)
EXTENDS Integers, Sequences, Functions

CONSTANTS
  Conns, Names,
  EmptyNames,        \* names that are false in Python: "" (a null name acts alike)
  Wallet,            \* Wallet[n]: the address in name n, NoAddress if invalid
  POOL_ADDRESS,      \* the fallback payee, NoAddress (OP_TRUE) if not configured
  NoAddress, NoName,
  Broadcaster,       \* the job_broadcaster task
  MaxHistory,        \* 10 in send_job: evict when more jobs than this are kept
  POOL_SHARE_DIFF,
  NetDiff,           \* NetDiff[h]: network difficulty of a block on tip h
  Diffs,             \* difficulties a submitted share can have
  StartTime,         \* StartTime[r]: the second in which run r of the pool started
  SessionMod,        \* 2^16: SESSION_ID keeps the low 16 bits of StartTime
  MaxTip, MaxJobCounter, MaxShares     \* bounds

Runs == DOMAIN StartTime
Tasks == Conns \cup {Broadcaster}
Addresses == Range(Wallet) \cup {POOL_ADDRESS, NoAddress}

ASSUME PoolAssumption ==
  /\ Broadcaster \notin Conns /\ NoName \notin Names
  /\ Names # {} /\ Wallet \in [Names -> Addresses]
  /\ EmptyNames \subseteq Names /\ \A n \in EmptyNames : Wallet[n] = NoAddress
  /\ MaxHistory \in Nat /\ MaxTip \in Nat /\ MaxJobCounter \in Nat
  /\ MaxShares \in Nat /\ POOL_SHARE_DIFF \in Nat /\ NetDiff \in [0..MaxTip -> Nat]
  /\ Diffs \subseteq Nat
  /\ 1 \in Runs /\ StartTime \in Seq(Nat) /\ SessionMod \in Nat \ {0}

VARIABLES
  tip,          \* the node's active height
  accepted,     \* the node: blocks of the pool it has accepted
  run,          \* which run of the pool process this is
  miners,       \* registry: worker name -> connection
  worker_stats, \* worker name -> [shares, best_diff]
  status,       \* of a connection: "new", "open", "closed" (handler returned), "dead" (process gone)
  peer,         \* "reads", "stalled" (does not read) or "gone"
  worker_name, difficultySent, job_counter, jobs,   \* fields of StratumMiner
  task,         \* where a coroutine is suspended, and for which pending job
  todo,         \* job_broadcaster: rest of list(miners.values())
  names,        \* history: names a connection has authorized
  notified,     \* history: ids in the mining.notify messages to a connection
  rows          \* block reports the dashboard has received

nodeVars == <<tip, accepted>>
connVars == <<status, peer, worker_name, difficultySent, job_counter, jobs>>
histVars == <<names, notified>>
vars == <<nodeVars, run, miners, worker_stats, connVars, task, todo, histVars, rows>>

-----------------------------------------------------------------------------
NoJob == [n |-> 0, template |-> 0]
Suspended(pc, c, job) == [pc |-> pc, conn |-> c, job |-> job]
Idle(c) == Suspended("read", c, NoJob)
Asleep == Suspended("sleep", Broadcaster, NoJob)

\* SESSION_ID: the low bits of the second in which the process started.
SESSION_ID == StartTime[run] % SessionMod

JobId(n) == <<SESSION_ID, n>>

\* miner_wallet is set with worker_name, in one step, from the name alone.
extract_miner_address(name) == Wallet[name]

\* Slip: the pool's address first.
CoinbaseAddress_PoolFirst(name) == POOL_ADDRESS

\* coinbase_address = self.miner_wallet or POOL_ADDRESS (NoAddress: OP_TRUE)
CoinbaseAddress(name) ==
  IF name # NoName /\ extract_miner_address(name) # NoAddress
    THEN extract_miner_address(name) ELSE POOL_ADDRESS

Init ==
  /\ tip = 0 /\ accepted = {} /\ run = 1
  /\ miners = <<>> /\ worker_stats = <<>>
  /\ status = [c \in Conns |-> "new"]
  /\ peer = [c \in Conns |-> "reads"]
  /\ worker_name = [c \in Conns |-> NoName]
  /\ difficultySent = [c \in Conns |-> FALSE]
  /\ job_counter = [c \in Conns |-> 0]
  /\ jobs = [c \in Conns |-> <<>>]
  /\ task = [t \in Tasks |-> IF t = Broadcaster THEN Asleep ELSE Idle(t)]
  /\ todo = {}
  /\ names = [c \in Conns |-> {}] /\ notified = [c \in Conns |-> <<>>]
  /\ rows = {}

-----------------------------------------------------------------------------
(* The environment: the node's chain grows, peers stop and resume reading,  *)
(* connections come and go, the pool process is killed and started again.   *)

NodeAdvances ==
  /\ tip < MaxTip
  /\ tip' = tip + 1
  /\ UNCHANGED <<accepted, run, miners, worker_stats, connVars, task, todo, histVars, rows>>

Connect(c) ==
  /\ status[c] = "new"
  /\ status' = [status EXCEPT ![c] = "open"]
  /\ UNCHANGED <<nodeVars, run, miners, worker_stats, peer, worker_name, difficultySent,
                 job_counter, jobs, task, todo, histVars, rows>>

SetPeer(c, to) ==
  /\ status[c] \in {"open", "closed"}
  /\ peer' = [peer EXCEPT ![c] = to]
  /\ UNCHANGED <<nodeVars, run, miners, worker_stats, status, worker_name, difficultySent,
                 job_counter, jobs, task, todo, histVars, rows>>

PeerStalls(c) == peer[c] = "reads" /\ SetPeer(c, "stalled")
PeerResumes(c) == peer[c] = "stalled" /\ SetPeer(c, "reads")
PeerLeaves(c) == peer[c] # "gone" /\ SetPeer(c, "gone")

\* Everything the process kept is gone; the peers still know their job ids.
Restart ==
  /\ run + 1 \in Runs
  /\ run' = run + 1
  /\ miners' = <<>> /\ worker_stats' = <<>>
  /\ status' = [c \in Conns |-> IF status[c] = "new" THEN "new" ELSE "dead"]
  /\ jobs' = [c \in Conns |-> <<>>]
  /\ task' = [t \in Tasks |-> IF t = Broadcaster THEN Asleep ELSE Idle(t)]
  /\ todo' = {}
  /\ UNCHANGED <<nodeVars, peer, worker_name, difficultySent, job_counter, histVars, rows>>

-----------------------------------------------------------------------------
(* send_job, run by task t for connection c.                                *)

\* Slip: the newest job is evicted.
StoreJob_EvictsNewest(c, job) ==
  LET entry == [id |-> JobId(job.n), template |-> job.template,
                payee |-> CoinbaseAddress(worker_name[c])]
      kept == IF Len(jobs[c]) > MaxHistory THEN SubSeq(jobs[c], 1, MaxHistory) ELSE jobs[c]
  IN  /\ jobs' = [jobs EXCEPT ![c] = Append(kept, entry)]
      /\ notified' = [notified EXCEPT ![c] = Append(@, entry.id)]

\* From the eviction to mining.notify; the payee is read only here.
StoreJob(c, job) ==
  LET entry == [id |-> JobId(job.n), template |-> job.template,
                payee |-> CoinbaseAddress(worker_name[c])]
      kept == IF Len(jobs[c]) > MaxHistory THEN Tail(jobs[c]) ELSE jobs[c]
  IN  /\ jobs' = [jobs EXCEPT ![c] = Append(kept, entry)]
      /\ notified' = [notified EXCEPT ![c] = Append(@, entry.id)]

\* Slip: the counter is only advanced for jobs stored without a suspension.
SendJobStart_NumberAfterAwait(t, c) ==
  LET job == [n |-> job_counter[c] + 1, template |-> tip]
  IN  /\ job_counter[c] < MaxJobCounter
      /\ difficultySent' = [difficultySent EXCEPT ![c] = TRUE]
      /\ IF difficultySent[c]
           THEN /\ StoreJob(c, job)
                /\ job_counter' = [job_counter EXCEPT ![c] = @ + 1]
                /\ task' = [task EXCEPT ![t] = Suspended("drain", c, NoJob)]
           ELSE /\ task' = [task EXCEPT ![t] = Suspended("difficulty", c, job)]
                /\ UNCHANGED <<jobs, notified, job_counter>>

\* Slip: the height of the block to build is taken for that of its parent.
SendJobStart_NextHeight(t, c) ==
  LET job == [n |-> job_counter[c] + 1, template |-> tip + 1]
  IN  /\ job_counter[c] < MaxJobCounter
      /\ job_counter' = [job_counter EXCEPT ![c] = @ + 1]
      /\ difficultySent' = [difficultySent EXCEPT ![c] = TRUE]
      /\ IF difficultySent[c]
           THEN /\ StoreJob(c, job)
                /\ task' = [task EXCEPT ![t] = Suspended("drain", c, NoJob)]
           ELSE /\ task' = [task EXCEPT ![t] = Suspended("difficulty", c, job)]
                /\ UNCHANGED <<jobs, notified>>

\* getblocktemplate succeeds; the job gets its number before the first await.
SendJobStart(t, c) ==
  LET job == [n |-> job_counter[c] + 1, template |-> tip]
  IN  /\ job_counter[c] < MaxJobCounter
      /\ job_counter' = [job_counter EXCEPT ![c] = @ + 1]
      /\ difficultySent' = [difficultySent EXCEPT ![c] = TRUE]
      /\ IF difficultySent[c]
           THEN /\ StoreJob(c, job)
                /\ task' = [task EXCEPT ![t] = Suspended("drain", c, NoJob)]
           ELSE /\ task' = [task EXCEPT ![t] = Suspended("difficulty", c, job)]
                /\ UNCHANGED <<jobs, notified>>

\* Slip: a handler asks again until there is a template.
SendJobFails_Retries(t) ==
  /\ task' = [task EXCEPT ![t].pc = IF t = Broadcaster THEN "drain" ELSE "send_job"]
  /\ UNCHANGED <<job_counter, difficultySent, jobs, notified>>

\* getblocktemplate fails: send_job returns at once.
SendJobFails(t) ==
  /\ task' = [task EXCEPT ![t].pc = "drain"]
  /\ UNCHANGED <<job_counter, difficultySent, jobs, notified>>

SendJob(t, c) ==
  /\ SendJobStart(t, c) \/ SendJobFails(t)
  /\ UNCHANGED <<nodeVars, run, miners, worker_stats, status, peer, worker_name,
                 names, rows>>

\* A suspended send returns when the peer reads; it swallows a lost connection.
Resumable(t) == task[t].conn \in Conns => peer[task[t].conn] # "stalled"

\* Back from `await self.send_difficulty(...)`.
ResumeSendJob(t) ==
  LET c == task[t].conn
  IN  /\ task[t].pc = "difficulty" /\ Resumable(t)
      /\ StoreJob(c, task[t].job)
      /\ task' = [task EXCEPT ![t] = Suspended("drain", c, NoJob)]
      /\ UNCHANGED <<nodeVars, run, miners, worker_stats, status, peer, worker_name,
                     difficultySent, job_counter, todo, names, rows>>

-----------------------------------------------------------------------------
(* The handler of connection c.                                             *)

Reading(c) == status[c] = "open" /\ task[c].pc = "read"

\* subscribe, extranonce.subscribe, short params, unknown job: only a reply.
ReplyOnly(c) ==
  /\ Reading(c)
  /\ task' = [task EXCEPT ![c].pc = "drain"]
  /\ UNCHANGED <<nodeVars, run, miners, worker_stats, connVars, todo, histVars, rows>>

NewStats == [shares |-> 0, best_diff |-> 0]

With(f, x, y) == [z \in DOMAIN f \cup {x} |-> IF z = x THEN y ELSE f[z]]
Without(f, x) == Restrict(f, DOMAIN f \ {x})

\* Slip: a reconnecting worker starts from fresh statistics.
Authorize_ResetsStats(c, name) ==
  /\ Reading(c)
  /\ worker_name' = [worker_name EXCEPT ![c] = name]
  /\ names' = [names EXCEPT ![c] = @ \cup {name}]
  /\ miners' = With(miners, name, c)
  /\ worker_stats' = With(worker_stats, name, NewStats)
  /\ task' = [task EXCEPT ![c].pc = "send_job"]
  /\ UNCHANGED <<nodeVars, run, status, peer, difficultySent, job_counter, jobs, todo,
                 notified, rows>>

\* Slip: the old name's entry is deleted after the new one is made.
Authorize_DropsOldName(c, name) ==
  /\ Reading(c)
  /\ worker_name' = [worker_name EXCEPT ![c] = name]
  /\ names' = [names EXCEPT ![c] = @ \cup {name}]
  /\ miners' = Without(With(miners, name, c), worker_name[c])
  /\ worker_stats' = IF name \in DOMAIN worker_stats THEN worker_stats
                                                     ELSE With(worker_stats, name, NewStats)
  /\ task' = [task EXCEPT ![c].pc = "send_job"]
  /\ UNCHANGED <<nodeVars, run, status, peer, difficultySent, job_counter, jobs, todo,
                 notified, rows>>

\* mining.authorize, up to the reply.
Authorize(c, name) ==
  /\ Reading(c)
  /\ worker_name' = [worker_name EXCEPT ![c] = name]
  /\ names' = [names EXCEPT ![c] = @ \cup {name}]
  /\ miners' = With(miners, name, c)
  /\ worker_stats' = IF name \in DOMAIN worker_stats THEN worker_stats
                                                     ELSE With(worker_stats, name, NewStats)
  /\ task' = [task EXCEPT ![c].pc = "send_job"]
  /\ UNCHANGED <<nodeVars, run, status, peer, difficultySent, job_counter, jobs, todo,
                 notified, rows>>

\* The stats of a share are updated before it is judged.
CountShare(c, diff) ==
  LET w == worker_name[c]
  IN  worker_stats' =
        IF w \in DOMAIN worker_stats
          THEN [worker_stats EXCEPT ![w] =
                  [shares |-> @.shares + 1,
                   best_diff |-> IF diff > @.best_diff THEN diff ELSE @.best_diff]]
          ELSE worker_stats

CanCount(c) == \A w \in DOMAIN worker_stats : worker_stats[w].shares < MaxShares

MeetsTarget(job, diff) == diff > NetDiff[job.template]

\* A share of a known job that is too weak, or good but no block.
SubmitShare(c, i, diff) ==
  /\ Reading(c) /\ i \in DOMAIN jobs[c] /\ CanCount(c)
  /\ diff < POOL_SHARE_DIFF \/ ~MeetsTarget(jobs[c][i], diff)
  /\ CountShare(c, diff)
  /\ task' = [task EXCEPT ![c].pc = "drain"]
  /\ UNCHANGED <<nodeVars, run, miners, connVars, todo, histVars, rows>>

(***************************************************************************)
(* A share that is a block.  The node takes a block that builds on its tip *)
(* and answers any other with a reason; rpc() returns None both for        *)
(* "taken" and for every failure to ask, before or after the node saw it.  *)
(***************************************************************************)
SubmitBlock(c, i, diff, answer, uiUp) ==
  LET job == jobs[c][i]
      block == [conn |-> c, id |-> job.id]
      taken == answer \in {"taken", "taken_no_answer"}
  IN  /\ Reading(c) /\ i \in DOMAIN jobs[c] /\ CanCount(c)
      /\ diff >= POOL_SHARE_DIFF /\ MeetsTarget(job, diff)
      /\ CountShare(c, diff)
      /\ taken => job.template = tip /\ tip < MaxTip
      /\ tip' = IF taken THEN tip + 1 ELSE tip
      /\ accepted' = IF taken THEN accepted \cup {block} ELSE accepted
      /\ IF answer = "rejected"
           THEN /\ task' = [task EXCEPT ![c].pc = "drain"]
                /\ rows' = rows
           ELSE /\ task' = [task EXCEPT ![c].pc = "send_job"]
                /\ rows' = IF uiUp THEN rows \cup {block} ELSE rows
      /\ UNCHANGED <<run, miners, connVars, todo, histVars>>

Answers == {"taken", "taken_no_answer", "rejected", "no_answer"}

\* Back from the reply to authorize, or from client.show_message: send_job.
ResumeHandler(c) ==
  /\ task[c].pc = "send_job" /\ Resumable(c)
  /\ SendJob(c, c)
  /\ UNCHANGED todo

\* The last send of a request is done: back to readline.
ResumeReading(c) ==
  /\ task[c].pc = "drain" /\ Resumable(c)
  /\ task' = [task EXCEPT ![c].pc = "read"]
  /\ UNCHANGED <<nodeVars, run, miners, worker_stats, connVars, todo, histVars, rows>>

\* Slip: no finally clause.
HandlerEnds_NoCleanup(c) ==
  /\ Reading(c)
  /\ status' = [status EXCEPT ![c] = "closed"]
  /\ UNCHANGED <<nodeVars, run, miners, worker_stats, peer, worker_name, difficultySent,
                 job_counter, jobs, task, todo, histVars, rows>>

\* The loop of handle() is left: its finally clause, which passes over a
\* connection without a name and over an empty name.
HandlerEnds(c) ==
  /\ Reading(c)
  /\ status' = [status EXCEPT ![c] = "closed"]
  /\ miners' = IF worker_name[c] \in DOMAIN miners \ EmptyNames
                 THEN Without(miners, worker_name[c]) ELSE miners
  /\ UNCHANGED <<nodeVars, run, worker_stats, peer, worker_name, difficultySent, job_counter,
                 jobs, task, todo, histVars, rows>>

\* readline returns nothing.
EndOfInput(c) == peer[c] = "gone" /\ HandlerEnds(c)

-----------------------------------------------------------------------------
(* job_broadcaster.  The order of list(miners.values()) is not modelled.    *)

BroadcasterWakes ==
  /\ task[Broadcaster].pc = "sleep"
  /\ todo' = {<<n, miners[n]>> : n \in DOMAIN miners}
  /\ task' = [task EXCEPT ![Broadcaster].pc = IF todo' = {} THEN "sleep" ELSE "round"]
  /\ UNCHANGED <<nodeVars, run, miners, worker_stats, connVars, histVars, rows>>

BroadcasterSends(e) ==
  /\ task[Broadcaster].pc = "round" /\ e \in todo
  /\ todo' = todo \ {e}
  /\ SendJob(Broadcaster, e[2])

\* Back from mining.notify: the next miner, or sleep(30).
BroadcasterResumes ==
  /\ task[Broadcaster].pc = "drain" /\ Resumable(Broadcaster)
  /\ task' = [task EXCEPT ![Broadcaster] =
                IF todo = {} THEN Asleep ELSE Suspended("round", Broadcaster, NoJob)]
  /\ UNCHANGED <<nodeVars, run, miners, worker_stats, connVars, todo, histVars, rows>>

-----------------------------------------------------------------------------
HandlerStep(c) == ResumeHandler(c) \/ ResumeSendJob(c) \/ ResumeReading(c) \/ EndOfInput(c)

BroadcasterStep ==
  \/ BroadcasterWakes
  \/ \E e \in todo : BroadcasterSends(e)
  \/ ResumeSendJob(Broadcaster)
  \/ BroadcasterResumes

\* What a peer may send; readline raises on a line over its limit.
Request(c) ==
  \/ ReplyOnly(c)
  \/ HandlerEnds(c)
  \/ \E n \in Names : Authorize(c, n)
  \/ \E i \in DOMAIN jobs[c], d \in Diffs : SubmitShare(c, i, d)
  \/ \E i \in DOMAIN jobs[c], d \in Diffs, a \in Answers, up \in BOOLEAN :
       SubmitBlock(c, i, d, a, up)

PeerStep(c) == Connect(c) \/ PeerStalls(c) \/ PeerResumes(c) \/ PeerLeaves(c)

Next ==
  \/ NodeAdvances
  \/ Restart
  \/ \E c \in Conns : PeerStep(c) \/ Request(c) \/ HandlerStep(c)
  \/ BroadcasterStep

Spec == Init /\ [][Next]_vars

(***************************************************************************)
(* The event loop runs every handler that can go on.  Strong fairness for  *)
(* a suspended send: resume_writing() completes the waiter, so the         *)
(* coroutine goes on even if the peer stalls again at once.                *)
(***************************************************************************)
LoopFairness == \A c \in Conns : SF_vars(HandlerStep(c))

\* TCP: a peer that stops reading resumes, or its connection is reset.
PeerFairness == \A c \in Conns : WF_vars(PeerResumes(c))

FairSpec == Spec /\ LoopFairness /\ PeerFairness

-----------------------------------------------------------------------------
JobEntries == [id : Nat \X Nat, template : 0..MaxTip, payee : Addresses]
PendingJobs == [n : 0..MaxJobCounter, template : 0..MaxTip]
Pcs == {"read", "send_job", "difficulty", "drain", "sleep", "round"}
TaskStates == [pc : Pcs, conn : Tasks, job : PendingJobs]

TypeOK ==
  /\ tip \in 0..MaxTip
  /\ run \in Runs
  /\ DOMAIN miners \subseteq Names /\ miners \in [DOMAIN miners -> Conns]
  /\ DOMAIN worker_stats \subseteq Names
  /\ worker_stats \in [DOMAIN worker_stats -> [shares : Nat, best_diff : Nat]]
  /\ status \in [Conns -> {"new", "open", "closed", "dead"}]
  /\ peer \in [Conns -> {"reads", "stalled", "gone"}]
  /\ worker_name \in [Conns -> Names \cup {NoName}]
  /\ difficultySent \in [Conns -> BOOLEAN]
  /\ job_counter \in [Conns -> 0..MaxJobCounter]
  /\ jobs \in [Conns -> Seq(JobEntries)]
  /\ task \in [Tasks -> TaskStates]
  /\ todo \subseteq Names \X Conns
  /\ names \in [Conns -> SUBSET Names]
  /\ notified \in [Conns -> Seq(Nat \X Nat)]

(***************************************************************************)
(* A miner may answer any of the last MaxHistory + 1 jobs it was sent:     *)
(* what a connection keeps is exactly that suffix of its mining.notify     *)
(* messages, although its handler and the broadcaster both run send_job.   *)
(***************************************************************************)
RecentJobsResolve ==
  \A c \in Conns : status[c] # "dead" =>
    LET k == Len(jobs[c])
        m == Len(notified[c])
    IN  /\ k = IF m > MaxHistory + 1 THEN MaxHistory + 1 ELSE m
        /\ \A i \in 1..k : jobs[c][i].id = notified[c][m - k + i]

(***************************************************************************)
(* No two mining.notify messages of a connection carry one job id, nor     *)
(* will the job that a send_job suspended in send_difficulty still stores: *)
(* a submitted id means one template and one payee.                        *)
(***************************************************************************)
JobIdsUnique ==
  /\ \A c \in Conns : \A i, j \in DOMAIN notified[c] :
       notified[c][i] = notified[c][j] => i = j
  /\ \A t \in Tasks : task[t].pc = "difficulty" =>
       JobId(task[t].job.n) \notin Range(notified[task[t].conn])

(***************************************************************************)
(* Every job of a connection pays the address of a name that this very     *)
(* connection authorized, the fallback only if that name has no address.   *)
(***************************************************************************)
JobsPayTheMiner ==
  \A c \in Conns : \A i \in DOMAIN jobs[c] : \E n \in names[c] :
    jobs[c][i].payee = IF Wallet[n] # NoAddress THEN Wallet[n] ELSE POOL_ADDRESS

(***************************************************************************)
(* The registry maps a name to a connection that authorized it.  The       *)
(* finally clause of handle() leaves a finished connection there only      *)
(* under a name it gave up before it ended, or under an empty one.         *)
(***************************************************************************)
RegistryOwner ==
  \A n \in DOMAIN miners :
    /\ n \in names[miners[n]]
    /\ status[miners[n]] = "open" \/ worker_name[miners[n]] # n \/ n \in EmptyNames

(***************************************************************************)
(* job_broadcaster, "send new jobs to all miners": the name of an open     *)
(* connection has its place in the registry unless another connection that *)
(* had the name has ended, whose cleanup empties the place of both.        *)
(***************************************************************************)
BroadcastReachesAll ==
  \A c \in Conns : status[c] = "open" /\ worker_name[c] # NoName =>
    \/ worker_name[c] \in DOMAIN miners
    \/ \E d \in Conns \ {c} : status[d] = "closed" /\ worker_name[d] = worker_name[c]
                               /\ worker_name[c] \notin EmptyNames

(***************************************************************************)
(* The same without the exception, as job_broadcaster's docstring has it:  *)
(* "Periodically send new jobs to all miners".  The code does not keep it: *)
(* a worker reconnects, then the handler of its old connection ends.       *)
(***************************************************************************)
EveryMinerListed ==
  \A c \in Conns : status[c] = "open" /\ worker_name[c] # NoName =>
    worker_name[c] \in DOMAIN miners

(***************************************************************************)
(* "Reconnecting worker - update connect time but keep best_diff": while   *)
(* the process lives no worker's best difficulty or share count goes down. *)
(***************************************************************************)
BestDiffKept ==
  [][run' = run => \A w \in DOMAIN worker_stats :
       /\ w \in DOMAIN worker_stats'
       /\ worker_stats'[w].best_diff >= worker_stats[w].best_diff
       /\ worker_stats'[w].shares >= worker_stats[w].shares]_vars

\* Every request is answered: the handler comes back to readline.
RequestCompletes == \A c \in Conns : task[c].pc # "read" ~> task[c].pc = "read"
=============================================================================

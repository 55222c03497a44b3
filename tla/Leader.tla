------------------------------- MODULE Leader -------------------------------
(***************************************************************************)
(* Background jobs and leadership (internal/background).  Every instance   *)
(* supervises its own jobs; the singleton ones (alerts, retention, digest, *)
(* uptime, snoozes, auto-resolve) run under a leadership that the          *)
(* instances compete for: a PostgreSQL session advisory lock on a          *)
(* dedicated connection.                                                   *)
(*                                                                         *)
(* The lock belongs to a server session.  The server lets it go when it    *)
(* finds the connection dead, which may be before the instance finds out   *)
(* (at its next ping) or long after it closed its own end.                 *)
(***************************************************************************)
EXTENDS Naturals, FiniteSets

CONSTANTS
  Instance,   \* the replicas
  Job,        \* the singleton jobs
  Nobody,
  MaxFaults,  \* bound on lost connections, failed attempts, crashes and panics
  MaxStops    \* bound on orderly shutdowns

ASSUME LeaderAssumption ==
  /\ IsFiniteSet(Instance) /\ IsFiniteSet(Job) /\ Job # {}
  /\ Nobody \notin Instance
  /\ MaxFaults \in Nat /\ MaxStops \in Nat

VARIABLES
  up,     \* the instance's context is not cancelled
  pc,     \* where runAsLeader stands
  conn,   \* the dedicated connection as the instance's end sees it
  lock,   \* the instance whose session holds the advisory lock, or Nobody
  job,    \* job[i][j]: state of singleton job j under supervise on instance i
  local,  \* the job that every instance runs (the grouper)
  closed, \* Start's wait returned and the pool is closed
  faults, stops

leaderVars == <<up, pc, conn, lock, job, local, closed, faults, stops>>
bounds == <<faults, stops>>

\* leaderCtx: derived from the instance's context, cancelled when watchLeadership
\* finds the connection dead.
LeaderCtxAlive(i) == up[i] /\ pc[i] = "lead"
AllOff(i) == \A j \in Job : job[i][j] = "off"

LeaderInit ==
  /\ up = [i \in Instance |-> TRUE]
  /\ pc = [i \in Instance |-> "try"]
  /\ conn = [i \in Instance |-> "none"]
  /\ lock = Nobody
  /\ job = [i \in Instance |-> [j \in Job |-> "off"]]
  /\ local = [i \in Instance |-> "run"]
  /\ closed = [i \in Instance |-> FALSE]
  /\ faults = 0 /\ stops = 0

-----------------------------------------------------------------------------
(* runAsLeader *)

\* tryAcquireLeadership, and the start of the jobs when it succeeds.
Try(i) ==
  /\ pc[i] = "try" /\ up[i]
  /\ IF lock = Nobody
       THEN /\ lock' = i
            /\ conn' = [conn EXCEPT ![i] = "ok"]
            /\ pc' = [pc EXCEPT ![i] = "lead"]
            /\ job' = [job EXCEPT ![i] = [j \in Job |-> "run"]]
       ELSE pc' = [pc EXCEPT ![i] = "sleep"] /\ UNCHANGED <<lock, conn, job>>
  /\ UNCHANGED <<up, local, closed, bounds>>

\* The connection or the query fails.
TryFails(i) ==
  /\ pc[i] = "try" /\ up[i] /\ faults < MaxFaults
  /\ pc' = [pc EXCEPT ![i] = "sleep"]
  /\ faults' = faults + 1
  /\ UNCHANGED <<up, conn, lock, job, local, closed, stops>>

\* Mutant: the ping's result is ignored.
WatchBlind(i) ==
  /\ pc[i] = "lead" /\ ~up[i]
  /\ pc' = [pc EXCEPT ![i] = "drain"]
  /\ UNCHANGED <<up, conn, lock, job, local, closed, bounds>>

\* watchLeadership returns: the context ended, or a ping found the connection
\* dead and leadership is cancelled.
Watch(i) ==
  /\ pc[i] = "lead"
  /\ ~up[i] \/ conn[i] = "broken"
  /\ pc' = [pc EXCEPT ![i] = "drain"]
  /\ UNCHANGED <<up, conn, lock, job, local, closed, bounds>>

\* Mutant: the connection is closed without waiting for the jobs.
CloseEarly(i) ==
  /\ pc[i] = "drain"
  /\ lock' = IF lock = i /\ conn[i] = "ok" THEN Nobody ELSE lock
  /\ conn' = [conn EXCEPT ![i] = "none"]
  /\ pc' = [pc EXCEPT ![i] = "sleep"]
  /\ UNCHANGED <<up, job, local, closed, bounds>>

\* Every job has returned: close the connection.  A close that reaches the
\* server ends the session and frees the lock.
Close(i) ==
  /\ pc[i] = "drain" /\ AllOff(i)
  /\ lock' = IF lock = i /\ conn[i] = "ok" THEN Nobody ELSE lock
  /\ conn' = [conn EXCEPT ![i] = "none"]
  /\ pc' = [pc EXCEPT ![i] = "sleep"]
  /\ UNCHANGED <<up, job, local, closed, bounds>>

\* The leaderRetry timer fires, or the context ends; a cancelled context also
\* ends an attempt in progress.
Wake(i) ==
  /\ pc[i] = "sleep" \/ (pc[i] = "try" /\ ~up[i])
  /\ pc' = [pc EXCEPT ![i] = IF up[i] THEN "try" ELSE "stopped"]
  /\ UNCHANGED <<up, conn, lock, job, local, closed, bounds>>

-----------------------------------------------------------------------------
(* supervise *)

\* A singleton job returns once its context is cancelled.
JobStops(i, j) ==
  /\ job[i][j] # "off" /\ ~LeaderCtxAlive(i)
  /\ job' = [job EXCEPT ![i][j] = "off"]
  /\ UNCHANGED <<up, pc, conn, lock, local, closed, bounds>>

\* A job that its configuration disables returns on its own and is not run
\* again under this leadership.
JobReturns(i, j) ==
  /\ job[i][j] = "run" /\ LeaderCtxAlive(i)
  /\ job' = [job EXCEPT ![i][j] = "off"]
  /\ UNCHANGED <<up, pc, conn, lock, local, closed, bounds>>

JobPanics(i, j) ==
  /\ job[i][j] = "run" /\ faults < MaxFaults
  /\ job' = [job EXCEPT ![i][j] = "panicked"]
  /\ faults' = faults + 1
  /\ UNCHANGED <<up, pc, conn, lock, local, closed, stops>>

\* Mutant: a job that panicked is not run again.
JobRestartsNever(i, j) ==
  /\ job[i][j] = "panicked" /\ LeaderCtxAlive(i)
  /\ UNCHANGED leaderVars

JobRestarts(i, j) ==
  /\ job[i][j] = "panicked" /\ LeaderCtxAlive(i)
  /\ job' = [job EXCEPT ![i][j] = "run"]
  /\ UNCHANGED <<up, pc, conn, lock, local, closed, bounds>>

LocalStops(i) ==
  /\ local[i] # "off" /\ ~up[i]
  /\ local' = [local EXCEPT ![i] = "off"]
  /\ UNCHANGED <<up, pc, conn, lock, job, closed, bounds>>

LocalPanics(i) ==
  /\ local[i] = "run" /\ faults < MaxFaults
  /\ local' = [local EXCEPT ![i] = "panicked"]
  /\ faults' = faults + 1
  /\ UNCHANGED <<up, pc, conn, lock, job, closed, stops>>

LocalRestarts(i) ==
  /\ local[i] = "panicked" /\ up[i]
  /\ local' = [local EXCEPT ![i] = "run"]
  /\ UNCHANGED <<up, pc, conn, lock, job, closed, bounds>>

-----------------------------------------------------------------------------
(* The process and its surroundings *)

\* A signal: serveCmd's context is cancelled.
Stop(i) ==
  /\ up[i] /\ stops < MaxStops
  /\ up' = [up EXCEPT ![i] = FALSE]
  /\ stops' = stops + 1
  /\ UNCHANGED <<pc, conn, lock, job, local, closed, faults>>

\* Mutant: the pool is closed when the local jobs have stopped.
PoolClosesEarly(i) ==
  /\ ~up[i] /\ ~closed[i] /\ local[i] = "off"
  /\ closed' = [closed EXCEPT ![i] = TRUE]
  /\ UNCHANGED <<up, pc, conn, lock, job, local, bounds>>

\* waitJobs returns and the deferred pool.Close runs.
PoolCloses(i) ==
  /\ ~up[i] /\ ~closed[i]
  /\ pc[i] = "stopped" /\ local[i] = "off"
  /\ closed' = [closed EXCEPT ![i] = TRUE]
  /\ UNCHANGED <<up, pc, conn, lock, job, local, bounds>>

\* The process is killed.  The kernel closes its sockets; the server may learn
\* of it at once or much later.
Crash(i) ==
  /\ pc[i] # "stopped" /\ faults < MaxFaults
  /\ up' = [up EXCEPT ![i] = FALSE]
  /\ pc' = [pc EXCEPT ![i] = "stopped"]
  /\ conn' = [conn EXCEPT ![i] = "none"]
  /\ job' = [job EXCEPT ![i] = [j \in Job |-> "off"]]
  /\ local' = [local EXCEPT ![i] = "off"]
  /\ closed' = [closed EXCEPT ![i] = TRUE]
  /\ faults' = faults + 1
  /\ UNCHANGED <<lock, stops>>

Restart(i) ==
  /\ closed[i]
  /\ up' = [up EXCEPT ![i] = TRUE]
  /\ pc' = [pc EXCEPT ![i] = "try"]
  /\ local' = [local EXCEPT ![i] = "run"]
  /\ closed' = [closed EXCEPT ![i] = FALSE]
  /\ UNCHANGED <<conn, lock, job, bounds>>

\* The lock connection fails (network, server restart, terminated backend).
Break(i) ==
  /\ conn[i] = "ok" /\ faults < MaxFaults
  /\ conn' = [conn EXCEPT ![i] = "broken"]
  /\ faults' = faults + 1
  /\ UNCHANGED <<up, pc, lock, job, local, closed, stops>>

\* The server finds the holder's session dead and releases the lock.
ServerReleases ==
  /\ lock # Nobody /\ conn[lock] # "ok"
  /\ lock' = Nobody
  /\ UNCHANGED <<up, pc, conn, job, local, closed, bounds>>

-----------------------------------------------------------------------------
Lead(i) == Try(i) \/ TryFails(i) \/ Watch(i) \/ Close(i) \/ Wake(i)

Supervise(i) ==
  \/ \E j \in Job : \/ JobStops(i, j) \/ JobReturns(i, j)
                   \/ JobPanics(i, j) \/ JobRestarts(i, j)
  \/ LocalStops(i) \/ LocalPanics(i) \/ LocalRestarts(i)

Process(i) == Stop(i) \/ PoolCloses(i) \/ Crash(i) \/ Restart(i) \/ Break(i)

LeaderNext ==
  \/ \E i \in Instance : Lead(i) \/ Supervise(i) \/ Process(i)
  \/ ServerReleases

LeaderSpec == LeaderInit /\ [][LeaderNext]_leaderVars

\* Timers fire (retry, ping, restart pause), jobs return when their context is
\* cancelled, and the server finds dead sessions (TCP keepalive).
Fairness ==
  /\ \A i \in Instance :
       /\ WF_leaderVars(Try(i)) /\ WF_leaderVars(Watch(i)) /\ WF_leaderVars(Close(i)) /\ WF_leaderVars(Wake(i))
       /\ WF_leaderVars(PoolCloses(i)) /\ WF_leaderVars(LocalStops(i))
       /\ \A j \in Job : WF_leaderVars(JobStops(i, j)) /\ WF_leaderVars(JobRestarts(i, j))
  /\ WF_leaderVars(ServerReleases)

FairSpec == LeaderSpec /\ Fairness

-----------------------------------------------------------------------------
(* Properties *)

RunsSingletons(i) == ~AllOff(i)

\* Every variable has its type, and an instance has a lock connection exactly
\* while it leads or winds its jobs down: no attempt and no loss leaks one.
TypeOK ==
  /\ up \in [Instance -> BOOLEAN]
  /\ pc \in [Instance -> {"try", "lead", "drain", "sleep", "stopped"}]
  /\ conn \in [Instance -> {"none", "ok", "broken"}]
  /\ \A i \in Instance : conn[i] # "none" <=> pc[i] \in {"lead", "drain"}
  /\ lock \in Instance \cup {Nobody}
  /\ job \in [Instance -> [Job -> {"off", "run", "panicked"}]]
  /\ local \in [Instance -> {"off", "run", "panicked"}]
  /\ closed \in [Instance -> BOOLEAN]
  /\ faults \in 0 .. MaxFaults /\ stops \in 0 .. MaxStops

\* Singleton jobs run under the lock: an instance with a live lock connection
\* runs them only while it holds the lock, so that two instances run them at
\* once only until the one that lost its connection has noticed.
JobsRunUnderLock ==
  \A i \in Instance : RunsSingletons(i) => lock = i \/ conn[i] = "broken"

\* The pool closes after the last job: no job runs on a closed pool.
PoolOutlivesJobs ==
  \A i \in Instance : closed[i] => AllOff(i) /\ local[i] = "off"

\* A job that runs has what it relies on: the lock and an open pool (Start,
\* runAsLeader, serveCmd).
JobsHaveLockAndPool == JobsRunUnderLock /\ PoolOutlivesJobs

\* An instance that lost the lock connection stops its singleton jobs.
LostLeaderStops ==
  \A i \in Instance : (conn[i] = "broken") ~> AllOff(i)

\* The singleton jobs do not stay without a leader: a standby takes over from a
\* leader that stopped, crashed or was cut off.
Takeover ==
  []<>((\E i \in Instance : pc[i] = "lead" /\ lock = i) \/ (\A i \in Instance : ~up[i]))

\* A job that panicked runs again unless its leadership ends.
PanickedJobRestarts ==
  \A i \in Instance, j \in Job :
    (job[i][j] = "panicked") ~> (job[i][j] = "run" \/ ~LeaderCtxAlive(i))

\* The jobs keep going: leadership leaves an instance that has lost it and reaches
\* one that can lead, and a panic ends neither (watchLeadership, runAsLeader,
\* supervise).
JobsKeepGoing == LostLeaderStops /\ Takeover /\ PanickedJobRestarts

\* What the package comment promises of singleton jobs: one instance at a time.
OneInstanceAtATime ==
  \A i, k \in Instance : RunsSingletons(i) /\ RunsSingletons(k) => i = k
=============================================================================

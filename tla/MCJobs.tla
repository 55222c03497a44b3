------------------------------- MODULE MCJobs -------------------------------
(***************************************************************************)
(* The background jobs: leadership over the singleton ones, and the sweep  *)
(* of the job that every instance runs.  A behaviour is of one of the two; *)
(* the other stands still where nothing fair is enabled: the sweep with no *)
(* event, the instances stopped and not restarted.                         *)
(***************************************************************************)
EXTENDS Leader, GrouperSweep
VARIABLE part

\* Crashed and not restarted.
Stopped ==
  /\ up = [i \in Instance |-> FALSE] /\ pc = [i \in Instance |-> "stopped"]
  /\ conn = [i \in Instance |-> "none"] /\ lock = Nobody
  /\ job = [i \in Instance |-> [j \in Job |-> "off"]] /\ local = [i \in Instance |-> "off"]
  /\ closed = [i \in Instance |-> TRUE] /\ faults = 0 /\ stops = 0

MCInit ==
  /\ SweepInit
  /\ \/ part = "leader" /\ LeaderInit
     \/ part = "sweep" /\ Stopped

MCNext ==
  /\ UNCHANGED part
  /\ \/ part = "leader" /\ LeaderNext /\ UNCHANGED sweepVars
     \/ part = "sweep" /\ SweepNext /\ UNCHANGED leaderVars

MCSpec == MCInit /\ [][MCNext]_<<part, leaderVars, sweepVars>> /\ Fairness /\ SweepFairness
=============================================================================

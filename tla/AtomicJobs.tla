----------------------------- MODULE AtomicJobs -----------------------------
(***************************************************************************)
(* What the jobs client and the Jobs service promise together, with no     *)
(* messages, connections, lists or timeouts.  The jobs are created in      *)
(* order, and the oldest one is started when no other is in progress.  The *)
(* first time a job is carried out it is in progress, and it ends at most  *)
(* once, as a success only when it was carried out.                        *)
(***************************************************************************)
EXTENDS Naturals

CONSTANT Jobs   \* in the order of their creation

VARIABLES
  state,   \* of each job
  done     \* the jobs that were carried out

vars == <<state, done>>

TypeOK ==
  /\ state \in [Jobs -> {"none", "queued", "inProgress", "succeeded", "failed"}]
  /\ done \subseteq Jobs

Init == state = [j \in Jobs |-> "none"] /\ done = {}

Become(j, s) == state' = [state EXCEPT ![j] = s]

Create(j) ==
  /\ state[j] = "none"
  /\ \A k \in Jobs : k < j => state[k] # "none"
  /\ Become(j, "queued")
  /\ UNCHANGED done

Start(j) ==
  /\ state[j] = "queued"
  /\ \A k \in Jobs : state[k] # "inProgress" /\ (k < j => state[k] # "queued")
  /\ Become(j, "inProgress")
  /\ UNCHANGED done

CarryOut(j) ==
  /\ state[j] = "inProgress"
  /\ done' = done \cup {j}
  /\ UNCHANGED state

End(j, r) ==
  /\ state[j] = "inProgress"
  /\ r = "succeeded" => j \in done
  /\ Become(j, r)
  /\ UNCHANGED done

Next ==
  \E j \in Jobs :
    Create(j) \/ Start(j) \/ CarryOut(j) \/ \E r \in {"succeeded", "failed"} : End(j, r)

Spec == Init /\ [][Next]_vars
=============================================================================

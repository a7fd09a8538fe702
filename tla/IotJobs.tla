------------------------------ MODULE IotJobs ------------------------------
(***************************************************************************)
(* The AWS IoT Jobs client: app/aws_iot/iot_jobs_handler.c (event callback,*)
(* get, start-next and update procedures), iot_jobs_job_list.c and the     *)
(* loop of app/tasks/aws_iot_jobs_task.c, with the Jobs service at the     *)
(* other end of one MQTT connection that may be slow, lose messages, send  *)
(* a message twice or break down.                                          *)
(*                                                                         *)
(* Only the jobs task runs here.  The callback runs inside its waits, so   *)
(* IS_JOB_STARTED is always false when the callback reads it.              *)
(***************************************************************************)
EXTENDS Naturals, Sequences

CONSTANTS
  NJobs,      \* jobs the service may create, in the order of their numbers
  OtaJobs,    \* those whose document is a firmware update
  PrefixOf,   \* the pairs <<j, k>> in which the id of j is a prefix of that of k
  MaxList,    \* MAX_AWS_JOB_LIST_SIZE
  MaxSlow,    \* bound on the answers that miss their one second wait
  MaxLost,    \* bound on lost messages, broken connections and power cuts
  MaxStray    \* bound on answers sent twice or given on a later connection

NoJob == 0    \* the empty JOB_ID
Jobs == 1..NJobs

ASSUME JobsAssumption == NJobs \in Nat \ {0} /\ OtaJobs \subseteq Jobs
ASSUME PrefixAssumption ==
  PrefixOf \subseteq Jobs \X Jobs /\ \A j \in Jobs : <<j, j>> \in PrefixOf
ASSUME BoundAssumption ==
  /\ MaxList \in Nat \ {0}
  /\ MaxSlow \in Nat /\ MaxLost \in Nat /\ MaxStray \in Nat

Topic  == {"get", "start", "update"}
Result == {"succeeded", "failed"}
\* A published request and, with the service's answer in job, its acceptance.
Message == [topic : Topic, job : Jobs \cup {NoJob}, result : Result]

VARIABLES
  state,      \* the service: the state of each job execution
  req,        \* requests on their way to the service
  rep,        \* answers on their way to the device
  link,       \* the connection works
  pc,         \* where the jobs task stands
  list,       \* g_aws_job_id_list
  exec,       \* g_iot_jobs_execution_param.JOB_ID
  flags,      \* the g_recved_..._for_event_callback that are true
  result,     \* what start_job_document returned
  reboot,     \* enableReboot
  done,       \* history: jobs whose document was carried out
  slow, lost, stray

service == <<state, req>>
device == <<pc, list, exec, flags, result, reboot, done>>
faults == <<slow, lost, stray>>
vars == <<service, rep, link, device, faults>>

Wait(t) == CASE t = "get"    -> "waitGet"
             [] t = "start"  -> "waitStart"
             [] t = "update" -> "waitUpdate"
Waits == {"waitGet", "waitStart", "waitUpdate"}

TypeOK ==
  /\ state \in [Jobs -> {"none", "queued", "inProgress"} \cup Result]
  /\ req \in Seq(Message) /\ rep \in Seq(Message)
  /\ link \in BOOLEAN
  /\ pc \in Waits \cup {"down", "idle", "start", "run", "report"}
  /\ list \in Seq(Jobs) /\ Len(list) <= MaxList
  /\ exec \in Jobs \cup {NoJob}
  /\ flags \subseteq Topic
  /\ result \in Result
  /\ reboot \in BOOLEAN
  /\ done \subseteq Jobs
  /\ slow \in 0..MaxSlow /\ lost \in 0..MaxLost /\ stray \in 0..MaxStray

Msg(t, j, r) == [topic |-> t, job |-> j, result |-> r]

-----------------------------------------------------------------------------
(* The Jobs service.                                                       *)

CreateJob(j) ==
  /\ state[j] = "none"
  /\ j > 1 => state[j - 1] # "none"
  /\ state' = [state EXCEPT ![j] = "queued"]
  /\ UNCHANGED <<req, rep, link, device, faults>>

Answer(t, j) == rep' = IF link THEN Append(rep, Msg(t, j, "succeeded")) ELSE rep

In(s) == {j \in Jobs : state[j] = s}

\* jobs/get: queuedJobs[0], a queued job if there is one.
AnswerGet ==
  /\ \/ \E j \in In("queued") : Answer("get", j)
     \/ In("queued") = {} /\ Answer("get", NoJob)
  /\ UNCHANGED state

\* jobs/start-next: the job in progress, else the oldest queued job, else none.
AnswerStart ==
  LET open == IF In("inProgress") # {} THEN In("inProgress") ELSE In("queued")
  IN  \/ open = {} /\ Answer("start", NoJob) /\ UNCHANGED state
      \/ \E j \in open :
           /\ \A k \in open : j <= k
           /\ Answer("start", j)
           /\ state' = [state EXCEPT ![j] = "inProgress"]

\* jobs/<id>/update: rejected, and the device subscribes to no rejection, when
\* the execution has ended already or the id is empty.
AnswerUpdate(m) ==
  IF m.job \in In("queued") \cup In("inProgress")
    THEN Answer("update", m.job) /\ state' = [state EXCEPT ![m.job] = m.result]
    ELSE UNCHANGED <<state, rep>>

Serve ==
  /\ req # <<>>
  /\ req' = Tail(req)
  /\ \/ Head(req).topic = "get" /\ AnswerGet
     \/ Head(req).topic = "start" /\ AnswerStart
     \/ Head(req).topic = "update" /\ AnswerUpdate(Head(req))
  /\ UNCHANGED <<link, device, faults>>

-----------------------------------------------------------------------------
(* Faults.                                                                 *)

Duplicate ==
  /\ stray < MaxStray
  /\ rep # <<>>
  /\ rep' = Append(rep, Head(rep))
  /\ stray' = stray + 1
  /\ UNCHANGED <<service, link, device, slow, lost>>

LoseRequest == req # <<>> /\ req' = Tail(req) /\ UNCHANGED <<rep, link>>
LoseAnswer  == rep # <<>> /\ rep' = Tail(rep) /\ UNCHANGED <<req, link>>
BreakLink   == link /\ link' = FALSE /\ rep' = <<>> /\ req' \in {req, <<>>}

Lose ==
  /\ lost < MaxLost
  /\ lost' = lost + 1
  /\ LoseRequest \/ LoseAnswer \/ BreakLink
  /\ UNCHANGED <<state, device, slow, stray>>

-----------------------------------------------------------------------------
(* The jobs task.                                                          *)

Close ==
  /\ pc' = "down"
  /\ link' = FALSE
  /\ rep' = <<>>

\* What a reset clears.
Restart ==
  /\ Close
  /\ list' = <<>>
  /\ exec' = NoJob
  /\ flags' = {}
  /\ result' = "succeeded"
  /\ reboot' = FALSE

PowerCut ==
  /\ lost < MaxLost
  /\ lost' = lost + 1
  /\ Restart
  /\ UNCHANGED <<service, done, slow, stray>>

\* mqtt_transport_publish, and the state it is followed by.
Publish(m, to) ==
  /\ req' = IF link THEN Append(req, m) ELSE req
  /\ pc' = to
  /\ UNCHANGED <<rep, link>>

\* A request from the last connection that is still open is answered on the
\* new one, whose subscriptions are the same.
Connect ==
  /\ pc = "down"
  /\ \/ req = <<>> /\ UNCHANGED stray
     \/ req # <<>> /\ stray < MaxStray /\ stray' = stray + 1
  /\ pc' = "idle"
  /\ link' = TRUE
  /\ UNCHANGED <<service, rep, list, exec, flags, result, reboot, done, slow, lost>>

GetJobs ==
  /\ pc = "idle"
  /\ \/ Publish(Msg("get", NoJob, "succeeded"), "waitGet")
     \/ ~ link /\ Close /\ UNCHANGED req
  /\ UNCHANGED <<state, list, exec, flags, result, reboot, done, faults>>

\* The get timer has not elapsed.
SkipGet ==
  /\ pc = "idle"
  /\ pc' = "start"
  /\ UNCHANGED <<service, rep, link, list, exec, flags, result, reboot, done, faults>>

\* get_first_job_id: without a listed job there is nothing to start.
NoJobListed ==
  /\ pc = "start"
  /\ list = <<>>
  /\ reboot' = FALSE
  /\ pc' = "idle"
  /\ UNCHANGED <<service, rep, link, list, exec, flags, result, done, faults>>

StartNext ==
  /\ pc = "start"
  /\ list # <<>>
  /\ reboot' = FALSE
  /\ exec' = NoJob
  /\ \/ Publish(Msg("start", NoJob, "succeeded"), "waitStart")
     \/ ~ link /\ Close /\ UNCHANGED req
  /\ UNCHANGED <<state, list, flags, result, done, faults>>

\* is_exist_job_id compares as many characters as the new id has.
Listed(j) == \E i \in 1..Len(list) : <<j, list[i]>> \in PrefixOf

\* Mutant: nothing keeps the id within the list.
AddMutant(j) == IF Listed(j) THEN list ELSE Append(list, j)

\* add_job_id: a full list drops the id.
Add(j) ==
  IF Listed(j) \/ Len(list) = MaxList THEN list ELSE Append(list, j)

\* parsing_get_job_accepted fails when queuedJobs is empty.  The answers of the
\* service are JSON and their ids fit: its other two errors do not occur.
ParsedGet(m) == m.job \in Jobs

\* parsing_start_next_job_accepted is content with an answer that names no
\* execution: the id it hands over is then empty, and so is the document.
ParsedStart(m) == IF m.job \in Jobs THEN m.job ELSE NoJob

\* iot_jobs_event_callback, on the next answer, inside one of the waits; one
\* call of MQTT_ProcessLoop may hand over several.
Deliver ==
  /\ pc \in Waits
  /\ rep # <<>>
  /\ rep' = Tail(rep)
  /\ LET m == Head(rep)
     IN  /\ flags' = IF m.topic # "update" \/ (m.job = exec /\ exec # NoJob)
                       THEN flags \cup {m.topic} ELSE flags
         /\ exec' = IF m.topic = "start" THEN ParsedStart(m) ELSE exec
         /\ list' = IF m.topic = "get" /\ ParsedGet(m) THEN Add(m.job) ELSE list
  /\ UNCHANGED <<service, link, pc, result, reboot, done, faults>>

Received(t) == pc = Wait(t) /\ t \in flags

GetAccepted ==
  /\ Received("get")
  /\ flags' = flags \ {"get"}
  /\ pc' = "start"
  /\ UNCHANGED <<service, rep, link, list, exec, result, reboot, done, faults>>

StartAccepted ==
  /\ Received("start")
  /\ flags' = flags \ {"start"}
  /\ pc' = "run"
  /\ UNCHANGED <<service, rep, link, list, exec, result, reboot, done, faults>>

\* Mutant: the result of the job document is not looked at.
RunJobMutant ==
  /\ pc = "run"
  /\ pc' = "report"
  /\ result' = "succeeded"
  /\ \/ done' = done \cup ({exec} \cap Jobs) /\ reboot' = (exec \in OtaJobs)
     \/ exec \in OtaJobs /\ UNCHANGED <<done, reboot>>
  /\ UNCHANGED <<service, rep, link, list, exec, flags, faults>>

\* start_job_document: an update that is armed asks for a reboot, an empty or
\* a test document just succeeds.
RunJob ==
  /\ pc = "run"
  /\ pc' = "report"
  /\ \/ /\ result' = "succeeded"
        /\ done' = done \cup ({exec} \cap Jobs)
        /\ reboot' = (exec \in OtaJobs)
     \/ /\ exec \in OtaJobs
        /\ result' = "failed"
        /\ UNCHANGED <<done, reboot>>
  /\ UNCHANGED <<service, rep, link, list, exec, flags, faults>>

\* After the status update: a failed job closes the connection, an armed
\* update restarts the device, whose list and flags are gone.
Finish(rest, left) ==
  \/ /\ result = "failed"
     /\ Close
     /\ list' = rest /\ flags' = left
     /\ UNCHANGED <<exec, result, reboot>>
  \/ /\ result = "succeeded" /\ reboot
     /\ Restart
  \/ /\ result = "succeeded" /\ ~ reboot
     /\ pc' = "idle"
     /\ list' = rest /\ flags' = left
     /\ UNCHANGED <<rep, link, exec, result, reboot>>

Report ==
  /\ pc = "report"
  /\ \/ /\ Publish(Msg("update", exec, result), "waitUpdate")
        /\ UNCHANGED <<list, exec, flags, result, reboot>>
     \/ ~ link /\ Finish(list, flags) /\ UNCHANGED req
  /\ UNCHANGED <<state, done, faults>>

\* del_first_job_id takes the head off the list, whichever job has run.
UpdateAccepted ==
  /\ Received("update")
  /\ Finish(Tail(list), flags \ {"update"})
  /\ UNCHANGED <<service, done, faults>>

\* A second without the answer: none is coming, or it is slow.
Missed(t) ==
  /\ pc = Wait(t)
  /\ t \notin flags
  /\ IF req = <<>> /\ rep = <<>>
       THEN UNCHANGED slow
       ELSE slow < MaxSlow /\ slow' = slow + 1

\* Mutant: the connection is kept.
MissedClosesMutant(t) ==
  /\ Missed(t)
  /\ pc' = "idle"
  /\ UNCHANGED <<service, rep, link, list, exec, flags, result, reboot, done, lost, stray>>

\* Mutant: a job that cannot be started is taken off the list.
MissedDropsMutant(t) ==
  /\ Missed(t)
  /\ Close
  /\ list' = IF t = "start" THEN Tail(list) ELSE list
  /\ UNCHANGED <<service, exec, flags, result, reboot, done, lost, stray>>

\* The procedures that get and start a job fail, and the task closes.
MissedCloses(t) ==
  /\ Missed(t)
  /\ Close
  /\ UNCHANGED <<service, list, exec, flags, result, reboot, done, lost, stray>>

\* A status update that is not accepted leaves the job on the list.
UpdateMissed ==
  /\ Missed("update")
  /\ Finish(list, flags)
  /\ UNCHANGED <<service, done, lost, stray>>

Timeout == MissedCloses("get") \/ MissedCloses("start") \/ UpdateMissed

-----------------------------------------------------------------------------
Init ==
  /\ state = [j \in Jobs |-> "none"]
  /\ req = <<>> /\ rep = <<>> /\ link = FALSE
  /\ pc = "down"
  /\ list = <<>> /\ exec = NoJob /\ flags = {}
  /\ result = "succeeded" /\ reboot = FALSE
  /\ done = {}
  /\ slow = 0 /\ lost = 0 /\ stray = 0

DeviceStep ==
  \/ Connect \/ GetJobs \/ SkipGet \/ NoJobListed \/ StartNext \/ Deliver
  \/ GetAccepted \/ StartAccepted \/ RunJob \/ Report \/ UpdateAccepted
  \/ Timeout

Next ==
  \/ \E j \in Jobs : CreateJob(j)
  \/ Serve \/ Duplicate \/ Lose \/ PowerCut
  \/ DeviceStep

Spec == Init /\ [][Next]_vars

\* The task goes on, the service answers, and the get timer elapses.
FairSpec ==
  /\ Spec
  /\ WF_vars(DeviceStep) /\ WF_vars(Serve) /\ SF_vars(GetJobs)

-----------------------------------------------------------------------------
(* Properties.                                                             *)

\* The service records a job as succeeded only if this device carried its
\* document out, whatever answers were lost, late or repeated: the callback
\* may overwrite JOB_ID between the run and the report of a job.
SuccessIsTrue ==
  \A j \in Jobs : state[j] = "succeeded" => j \in done

\* A job whose end the service has recorded is not run again, although a late
\* answer to start-next may still name it (the answers are kept apart only by
\* closing the connection when start-next times out).
NoRunAfterEnd ==
  [][pc = "run" /\ pc' = "report" /\ exec # NoJob
       => state[exec] = "inProgress"]_vars

\* Every queued job is started at last, after any number of broken connections
\* and power cuts, with whatever the job list remembers of earlier jobs.
QueuedIsStarted ==
  \A j \in Jobs : state[j] = "queued" ~> state[j] # "queued"

\* As long as nothing is lost every job the service has is carried out or failed
\* at last, however many of the answers come later than the one second wait.
EveryJobEnds ==
  \A j \in Jobs : state[j] # "none" ~> state[j] \in Result \/ lost > 0

\* Taken together: without answers sent twice or on a later connection, the list,
\* the flags and the timeouts amount to jobs that are started in order, one at a
\* time, first carried out while in progress, and ended once and truthfully.
AJ == INSTANCE AtomicJobs

JobsAreAtomic == AJ!Spec
=============================================================================

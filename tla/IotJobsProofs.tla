-------------------------- MODULE IotJobsProofs --------------------------
(***************************************************************************)
(* Proofs about IotJobs, for any number of jobs, any ids, any length of    *)
(* the job list and any number of faults.                                  *)
(***************************************************************************)
EXTENDS IotJobs, SequenceTheorems, TLAPS

(* The inductive part of SuccessIsTrue: a success is true from the moment  *)
(* the document has run until the service has recorded it.                 *)
True(j, r) == r = "succeeded" /\ j \in Jobs => j \in done

RunIsTrue == pc = "report" => True(exec, result)
ReportIsTrue ==
  \A i \in 1..Len(req) : req[i].topic = "update" => True(req[i].job, req[i].result)

TruthInv == RunIsTrue /\ ReportIsTrue /\ SuccessIsTrue

(* TypeOK is not inductive: the job that is reported is taken off the list,*)
(* so the list must still have a head when the acceptance comes.           *)
BusyHasJob == pc \in {"waitStart", "run", "report", "waitUpdate"} => list # <<>>

(* A message is well formed.                                               *)
LEMMA MessageType ==
  ASSUME NEW t \in Topic, NEW j \in Jobs \cup {NoJob}, NEW r \in Result
  PROVE  Msg(t, j, r) \in Message
BY DEF Msg, Message

(* Appending a message to a queue of messages, and taking the first one.   *)
LEMMA QueueType ==
  ASSUME NEW q \in Seq(Message)
  PROVE  /\ \A m \in Message : Append(q, m) \in Seq(Message)
         /\ q # <<>> => Head(q) \in Message /\ Tail(q) \in Seq(Message)
OBVIOUS

(* The list never outgrows its array.                                      *)
LEMMA AddType ==
  ASSUME TypeOK, NEW j \in Jobs
  PROVE  Add(j) \in Seq(Jobs) /\ Len(Add(j)) <= MaxList
<1>1. /\ list \in Seq(Jobs) /\ Len(list) <= MaxList /\ Len(list) \in Nat
      /\ MaxList \in Nat
  BY BoundAssumption DEF TypeOK
<1>2. CASE Listed(j) \/ Len(list) = MaxList
  BY <1>1, <1>2 DEF Add
<1>3. CASE ~ (Listed(j) \/ Len(list) = MaxList)
  <2>1. j \in Jobs /\ Add(j) = Append(list, j)
    BY <1>3 DEF Add
  <2> QED BY <1>1, <1>3, <2>1
<1> QED BY <1>2, <1>3

(* The service's answers keep its records and the queue well typed.        *)
LEMMA ServeType ==
  ASSUME TypeOK, Serve
  PROVE  TypeOK'
<1>1. /\ Head(req) \in Message /\ req' \in Seq(Message)
      /\ UNCHANGED <<link, device, faults>>
  BY QueueType DEF TypeOK, Serve
<1>2. ASSUME NEW t \in Topic, NEW j \in Jobs \cup {NoJob}, Answer(t, j)
      PROVE  rep' \in Seq(Message)
  BY <1>2, MessageType, QueueType DEF TypeOK, Answer, Result
<1>3. \A s : In(s) \subseteq Jobs
  BY DEF In
<1> DEFINE StateOK == state' \in [Jobs -> {"none", "queued", "inProgress"} \cup Result]
<1>4. CASE AnswerGet
  <2>1. rep' \in Seq(Message)
    BY <1>2, <1>3, <1>4 DEF AnswerGet, Topic
  <2> QED BY <1>1, <1>4, <2>1 DEF AnswerGet, TypeOK, device, faults
<1>5. CASE AnswerStart
  <2> DEFINE open == IF In("inProgress") # {} THEN In("inProgress") ELSE In("queued")
  <2>1. open \subseteq Jobs
    BY <1>3
  <2>2. ASSUME Answer("start", NoJob), UNCHANGED state
        PROVE  rep' \in Seq(Message) /\ StateOK
    BY <1>2, <2>2 DEF TypeOK, Topic
  <2>3. ASSUME NEW j \in open, Answer("start", j),
               state' = [state EXCEPT ![j] = "inProgress"]
        PROVE  rep' \in Seq(Message) /\ StateOK
    <3>1. rep' \in Seq(Message)
      BY <1>2, <2>1, <2>3 DEF Topic
    <3> QED BY <2>1, <2>3, <3>1 DEF TypeOK
  <2>4. rep' \in Seq(Message) /\ StateOK
    BY <1>5, <2>2, <2>3 DEF AnswerStart, TypeOK
  <2> QED BY <1>1, <2>4 DEF TypeOK, device, faults
<1>6. CASE AnswerUpdate(Head(req))
  <2>1. Head(req).job \in Jobs \cup {NoJob} /\ Head(req).result \in Result
    BY <1>1 DEF Message
  <2>2. rep' \in Seq(Message) /\ StateOK
    BY <1>2, <1>3, <1>6, <2>1 DEF AnswerUpdate, TypeOK, Topic
  <2> QED BY <1>1, <2>2 DEF TypeOK, device, faults
<1> QED BY <1>4, <1>5, <1>6 DEF Serve

(* Closing, restarting and publishing.                                     *)
LEMMA CloseType ==
  ASSUME TypeOK, Close
  PROVE  pc' = "down" /\ link' \in BOOLEAN /\ rep' \in Seq(Message)
<1>1. <<>> \in Seq(Message)
  OBVIOUS
<1>2. pc' = "down" /\ link' = FALSE /\ rep' = <<>>
  BY DEF Close
<1> QED BY <1>1, <1>2

LEMMA RestartType ==
  ASSUME TypeOK, Restart, UNCHANGED <<state, req, done>>,
         slow' \in 0..MaxSlow, lost' \in 0..MaxLost, stray' \in 0..MaxStray
  PROVE  TypeOK'
<1>1. list' \in Seq(Jobs) /\ Len(list') <= MaxList
  BY BoundAssumption DEF Restart
<1>2. /\ exec' \in Jobs \cup {NoJob} /\ flags' \subseteq Topic
      /\ result' \in Result /\ reboot' \in BOOLEAN
  BY DEF Restart, Result
<1>3. pc' = "down" /\ link' \in BOOLEAN /\ rep' \in Seq(Message)
  BY CloseType DEF Restart
<1> QED BY <1>1, <1>2, <1>3 DEF TypeOK

LEMMA PublishType ==
  ASSUME TypeOK, NEW t \in Topic, NEW j \in Jobs \cup {NoJob}, NEW r \in Result,
         NEW to, Publish(Msg(t, j, r), to)
  PROVE  req' \in Seq(Message) /\ UNCHANGED <<rep, link>> /\ pc' = to
BY MessageType, QueueType DEF TypeOK, Publish

(* What follows the report of a job.                                       *)
LEMMA FinishType ==
  ASSUME TypeOK, NEW rest \in Seq(Jobs), Len(rest) <= MaxList,
         NEW left \in SUBSET Topic, Finish(rest, left),
         UNCHANGED <<state, req, done>>,
         slow' \in 0..MaxSlow, lost' \in 0..MaxLost, stray' \in 0..MaxStray
  PROVE  TypeOK'
<1>1. CASE /\ result = "failed" /\ Close /\ list' = rest /\ flags' = left
           /\ UNCHANGED <<exec, result, reboot>>
  BY <1>1, CloseType DEF TypeOK
<1>2. CASE Restart
  BY <1>2, RestartType
<1>3. CASE /\ pc' = "idle" /\ list' = rest /\ flags' = left
           /\ UNCHANGED <<rep, link, exec, result, reboot>>
  BY <1>3 DEF TypeOK
<1> QED BY <1>1, <1>2, <1>3 DEF Finish

(* Every step of the jobs task keeps the types.                            *)
LEMMA DeviceType ==
  ASSUME TypeOK, BusyHasJob, DeviceStep
  PROVE  TypeOK'
<1> USE DEF service, device, faults
<1>1. CASE Connect
  BY <1>1, BoundAssumption DEF TypeOK, Connect
<1>2. CASE GetJobs
  <2>1. CASE Publish(Msg("get", NoJob, "succeeded"), "waitGet")
    BY <1>2, <2>1, PublishType DEF GetJobs, TypeOK, Waits, Topic, Result
  <2>2. CASE Close /\ UNCHANGED req
    BY <1>2, <2>2, CloseType DEF GetJobs, TypeOK
  <2> QED BY <1>2, <2>1, <2>2 DEF GetJobs
<1>3. CASE SkipGet
  BY <1>3 DEF TypeOK, SkipGet
<1>4. CASE NoJobListed
  BY <1>4 DEF TypeOK, NoJobListed
<1>5. CASE StartNext
  <2>1. CASE Publish(Msg("start", NoJob, "succeeded"), "waitStart")
    BY <1>5, <2>1, PublishType DEF StartNext, TypeOK, Waits, Topic, Result
  <2>2. CASE Close /\ UNCHANGED req
    BY <1>5, <2>2, CloseType DEF StartNext, TypeOK
  <2> QED BY <1>5, <2>1, <2>2 DEF StartNext
<1>6. CASE Deliver
  <2>1. Head(rep) \in Message /\ rep' \in Seq(Message)
    BY <1>6, QueueType DEF TypeOK, Deliver
  <2>2. Head(rep).topic \in Topic /\ Head(rep).job \in Jobs \cup {NoJob}
    BY <2>1 DEF Message
  <2>3. list' \in Seq(Jobs) /\ Len(list') <= MaxList
    BY <1>6, <2>2, AddType DEF TypeOK, Deliver, ParsedGet
  <2>4. flags' \subseteq Topic /\ exec' \in Jobs \cup {NoJob}
    BY <1>6, <2>2 DEF TypeOK, Deliver, ParsedStart
  <2> QED BY <1>6, <2>1, <2>3, <2>4 DEF TypeOK, Deliver
<1>7. CASE GetAccepted
  BY <1>7 DEF TypeOK, GetAccepted
<1>8. CASE StartAccepted
  BY <1>8 DEF TypeOK, StartAccepted
<1>9. CASE RunJob
  <2>1. reboot' \in BOOLEAN
    <3>1. ASSUME reboot' = (exec \in OtaJobs)
          PROVE  reboot' \in BOOLEAN
      <4>1. (exec \in OtaJobs) = TRUE \/ (exec \in OtaJobs) = FALSE
        OBVIOUS
      <4> QED BY <3>1, <4>1
    <3>2. ASSUME UNCHANGED reboot
          PROVE  reboot' \in BOOLEAN
      BY <3>2 DEF TypeOK
    <3> QED BY <1>9, <3>1, <3>2 DEF RunJob
  <2>2. done' \subseteq Jobs /\ result' \in Result /\ pc' = "report"
    BY <1>9 DEF TypeOK, RunJob, Result
  <2> QED BY <1>9, <2>1, <2>2 DEF TypeOK, RunJob
<1>10. CASE Report
  <2>1. CASE /\ Publish(Msg("update", exec, result), "waitUpdate")
             /\ UNCHANGED <<list, exec, flags, result, reboot>>
    BY <1>10, <2>1, PublishType DEF Report, TypeOK, Waits, Topic
  <2>2. CASE Finish(list, flags) /\ UNCHANGED req
    BY <1>10, <2>2, FinishType DEF Report, TypeOK
  <2> QED BY <1>10, <2>1, <2>2 DEF Report
<1>11. CASE UpdateAccepted
  <2>1. list # <<>>
    BY <1>11 DEF UpdateAccepted, Received, Wait, BusyHasJob
  <2>2. Tail(list) \in Seq(Jobs) /\ Len(Tail(list)) <= MaxList
    BY <2>1, BoundAssumption DEF TypeOK
  <2>3. flags \ {"update"} \subseteq Topic
    BY DEF TypeOK
  <2> QED BY <1>11, <2>2, <2>3, FinishType DEF UpdateAccepted, TypeOK
<1>12. CASE Timeout
  <2>1. slow' \in 0..MaxSlow
    BY <1>12, BoundAssumption
    DEF TypeOK, Timeout, MissedCloses, UpdateMissed, Missed
  <2>2. CASE MissedCloses("get") \/ MissedCloses("start")
    BY <2>1, <2>2, CloseType DEF TypeOK, MissedCloses
  <2>3. CASE UpdateMissed
    BY <2>1, <2>3, FinishType DEF TypeOK, UpdateMissed
  <2> QED BY <1>12, <2>2, <2>3 DEF Timeout
<1> QED
  BY <1>1, <1>2, <1>3, <1>4, <1>5, <1>6, <1>7, <1>8, <1>9, <1>10, <1>11, <1>12
  DEF DeviceStep

(* Every step keeps the types.                                             *)
LEMMA NextType ==
  ASSUME TypeOK, BusyHasJob, Next
  PROVE  TypeOK'
<1> USE DEF service, device, faults
<1>1. ASSUME NEW j \in Jobs, CreateJob(j)
      PROVE  TypeOK'
  BY <1>1 DEF TypeOK, CreateJob
<1>2. CASE Serve
  BY <1>2, ServeType
<1>3. CASE Duplicate
  <2>1. rep' \in Seq(Message)
    BY <1>3, QueueType DEF TypeOK, Duplicate
  <2>2. stray' \in 0..MaxStray
    BY <1>3, BoundAssumption DEF TypeOK, Duplicate
  <2> QED BY <1>3, <2>1, <2>2 DEF TypeOK, Duplicate
<1>4. CASE Lose
  <2>1. lost' \in 0..MaxLost
    BY <1>4, BoundAssumption DEF TypeOK, Lose
  <2>2. <<>> \in Seq(Message)
    OBVIOUS
  <2>3. req' \in Seq(Message) /\ rep' \in Seq(Message) /\ link' \in BOOLEAN
    BY <1>4, <2>2, QueueType
    DEF TypeOK, Lose, LoseRequest, LoseAnswer, BreakLink
  <2> QED BY <1>4, <2>1, <2>3 DEF TypeOK, Lose
<1>5. CASE PowerCut
  <2>1. lost' \in 0..MaxLost
    BY <1>5, BoundAssumption DEF TypeOK, PowerCut
  <2> QED BY <1>5, <2>1, RestartType DEF TypeOK, PowerCut
<1>6. CASE DeviceStep
  BY <1>6, DeviceType
<1> QED BY <1>1, <1>2, <1>3, <1>4, <1>5, <1>6 DEF Next

(* While a job is being started, run or reported the list has a head.      *)
LEMMA NextBusy ==
  ASSUME TypeOK, BusyHasJob, Next
  PROVE  BusyHasJob'
<1> USE DEF service, device, faults
<1> DEFINE Busy == {"waitStart", "run", "report", "waitUpdate"}
<1>1. CASE pc' \notin Busy
  BY <1>1 DEF BusyHasJob
<1>2. CASE UNCHANGED <<pc, list>>
  BY <1>2 DEF BusyHasJob
<1>3. CASE Deliver
  <2>1. Head(rep).job \in Jobs \cup {NoJob}
    BY <1>3, QueueType DEF TypeOK, Deliver, Message
  <2>2. list # <<>> => Add(Head(rep).job) # <<>>
    BY <2>1 DEF TypeOK, Add
  <2> QED BY <1>3, <2>2 DEF Deliver, ParsedGet, BusyHasJob
<1>4. CASE StartNext
  BY <1>4 DEF StartNext, BusyHasJob
<1>5. CASE StartAccepted \/ RunJob
  BY <1>5 DEF StartAccepted, RunJob, Received, Wait, BusyHasJob
<1>6. CASE Report
  BY <1>6 DEF Report, Publish, Finish, Close, Restart, BusyHasJob
<1>7. CASE Connect \/ GetJobs \/ SkipGet \/ NoJobListed \/ GetAccepted \/ UpdateAccepted
  <2>1. pc' \notin Busy
    BY <1>7 DEF Connect, GetJobs, SkipGet, NoJobListed, GetAccepted,
                UpdateAccepted, Publish, Finish, Close, Restart
  <2> QED BY <1>1, <2>1
<1>8. CASE PowerCut \/ Timeout
  <2>1. pc' \notin Busy
    BY <1>8 DEF PowerCut, Timeout, MissedCloses, UpdateMissed, Finish, Close, Restart
  <2> QED BY <1>1, <2>1
<1>9. CASE \/ \E j \in Jobs : CreateJob(j)
           \/ Serve \/ Duplicate \/ Lose
  <2>1. UNCHANGED <<pc, list>>
    BY <1>9 DEF CreateJob, Serve, Duplicate, Lose
  <2> QED BY <1>2, <2>1
<1> QED
  BY <1>3, <1>4, <1>5, <1>6, <1>7, <1>8, <1>9 DEF Next, DeviceStep

(* The types of all variables, and the head of the list while a job is     *)
(* started, run or reported.                                               *)
THEOREM TypeCorrect == Spec => [](TypeOK /\ BusyHasJob)
<1>1. Init => TypeOK /\ BusyHasJob
  <2>1. ASSUME Init
        PROVE  req \in Seq(Message) /\ rep \in Seq(Message)
    BY <2>1 DEF Init
  <2>2. ASSUME Init
        PROVE  list \in Seq(Jobs) /\ Len(list) <= MaxList
    BY <2>2, BoundAssumption DEF Init
  <2>3. ASSUME Init
        PROVE  slow \in 0..MaxSlow /\ lost \in 0..MaxLost /\ stray \in 0..MaxStray
    BY <2>3, BoundAssumption DEF Init
  <2> QED BY <2>1, <2>2, <2>3 DEF Init, TypeOK, BusyHasJob, Result
<1>2. TypeOK /\ BusyHasJob /\ [Next]_vars => (TypeOK /\ BusyHasJob)'
  <2>1. CASE Next
    BY <2>1, NextType, NextBusy
  <2>2. CASE UNCHANGED vars
    BY <2>2 DEF vars, service, device, faults, TypeOK, BusyHasJob
  <2> QED BY <2>1, <2>2
<1> QED BY <1>1, <1>2, PTL DEF Spec

(* Truth of the reports survives whatever happens to the queue of requests.*)
LEMMA AppendIsTrue ==
  ASSUME TypeOK, ReportIsTrue, NEW m \in Message, req' = Append(req, m),
         done' = done, m.topic = "update" => True(m.job, m.result)
  PROVE  ReportIsTrue'
<1>1. ASSUME NEW i \in 1..Len(req')
      PROVE  (i \in 1..Len(req) /\ req'[i] = req[i]) \/ req'[i] = m
  BY <1>1 DEF TypeOK
<1> QED BY <1>1 DEF ReportIsTrue, True

LEMMA TailIsTrue ==
  ASSUME TypeOK, ReportIsTrue, req # <<>>, req' = Tail(req), done' = done
  PROVE  ReportIsTrue'
<1>1. ASSUME NEW i \in 1..Len(req')
      PROVE  i + 1 \in 1..Len(req) /\ req'[i] = req[i + 1]
  BY <1>1 DEF TypeOK
<1> QED BY <1>1 DEF ReportIsTrue, True

LEMMA SameIsTrue ==
  ASSUME TypeOK, ReportIsTrue, req' = req \/ req' = <<>>, done \subseteq done'
  PROVE  ReportIsTrue'
<1>1. CASE req' = req
  BY <1>1 DEF ReportIsTrue, True
<1>2. CASE req' = <<>>
  BY <1>2 DEF ReportIsTrue
<1> QED BY <1>1, <1>2

(* Publishing, on a connection that may be gone.                           *)
LEMMA PublishIsTrue ==
  ASSUME TypeOK, ReportIsTrue, NEW m \in Message, NEW to, Publish(m, to),
         done' = done, m.topic = "update" => True(m.job, m.result)
  PROVE  ReportIsTrue'
BY AppendIsTrue, SameIsTrue DEF Publish

(* Only the run of a document leads to its report.                         *)
LEMMA NextTruth ==
  ASSUME TypeOK, TruthInv, Next
  PROVE  TruthInv'
<1> USE DEF service, device, faults
<1>1. /\ RunIsTrue /\ ReportIsTrue /\ SuccessIsTrue
      /\ req \in Seq(Message) /\ state \in [Jobs -> {"none", "queued", "inProgress"} \cup Result]
  BY DEF TruthInv, TypeOK
\* A step that is no report, no run and no record keeps the whole.
<1>2. ASSUME req' = req \/ req' = <<>>, done' = done, pc' # "report",
             \A j \in Jobs : state'[j] = "succeeded" => state[j] = "succeeded"
      PROVE  TruthInv'
  BY <1>1, <1>2, SameIsTrue DEF TruthInv, RunIsTrue, SuccessIsTrue
<1>3. ASSUME NEW j \in Jobs, CreateJob(j)
      PROVE  TruthInv'
  <2>1. \A k \in Jobs : state'[k] = "succeeded" => state[k] = "succeeded"
    BY <1>1, <1>3 DEF CreateJob
  <2>2. ReportIsTrue'
    BY <1>1, <1>3, SameIsTrue DEF CreateJob
  <2> QED BY <1>1, <1>3, <2>1, <2>2
          DEF CreateJob, TruthInv, RunIsTrue, SuccessIsTrue, True
<1>4. CASE Serve
  <2>1. ReportIsTrue'
    BY <1>1, <1>4, TailIsTrue DEF Serve
  <2>2. UNCHANGED <<pc, exec, result, done>>
    BY <1>4 DEF Serve
  <2>3. SuccessIsTrue'
    <3>1. CASE AnswerGet
      BY <1>1, <2>2, <3>1 DEF AnswerGet, SuccessIsTrue
    <3>2. CASE AnswerStart
      <4>1. \A k \in Jobs : state'[k] = "succeeded" => state[k] = "succeeded"
        BY <1>1, <3>2 DEF AnswerStart, In
      <4> QED BY <1>1, <2>2, <4>1 DEF SuccessIsTrue
    <3>3. CASE Head(req).topic = "update" /\ AnswerUpdate(Head(req))
      <4>1. Head(req) = req[1] /\ 1 \in 1..Len(req)
        BY <1>1, <1>4 DEF Serve
      <4>2. True(Head(req).job, Head(req).result)
        BY <1>1, <3>3, <4>1 DEF ReportIsTrue
      <4> QED BY <1>1, <2>2, <3>3, <4>2 DEF AnswerUpdate, In, SuccessIsTrue, True
    <3> QED BY <1>4, <3>1, <3>2, <3>3 DEF Serve
  <2> QED BY <1>1, <2>1, <2>2, <2>3 DEF TruthInv, RunIsTrue, True
<1>5. CASE Duplicate
  BY <1>1, <1>5, SameIsTrue
  DEF Duplicate, TruthInv, RunIsTrue, SuccessIsTrue, True
<1>6. CASE Lose
  <2>1. ReportIsTrue'
    BY <1>1, <1>6, SameIsTrue, TailIsTrue
    DEF Lose, LoseRequest, LoseAnswer, BreakLink
  <2> QED BY <1>1, <1>6, <2>1 DEF Lose, TruthInv, RunIsTrue, SuccessIsTrue, True
<1>7. CASE PowerCut
  BY <1>2, <1>7 DEF PowerCut, Restart, Close
<1>8. CASE GetJobs
  <2>1. CASE Publish(Msg("get", NoJob, "succeeded"), "waitGet")
    <3>1. ReportIsTrue'
      BY <1>1, <1>8, <2>1, PublishIsTrue, MessageType DEF GetJobs, Msg, Topic, Result
    <3> QED BY <1>1, <1>8, <2>1, <3>1
            DEF GetJobs, Publish, TruthInv, RunIsTrue, SuccessIsTrue
  <2>2. CASE Close /\ UNCHANGED req
    BY <1>2, <1>8, <2>2 DEF GetJobs, Close
  <2> QED BY <1>8, <2>1, <2>2 DEF GetJobs
<1>9. CASE StartNext
  <2>1. CASE Publish(Msg("start", NoJob, "succeeded"), "waitStart")
    <3>1. ReportIsTrue'
      BY <1>1, <1>9, <2>1, PublishIsTrue, MessageType DEF StartNext, Msg, Topic, Result
    <3> QED BY <1>1, <1>9, <2>1, <3>1
            DEF StartNext, Publish, TruthInv, RunIsTrue, SuccessIsTrue
  <2>2. CASE Close /\ UNCHANGED req
    BY <1>2, <1>9, <2>2 DEF StartNext, Close
  <2> QED BY <1>9, <2>1, <2>2 DEF StartNext
<1>10. CASE RunJob
  <2>1. done \subseteq done'
    BY <1>10 DEF RunJob
  <2>2. ReportIsTrue'
    BY <1>1, <1>10, <2>1, SameIsTrue DEF RunJob
  <2>3. RunIsTrue'
    BY <1>10 DEF RunJob, RunIsTrue, True
  <2> QED BY <1>1, <1>10, <2>1, <2>2, <2>3 DEF RunJob, TruthInv, SuccessIsTrue
<1>11. CASE Report
  <2>1. CASE /\ Publish(Msg("update", exec, result), "waitUpdate")
             /\ UNCHANGED <<list, exec, flags, result, reboot>>
    <3>1. Msg("update", exec, result) \in Message
      BY MessageType DEF TypeOK, Topic
    <3>2. True(exec, result)
      BY <1>1, <1>11 DEF Report, RunIsTrue
    <3>3. ReportIsTrue'
      BY <1>1, <1>11, <2>1, <3>1, <3>2, PublishIsTrue DEF Report, Msg
    <3> QED BY <1>1, <1>11, <2>1, <3>3
            DEF Report, Publish, TruthInv, RunIsTrue, SuccessIsTrue
  <2>2. CASE Finish(list, flags) /\ UNCHANGED req
    BY <1>2, <1>11, <2>2 DEF Report, Finish, Restart, Close
  <2> QED BY <1>11, <2>1, <2>2 DEF Report
<1>12. CASE UpdateAccepted
  BY <1>2, <1>12 DEF UpdateAccepted, Finish, Restart, Close
<1>13. CASE Timeout
  BY <1>2, <1>13
  DEF Timeout, MissedCloses, UpdateMissed, Finish, Restart, Close
<1>14. CASE Connect \/ SkipGet \/ NoJobListed \/ GetAccepted \/ StartAccepted
  BY <1>2, <1>14 DEF Connect, SkipGet, NoJobListed, GetAccepted, StartAccepted
<1>15. CASE Deliver
  <2>1. pc' # "report"
    BY <1>15 DEF Deliver, Waits
  <2> QED BY <1>2, <1>15, <2>1 DEF Deliver
<1> QED
  BY <1>3, <1>4, <1>5, <1>6, <1>7, <1>8, <1>9, <1>10, <1>11, <1>12, <1>13, <1>14, <1>15
  DEF Next, DeviceStep

LEMMA TruthHolds == Spec => []TruthInv
<1>1. Init => TruthInv
  BY DEF Init, TruthInv, RunIsTrue, ReportIsTrue, SuccessIsTrue
<1>2. TypeOK /\ TruthInv /\ [Next]_vars => TruthInv'
  <2>1. ASSUME TypeOK, TruthInv, Next
        PROVE  TruthInv'
    BY <2>1, NextTruth
  <2>2. ASSUME TruthInv, UNCHANGED vars
        PROVE  TruthInv'
    BY <2>2
    DEF vars, service, device, faults, TruthInv, RunIsTrue, ReportIsTrue,
        SuccessIsTrue, True
  <2> QED BY <2>1, <2>2
<1>3. Spec => []TypeOK
  BY TypeCorrect, PTL
<1> QED BY <1>1, <1>2, <1>3, PTL DEF Spec

(* What the service records as succeeded was carried out, whatever was     *)
(* lost, late or repeated: any number of jobs, losses and stray answers.   *)
THEOREM ReportsAreTrue == Spec => []SuccessIsTrue
<1>1. TruthInv => SuccessIsTrue
  BY DEF TruthInv
<1> QED BY <1>1, TruthHolds, PTL

-----------------------------------------------------------------------------
(* No document is run of a job that has ended.  The argument: without stray *)
(* answers a request to start a job is the last one on its way, so nothing  *)
(* that follows the service's choice can end the chosen job before its run. *)
FreeOfStart(q) == \A i \in 1..Len(q) : q[i].topic # "start"
StartIsLast(q) == \A i \in 1..(Len(q) - 1) : q[i].topic # "start"
Ongoing(j) == j # NoJob => state[j] = "inProgress"

LinkInv ==
  /\ pc = "down" => ~ link
  /\ ~ link => rep = <<>>

RequestInv ==
  /\ pc \notin {"down", "waitStart"} => FreeOfStart(req)
  /\ pc = "waitStart" => StartIsLast(req)

StartsOngoing ==
  \A i \in 1..Len(rep) : rep[i].topic = "start" => Ongoing(rep[i].job)

AnswerInv ==
  /\ pc # "waitStart" => FreeOfStart(rep) /\ "start" \notin flags
  /\ ~ FreeOfStart(rep) => req = <<>> /\ StartIsLast(rep) /\ "start" \notin flags
  /\ StartsOngoing

ChosenInv == "start" \in flags \/ pc = "run" => req = <<>> /\ Ongoing(exec)

StartInv == LinkInv /\ RequestInv /\ AnswerInv /\ ChosenInv

(* Queues that hold no start, or only as their last message.               *)
LEMMA FreeQueue ==
  ASSUME NEW q \in Seq(Message)
  PROVE  /\ FreeOfStart(q) => StartIsLast(q)
         /\ FreeOfStart(<<>>)
         /\ q # <<>> /\ FreeOfStart(q) => FreeOfStart(Tail(q))
         /\ q # <<>> /\ StartIsLast(q) => StartIsLast(Tail(q))
         /\ \A m \in Message :
              FreeOfStart(q) => /\ StartIsLast(Append(q, m))
                                /\ m.topic # "start" => FreeOfStart(Append(q, m))
<1>1. FreeOfStart(q) => StartIsLast(q)
  BY DEF FreeOfStart, StartIsLast
<1>2. FreeOfStart(<<>>)
  BY DEF FreeOfStart
<1>3. ASSUME q # <<>>
      PROVE  /\ Len(Tail(q)) = Len(q) - 1
             /\ \A i \in 1..Len(Tail(q)) : i + 1 \in 1..Len(q) /\ Tail(q)[i] = q[i + 1]
  BY <1>3
<1>4. ASSUME q # <<>>, FreeOfStart(q) PROVE FreeOfStart(Tail(q))
  BY <1>3, <1>4 DEF FreeOfStart
<1>5. ASSUME q # <<>>, StartIsLast(q) PROVE StartIsLast(Tail(q))
  BY <1>3, <1>5 DEF StartIsLast
<1>6. ASSUME NEW m \in Message
      PROVE  /\ Len(Append(q, m)) = Len(q) + 1
             /\ \A i \in 1..Len(q) : Append(q, m)[i] = q[i]
             /\ Append(q, m)[Len(q) + 1] = m
  BY <1>6
<1>7. ASSUME NEW m \in Message, FreeOfStart(q)
      PROVE  /\ StartIsLast(Append(q, m))
             /\ m.topic # "start" => FreeOfStart(Append(q, m))
  BY <1>6, <1>7 DEF FreeOfStart, StartIsLast
<1> QED BY <1>1, <1>2, <1>4, <1>5, <1>7

(* A start that is first and last is the only message.                     *)
LEMMA LoneStart ==
  ASSUME NEW q \in Seq(Message), q # <<>>, StartIsLast(q), Head(q).topic = "start"
  PROVE  Tail(q) = <<>>
<1>1. Len(q) \in Nat \ {0} /\ Head(q) = q[1]
  OBVIOUS
<1>2. Len(q) = 1
  <2>1. Len(q) - 1 < 1
    BY <1>1 DEF StartIsLast
  <2> QED BY <1>1, <2>1
<1>3. Tail(q) \in Seq(Message) /\ Len(Tail(q)) = 0
  BY <1>2
<1> QED BY <1>3, EmptySeq

(* The device closes, or restarts.                                         *)
LEMMA CloseStart ==
  ASSUME TypeOK, StartInv, Close, "start" \notin flags'
  PROVE  StartInv'
<1>1. pc' = "down" /\ link' = FALSE /\ rep' = <<>>
  BY DEF Close
<1>2. FreeOfStart(rep') /\ Len(rep') = 0
  BY <1>1 DEF FreeOfStart
<1> QED BY <1>1, <1>2 DEF StartInv, LinkInv, RequestInv, AnswerInv, ChosenInv, FreeOfStart,
                                  StartsOngoing

(* What follows the report of a job.                                       *)
LEMMA FinishStart ==
  ASSUME TypeOK, StartInv, pc \in {"report", "waitUpdate"}, NEW rest,
         NEW left \in SUBSET flags, Finish(rest, left), UNCHANGED <<state, req>>
  PROVE  StartInv'
<1>1. "start" \notin flags
  BY DEF StartInv, AnswerInv
<1>2. CASE Close
  <2>1. "start" \notin flags'
    BY <1>1, <1>2 DEF Finish, Restart
  <2> QED BY <1>2, <2>1, CloseStart
<1>3. CASE pc' = "idle" /\ flags' = left /\ UNCHANGED <<rep, link, exec>>
  BY <1>1, <1>3 DEF StartInv, LinkInv, RequestInv, AnswerInv, ChosenInv, FreeOfStart, Ongoing,
             StartsOngoing
<1> QED BY <1>2, <1>3 DEF Finish, Restart

(* The service's answer is the first that may be about a start, and ends    *)
(* the requests if it is.                                                   *)
LEMMA ServeStart ==
  ASSUME TypeOK, StartInv, Serve
  PROVE  StartInv'
<1>1. /\ req # <<>> /\ req' = Tail(req) /\ Head(req) \in Message
      /\ req \in Seq(Message) /\ rep \in Seq(Message) /\ req' \in Seq(Message)
      /\ UNCHANGED <<link, pc, exec, flags>>
  BY QueueType DEF TypeOK, Serve, device
<1>2. FreeOfStart(rep) /\ "start" \notin flags /\ pc # "run"
  BY <1>1 DEF StartInv, AnswerInv, ChosenInv
<1>3. RequestInv'
  BY <1>1, FreeQueue DEF StartInv, RequestInv
<1>4. CASE rep' = rep
  <2>1. AnswerInv' /\ LinkInv' /\ ChosenInv'
    BY <1>1, <1>2, <1>4 DEF StartInv, AnswerInv, LinkInv, ChosenInv, FreeOfStart, StartsOngoing,
            Ongoing
  <2> QED BY <1>3, <2>1 DEF StartInv
<1>5. ASSUME NEW t \in Topic \ {"start"}, NEW j \in Jobs \cup {NoJob}, link,
             rep' = Append(rep, Msg(t, j, "succeeded"))
      PROVE  StartInv'
  <2>1. Msg(t, j, "succeeded") \in Message /\ Msg(t, j, "succeeded").topic # "start"
    BY <1>5, MessageType DEF Msg, Result
  <2>2. FreeOfStart(rep')
    BY <1>1, <1>2, <1>5, <2>1, FreeQueue
  <2>3. AnswerInv' /\ LinkInv' /\ ChosenInv'
    BY <1>1, <1>2, <1>5, <2>2 DEF StartInv, AnswerInv, LinkInv, ChosenInv, FreeOfStart, StartsOngoing,
            Ongoing
  <2> QED BY <1>3, <2>3 DEF StartInv
<1>6. CASE Head(req).topic = "get" /\ AnswerGet
  <2>1. PICK j \in Jobs \cup {NoJob} : Answer("get", j)
    BY <1>6 DEF AnswerGet, In
  <2> QED BY <1>4, <1>5, <2>1 DEF Answer, Topic
<1>7. CASE Head(req).topic = "update" /\ AnswerUpdate(Head(req))
  <2>1. CASE Head(req).job \in In("queued") \cup In("inProgress")
    <3>1. Head(req).job \in Jobs /\ Answer("update", Head(req).job)
      BY <1>7, <2>1 DEF AnswerUpdate, In
    <3> QED BY <1>4, <1>5, <3>1 DEF Answer, Topic
  <2>2. CASE Head(req).job \notin In("queued") \cup In("inProgress")
    BY <1>4, <1>7, <2>2 DEF AnswerUpdate
  <2> QED BY <2>1, <2>2
<1>8. CASE Head(req).topic = "start" /\ AnswerStart
  <2>1. pc \in {"down", "waitStart"}
    BY <1>1, <1>8 DEF StartInv, RequestInv, FreeOfStart
  <2>2. PICK j \in Jobs \cup {NoJob} : Answer("start", j) /\ Ongoing(j)'
    <3>1. CASE Answer("start", NoJob)
      BY <3>1 DEF Ongoing
    <3>2. ASSUME NEW k \in Jobs, Answer("start", k), state' = [state EXCEPT ![k] = "inProgress"]
          PROVE  Answer("start", k) /\ Ongoing(k)'
      BY <3>2 DEF TypeOK, Ongoing
    <3>3. In("inProgress") \subseteq Jobs /\ In("queued") \subseteq Jobs
      BY DEF In
    <3> QED BY <1>8, <3>1, <3>2, <3>3 DEF AnswerStart
  <2>3. CASE pc = "down" \/ ~ link
    <3>1. rep' = rep
      BY <2>2, <2>3 DEF Answer, StartInv, LinkInv
    <3> QED BY <1>4, <3>1
  <2>4. CASE pc = "waitStart" /\ link
    <3> DEFINE m == Msg("start", j, "succeeded")
    <3>1. m \in Message /\ m.topic = "start" /\ m.job = j
      BY MessageType DEF Msg, Result, Topic
    <3>2. rep' = Append(rep, m)
      BY <2>2, <2>4 DEF Answer
    <3>3. req' = <<>>
      BY <1>1, <1>8, <2>4, LoneStart DEF StartInv, RequestInv
    <3>4. StartIsLast(rep')
      BY <1>1, <1>2, <3>1, <3>2, FreeQueue
    <3>5. StartsOngoing'
      <4> HIDE DEF m
      <4>1. ASSUME NEW i \in 1..Len(rep') PROVE (i \in 1..Len(rep) /\ rep'[i] = rep[i]) \/ rep'[i] = m
        BY <1>1, <3>1, <3>2
      <4> QED BY <1>2, <2>2, <3>1, <4>1 DEF FreeOfStart, StartsOngoing, Ongoing
    <3>6. AnswerInv' /\ LinkInv' /\ ChosenInv'
      BY <1>1, <1>2, <2>4, <3>3, <3>4, <3>5 DEF AnswerInv, LinkInv, ChosenInv
    <3> QED BY <1>3, <3>6 DEF StartInv
  <2> QED BY <2>1, <2>3, <2>4
<1> QED BY <1>6, <1>7, <1>8 DEF Serve

(* The faults without stray answers.                                       *)
LEMMA LoseStart ==
  ASSUME TypeOK, StartInv, Lose
  PROVE  StartInv'
<1>1. /\ UNCHANGED <<state, pc, exec, flags>>
      /\ req \in Seq(Message) /\ rep \in Seq(Message)
  BY DEF TypeOK, Lose, device
<1>2. CASE LoseRequest
  <2>1. RequestInv'
    BY <1>1, <1>2, FreeQueue DEF LoseRequest, StartInv, RequestInv
  <2>2. AnswerInv' /\ LinkInv' /\ ChosenInv'
    BY <1>1, <1>2 DEF LoseRequest, StartInv, AnswerInv, LinkInv, ChosenInv, FreeOfStart,
                      StartIsLast, Ongoing, StartsOngoing
  <2> QED BY <2>1, <2>2 DEF StartInv
<1>3. CASE LoseAnswer
  <2>1. /\ rep # <<>> /\ rep' = Tail(rep) /\ UNCHANGED <<req, link>>
        /\ Len(rep') = Len(rep) - 1
        /\ \A i \in 1..Len(rep') : i + 1 \in 1..Len(rep) /\ rep'[i] = rep[i + 1]
    BY <1>1, <1>3 DEF LoseAnswer
  <2>2. /\ FreeOfStart(rep) => FreeOfStart(rep')
        /\ StartIsLast(rep) => StartIsLast(rep')
    BY <1>1, <2>1, FreeQueue
  <2>3. StartsOngoing'
    BY <1>1, <2>1 DEF StartInv, AnswerInv, StartsOngoing, Ongoing
  <2>4. AnswerInv'
    BY <1>1, <2>1, <2>2, <2>3 DEF StartInv, AnswerInv
  <2> QED BY <1>1, <2>1, <2>4 DEF StartInv, LinkInv, RequestInv, ChosenInv, Ongoing,
                                  FreeOfStart, StartIsLast
<1>4. CASE BreakLink
  <2>1. FreeOfStart(rep') /\ Len(rep') = 0 /\ rep' = <<>> /\ ~ link' /\ req' \in {req, <<>>}
    BY <1>4 DEF BreakLink, FreeOfStart
  <2>2. FreeOfStart(<<>>) /\ StartIsLast(<<>>)
    BY DEF FreeOfStart, StartIsLast
  <2> QED BY <1>1, <2>1, <2>2 DEF StartInv, LinkInv, RequestInv, AnswerInv, ChosenInv, Ongoing,
                                  FreeOfStart, StartIsLast, StartsOngoing
<1> QED BY <1>2, <1>3, <1>4 DEF Lose

(* The steps of the device.                                                *)
LEMMA DeviceStart ==
  ASSUME TypeOK, StartInv, MaxStray = 0, DeviceStep
  PROVE  StartInv'
<1> USE DEF service, device, faults
<1> DEFINE All == StartInv /\ LinkInv /\ RequestInv /\ AnswerInv /\ ChosenInv
<1>1. All /\ req \in Seq(Message) /\ rep \in Seq(Message) /\ FreeOfStart(<<>>)
  BY DEF StartInv, TypeOK, FreeOfStart
<1>2. CASE Connect
  <2>1. req = <<>>
    BY <1>2, BoundAssumption DEF Connect, TypeOK
  <2>2. pc = "down" /\ pc' = "idle" /\ link' /\ UNCHANGED <<state, req, rep, exec, flags>>
    BY <1>2 DEF Connect
  <2> QED BY <1>1, <2>1, <2>2 DEF StartInv, LinkInv, RequestInv, AnswerInv, ChosenInv,
                                  StartsOngoing, Ongoing, FreeOfStart, StartIsLast
<1>3. CASE GetJobs
  <2>1. pc = "idle" /\ UNCHANGED <<state, exec, flags>>
    BY <1>3 DEF GetJobs
  <2>2. CASE Publish(Msg("get", NoJob, "succeeded"), "waitGet")
    <3>1. /\ Msg("get", NoJob, "succeeded") \in Message
          /\ Msg("get", NoJob, "succeeded").topic # "start"
      BY MessageType DEF Topic, Result, Msg
    <3>2. FreeOfStart(req')
      BY <1>1, <2>1, <2>2, <3>1, FreeQueue DEF Publish, RequestInv
    <3>3. pc' = "waitGet" /\ UNCHANGED <<rep, link>>
      BY <2>2 DEF Publish
    <3> QED BY <1>1, <2>1, <3>2, <3>3
            DEF StartInv, LinkInv, RequestInv, AnswerInv, ChosenInv, StartsOngoing, Ongoing,
                FreeOfStart
  <2>3. CASE Close
    BY <1>1, <2>1, <2>3, CloseStart DEF AnswerInv
  <2> QED BY <1>3, <2>2, <2>3 DEF GetJobs
<1>4. CASE SkipGet \/ NoJobListed \/ GetAccepted
  <2>1. /\ pc \in {"idle", "start", "waitGet"} /\ pc' \in {"idle", "start"}
        /\ UNCHANGED <<state, req, rep, link, exec>> /\ flags' \subseteq flags
    BY <1>4 DEF SkipGet, NoJobListed, GetAccepted, Received, Wait
  <2> QED BY <1>1, <2>1
          DEF StartInv, LinkInv, RequestInv, AnswerInv, ChosenInv, StartsOngoing, Ongoing,
              FreeOfStart
<1>5. CASE StartNext
  <2>1. pc = "start" /\ "start" \notin flags /\ UNCHANGED <<state, flags>>
    BY <1>1, <1>5 DEF StartNext, AnswerInv
  <2>2. CASE Publish(Msg("start", NoJob, "succeeded"), "waitStart")
    <3>1. Msg("start", NoJob, "succeeded") \in Message
      BY MessageType DEF Topic, Result
    <3>2. StartIsLast(req')
      BY <1>1, <2>1, <2>2, <3>1, FreeQueue DEF Publish, RequestInv
    <3>3. pc' = "waitStart" /\ UNCHANGED <<rep, link>> /\ FreeOfStart(rep)
      BY <1>1, <2>1, <2>2 DEF Publish, AnswerInv
    <3> QED BY <1>1, <2>1, <3>2, <3>3
            DEF StartInv, LinkInv, RequestInv, AnswerInv, ChosenInv, StartsOngoing, Ongoing,
                FreeOfStart
  <2>3. CASE Close
    BY <1>1, <2>1, <2>3, CloseStart
  <2> QED BY <1>5, <2>2, <2>3 DEF StartNext
<1>6. CASE Deliver
  <2>1. /\ rep # <<>> /\ rep' = Tail(rep) /\ pc \in Waits /\ pc \notin {"down", "run"}
        /\ UNCHANGED <<state, req, link, pc>>
        /\ Len(rep') = Len(rep) - 1 /\ 1 \in 1..Len(rep) /\ Head(rep) = rep[1]
        /\ \A i \in 1..Len(rep') : i + 1 \in 1..Len(rep) /\ rep'[i] = rep[i + 1]
    BY <1>1, <1>6 DEF Deliver, Waits
  <2>2. StartsOngoing' /\ LinkInv' /\ RequestInv'
    BY <1>1, <2>1 DEF AnswerInv, LinkInv, RequestInv, StartsOngoing, Ongoing, FreeOfStart,
                      StartIsLast
  <2>3. /\ FreeOfStart(rep) => FreeOfStart(rep')
        /\ StartIsLast(rep) => StartIsLast(rep')
    BY <1>1, <2>1, FreeQueue
  <2>4. CASE Head(rep).topic = "start"
    <3>1. ~ FreeOfStart(rep)
      BY <2>1, <2>4 DEF FreeOfStart
    <3>2. req = <<>> /\ rep' = <<>> /\ pc = "waitStart"
      BY <1>1, <2>1, <2>4, <3>1, LoneStart DEF AnswerInv
    <3>3. exec' = Head(rep).job /\ Ongoing(Head(rep).job)
      <4>1. Head(rep).job \in Jobs \cup {NoJob}
        BY <1>1, <2>1, QueueType DEF TypeOK, Message
      <4>2. exec' = Head(rep).job
        BY <1>6, <2>4, <4>1 DEF Deliver, ParsedStart
      <4> QED BY <1>1, <2>1, <2>4, <4>2 DEF AnswerInv, StartsOngoing
    <3> QED BY <1>1, <2>1, <2>2, <3>2, <3>3 DEF StartInv, AnswerInv, ChosenInv, Ongoing
  <2>5. CASE Head(rep).topic # "start"
    <3>1. exec' = exec /\ ("start" \in flags' => "start" \in flags)
      BY <1>6, <2>5 DEF Deliver
    <3> QED BY <1>1, <2>1, <2>2, <2>3, <3>1 DEF StartInv, AnswerInv, ChosenInv, Ongoing
  <2> QED BY <2>4, <2>5
<1>7. CASE StartAccepted
  <2>1. /\ pc = "waitStart" /\ "start" \in flags /\ pc' = "run" /\ "start" \notin flags'
        /\ UNCHANGED <<state, req, rep, link, exec>>
    BY <1>7 DEF StartAccepted, Received, Wait
  <2> QED BY <1>1, <2>1
          DEF StartInv, LinkInv, RequestInv, AnswerInv, ChosenInv, StartsOngoing, Ongoing,
              FreeOfStart
<1>8. CASE RunJob
  <2>1. /\ pc = "run" /\ pc' = "report"
        /\ UNCHANGED <<state, req, rep, link, exec, flags>>
    BY <1>8 DEF RunJob
  <2> QED BY <1>1, <2>1
          DEF StartInv, LinkInv, RequestInv, AnswerInv, ChosenInv, StartsOngoing, Ongoing,
              FreeOfStart
<1>9. CASE Report
  <2>1. pc = "report" /\ "start" \notin flags /\ UNCHANGED state
    BY <1>1, <1>9 DEF Report, AnswerInv
  <2>2. CASE Publish(Msg("update", exec, result), "waitUpdate") /\ UNCHANGED <<exec, flags>>
    <3>1. /\ Msg("update", exec, result) \in Message
          /\ Msg("update", exec, result).topic # "start"
      BY MessageType DEF TypeOK, Topic, Msg
    <3>2. FreeOfStart(req')
      BY <1>1, <2>1, <2>2, <3>1, FreeQueue DEF Publish, RequestInv
    <3>3. pc' = "waitUpdate" /\ UNCHANGED <<rep, link>>
      BY <2>2 DEF Publish
    <3> QED BY <1>1, <2>1, <2>2, <3>2, <3>3
            DEF StartInv, LinkInv, RequestInv, AnswerInv, ChosenInv, StartsOngoing, Ongoing,
                FreeOfStart
  <2>3. CASE Finish(list, flags) /\ UNCHANGED req
    BY <1>1, <2>1, <2>3, FinishStart
  <2> QED BY <1>9, <2>2, <2>3 DEF Report
<1>10. CASE UpdateAccepted
  BY <1>1, <1>10, FinishStart DEF UpdateAccepted, Received, Wait
<1>11. CASE Timeout
  <2>1. ASSUME NEW t \in {"get", "start"}, MissedCloses(t) PROVE StartInv'
    <3>1. Close /\ "start" \notin flags'
      BY <1>1, <2>1 DEF MissedCloses, Missed, Wait, AnswerInv
    <3> QED BY <1>1, <3>1, CloseStart
  <2>2. CASE UpdateMissed
    BY <1>1, <2>2, FinishStart DEF UpdateMissed, Missed, Wait
  <2> QED BY <1>11, <2>1, <2>2 DEF Timeout
<1> QED
  BY <1>2, <1>3, <1>4, <1>5, <1>6, <1>7, <1>8, <1>9, <1>10, <1>11 DEF DeviceStep

LEMMA StartHolds ==
  ASSUME MaxStray = 0
  PROVE  Spec => [](TypeOK /\ StartInv)
<1>1. Init => StartInv
  BY DEF Init, StartInv, LinkInv, RequestInv, AnswerInv, ChosenInv, StartsOngoing, Ongoing,
         FreeOfStart, StartIsLast
<1>2. TypeOK /\ StartInv /\ [Next]_vars => StartInv'
  <2> SUFFICES ASSUME TypeOK, StartInv, [Next]_vars PROVE StartInv'
    OBVIOUS
  <2> USE DEF service, device, faults
  <2>1. ASSUME NEW j \in Jobs, CreateJob(j) PROVE StartInv'
    <3>1. /\ UNCHANGED <<req, rep, link, pc, exec, flags>>
          /\ \A k : Ongoing(k) => (k # NoJob => state'[k] = "inProgress")
      BY <2>1 DEF CreateJob, Ongoing, TypeOK
    <3> QED BY <3>1 DEF StartInv, LinkInv, RequestInv, AnswerInv, ChosenInv, StartsOngoing,
                        Ongoing, FreeOfStart, StartIsLast
  <2>2. CASE Duplicate
    BY <2>2, BoundAssumption DEF Duplicate, TypeOK
  <2>3. CASE PowerCut
    BY <2>3, CloseStart DEF PowerCut, Restart
  <2>4. CASE UNCHANGED vars
    BY <2>4 DEF vars, StartInv, LinkInv, RequestInv, AnswerInv, ChosenInv, StartsOngoing,
                Ongoing, FreeOfStart, StartIsLast
  <2> QED BY <2>1, <2>2, <2>3, <2>4, ServeStart, LoseStart, DeviceStart DEF Next
<1>3. Spec => []TypeOK
  BY TypeCorrect, PTL
<1> QED BY <1>1, <1>2, <1>3, PTL DEF Spec

(* Without stray answers the job that is run is one the service has in     *)
(* progress, however many answers are slow and how many are lost.          *)
THEOREM EndedStaysEnded ==
  ASSUME MaxStray = 0
  PROVE  Spec => NoRunAfterEnd
<1>1. StartInv /\ [Next]_vars =>
        [pc = "run" /\ pc' = "report" /\ exec # NoJob => state[exec] = "inProgress"]_vars
  BY DEF StartInv, ChosenInv, Ongoing
<1> QED BY <1>1, StartHolds, PTL DEF Spec, NoRunAfterEnd

-----------------------------------------------------------------------------
(* The client and the service together are AtomicJobs.  It takes that a job *)
(* which is reported, or named by an answer to start-next, was started once,*)
(* so that a report never ends a job that is still queued.                  *)
Started(s, j) == j \in Jobs => s[j] \notin {"none", "queued"}
StartedIn(s, q, t) == \A i \in 1..Len(q) : q[i].topic = t => Started(s, q[i].job)

StartedInv ==
  /\ Started(state, exec)
  /\ StartedIn(state, req, "update") /\ StartedIn(state, rep, "start")

(* The jobs are created in the order of their numbers.                      *)
CreatedInv ==
  \A j \in Jobs : state[j] # "none" => \A k \in Jobs : k < j => state[k] # "none"

LEMMA StartedQueue ==
  ASSUME NEW s, NEW t, NEW q \in Seq(Message)
  PROVE  /\ StartedIn(s, <<>>, t)
         /\ q # <<>> /\ StartedIn(s, q, t) =>
              /\ Head(q).topic = t => Started(s, Head(q).job)
              /\ StartedIn(s, Tail(q), t)
         /\ \A m \in Message :
              StartedIn(s, q, t) /\ (m.topic = t => Started(s, m.job))
                => StartedIn(s, Append(q, m), t)
<1>1. StartedIn(s, <<>>, t)
  BY DEF StartedIn
<1>2. ASSUME q # <<>>, StartedIn(s, q, t)
      PROVE  /\ Head(q).topic = t => Started(s, Head(q).job)
             /\ StartedIn(s, Tail(q), t)
  <2>1. /\ 1 \in 1..Len(q) /\ Head(q) = q[1]
        /\ \A i \in 1..Len(Tail(q)) : i + 1 \in 1..Len(q) /\ Tail(q)[i] = q[i + 1]
    BY <1>2
  <2> QED BY <1>2, <2>1 DEF StartedIn
<1>3. ASSUME NEW m \in Message, StartedIn(s, q, t), m.topic = t => Started(s, m.job)
      PROVE  StartedIn(s, Append(q, m), t)
  <2>1. \A i \in 1..Len(Append(q, m)) :
          (i \in 1..Len(q) /\ Append(q, m)[i] = q[i]) \/ Append(q, m)[i] = m
    OBVIOUS
  <2> QED BY <1>3, <2>1 DEF StartedIn
<1> QED BY <1>1, <1>2, <1>3

(* A started job stays started.                                             *)
Keeps(s, t) == \A j \in Jobs : s[j] \notin {"none", "queued"} => t[j] \notin {"none", "queued"}

LEMMA KeepsStarted ==
  ASSUME NEW s, NEW s2, Keeps(s, s2)
  PROVE  /\ \A j : Started(s, j) => Started(s2, j)
         /\ \A q, t : StartedIn(s, q, t) => StartedIn(s2, q, t)
BY DEF Keeps, Started, StartedIn

LEMMA AnswerKeeps ==
  ASSUME TypeOK, Serve
  PROVE  Keeps(state, state')
<1>1. Head(req) \in Message
  BY QueueType DEF TypeOK, Serve
<1>2. CASE AnswerGet
  BY <1>2 DEF AnswerGet, Keeps
<1>3. CASE AnswerStart
  BY <1>3 DEF AnswerStart, Keeps, TypeOK
<1>4. CASE AnswerUpdate(Head(req))
  <2>1. Head(req).result \in Result
    BY <1>1 DEF Message
  <2> QED BY <1>4, <2>1 DEF AnswerUpdate, Keeps, TypeOK, Result
<1> QED BY <1>2, <1>3, <1>4 DEF Serve

LEMMA NextKeeps ==
  ASSUME TypeOK, Next
  PROVE  Keeps(state, state')
<1>1. ASSUME NEW j \in Jobs, CreateJob(j) PROVE Keeps(state, state')
  BY <1>1 DEF CreateJob, Keeps, TypeOK
<1>2. CASE Duplicate \/ Lose \/ PowerCut \/ DeviceStep
  <2>1. state' = state
    BY <1>2 DEF Duplicate, Lose, PowerCut, DeviceStep, Connect, GetJobs, SkipGet,
       NoJobListed, StartNext, Deliver, GetAccepted, StartAccepted, RunJob, Report,
       UpdateAccepted, Timeout, MissedCloses, UpdateMissed, service
  <2> QED BY <2>1 DEF Keeps
<1> QED BY <1>1, <1>2, AnswerKeeps DEF Next

(* What the service answers names started jobs.                             *)
LEMMA ServeStarted ==
  ASSUME TypeOK, StartedInv, Serve
  PROVE  StartedInv'
<1>1. /\ req # <<>> /\ req' = Tail(req) /\ exec' = exec
      /\ req \in Seq(Message) /\ rep \in Seq(Message) /\ Keeps(state, state')
  BY AnswerKeeps DEF TypeOK, Serve, device
<1>2. /\ Started(state', exec) /\ StartedIn(state', req', "update")
      /\ StartedIn(state', rep, "start")
  BY <1>1, KeepsStarted, StartedQueue DEF StartedInv
<1>3. ASSUME NEW t \in Topic, NEW j \in Jobs \cup {NoJob}, Answer(t, j),
             t = "start" => Started(state', j)
      PROVE  StartedIn(state', rep', "start")
  <2> DEFINE m == Msg(t, j, "succeeded")
  <2>1. m \in Message /\ m.topic = t /\ m.job = j
    BY MessageType DEF Msg, Result
  <2>2. rep' = rep \/ rep' = Append(rep, m)
    BY <1>3 DEF Answer
  <2> HIDE DEF m
  <2> QED BY <1>1, <1>2, <1>3, <2>1, <2>2, StartedQueue
<1>4. CASE AnswerGet
  <2>1. PICK j \in Jobs \cup {NoJob} : Answer("get", j)
    BY <1>4 DEF AnswerGet, In
  <2>2. StartedIn(state', rep', "start")
    BY <1>3, <2>1 DEF Topic
  <2> QED BY <1>1, <1>2, <2>2 DEF StartedInv
<1>5. CASE AnswerStart
  <2>1. PICK j \in Jobs \cup {NoJob} : Answer("start", j) /\ Started(state', j)
    <3>1. CASE Answer("start", NoJob)
      BY <3>1 DEF Started, Jobs, NoJob
    <3>2. ASSUME NEW k \in Jobs, Answer("start", k),
                 state' = [state EXCEPT ![k] = "inProgress"]
          PROVE  Answer("start", k) /\ Started(state', k)
      BY <3>2 DEF TypeOK, Started
    <3>3. In("inProgress") \subseteq Jobs /\ In("queued") \subseteq Jobs
      BY DEF In
    <3> QED BY <1>5, <3>1, <3>2, <3>3 DEF AnswerStart
  <2>2. StartedIn(state', rep', "start")
    BY <1>3, <2>1 DEF Topic
  <2> QED BY <1>1, <1>2, <2>2 DEF StartedInv
<1>6. CASE AnswerUpdate(Head(req))
  <2>1. rep' = rep \/ \E j \in Jobs : Answer("update", j)
    BY <1>6 DEF AnswerUpdate, In
  <2>2. StartedIn(state', rep', "start")
    BY <1>2, <1>3, <2>1 DEF Topic
  <2> QED BY <1>1, <1>2, <2>2 DEF StartedInv
<1> QED BY <1>4, <1>5, <1>6 DEF Serve

(* What the device learns and sends names started jobs.                     *)
LEMMA DeviceStarted ==
  ASSUME TypeOK, StartedInv, DeviceStep
  PROVE  StartedInv'
<1>1. /\ state' = state
      /\ req \in Seq(Message) /\ rep \in Seq(Message) /\ Started(state, NoJob)
      /\ \A t : StartedIn(state, <<>>, t)
  <2>1. state' = state
    BY DEF DeviceStep, Connect, GetJobs, SkipGet, NoJobListed, StartNext, Deliver,
       GetAccepted, StartAccepted, RunJob, Report, UpdateAccepted, Timeout,
       MissedCloses, UpdateMissed, service
  <2>2. \A t : StartedIn(state, <<>>, t)
    BY DEF StartedIn
  <2> QED BY <2>1, <2>2 DEF TypeOK, Started, Jobs, NoJob
<1>2. ASSUME req' = req, rep' = rep \/ rep' = <<>>, exec' = exec \/ exec' = NoJob
      PROVE  StartedInv'
  BY <1>1, <1>2 DEF StartedInv
<1>3. ASSUME NEW m \in Message, NEW to, Publish(m, to),
             m.topic = "update" => m.job = exec, exec' = exec \/ exec' = NoJob
      PROVE  StartedInv'
  <2>1. StartedIn(state, req', "update") /\ rep' = rep
    BY <1>1, <1>3, StartedQueue DEF Publish, StartedInv
  <2> QED BY <1>1, <1>3, <2>1 DEF StartedInv
<1>4. CASE GetJobs
  <2>1. CASE Publish(Msg("get", NoJob, "succeeded"), "waitGet")
    BY <1>3, <1>4, <2>1, MessageType DEF GetJobs, Msg, Topic, Result
  <2> QED BY <1>2, <1>4, <2>1 DEF GetJobs, Close
<1>5. CASE StartNext
  <2>1. CASE Publish(Msg("start", NoJob, "succeeded"), "waitStart")
    BY <1>3, <1>5, <2>1, MessageType DEF StartNext, Msg, Topic, Result
  <2> QED BY <1>2, <1>5, <2>1 DEF StartNext, Close
<1>6. CASE Report
  <2>1. CASE Publish(Msg("update", exec, result), "waitUpdate") /\ UNCHANGED exec
    <3>1. /\ Msg("update", exec, result) \in Message
          /\ Msg("update", exec, result).job = exec
      BY MessageType DEF TypeOK, Topic, Msg
    <3> QED BY <1>3, <2>1, <3>1
  <2>2. CASE Finish(list, flags) /\ UNCHANGED req
    BY <1>2, <2>2 DEF Finish, Restart, Close
  <2> QED BY <1>6, <2>1, <2>2 DEF Report
<1>7. CASE Deliver
  <2>1. /\ rep # <<>> /\ rep' = Tail(rep) /\ req' = req
        /\ exec' = IF Head(rep).topic = "start" THEN Head(rep).job ELSE exec
    <3>1. rep # <<>> /\ Head(rep).job \in Jobs \cup {NoJob}
      BY <1>1, <1>7, QueueType DEF Deliver, TypeOK, Message
    <3>2. ParsedStart(Head(rep)) = Head(rep).job
      BY <3>1 DEF ParsedStart
    <3> QED BY <1>7, <3>1, <3>2 DEF Deliver, service
  <2> QED BY <1>1, <2>1, StartedQueue DEF StartedInv
<1>8. CASE \/ Connect \/ SkipGet \/ NoJobListed \/ GetAccepted \/ StartAccepted
           \/ RunJob \/ UpdateAccepted \/ Timeout
  BY <1>2, <1>8 DEF Connect, SkipGet, NoJobListed, GetAccepted, StartAccepted, RunJob,
     UpdateAccepted, Timeout, MissedCloses, UpdateMissed, Finish, Restart, Close, service
<1> QED BY <1>4, <1>5, <1>6, <1>7, <1>8 DEF DeviceStep

LEMMA StartedHolds == Spec => [](TypeOK /\ StartedInv /\ CreatedInv)
<1>1. Init => StartedInv /\ CreatedInv
  BY DEF Init, StartedInv, CreatedInv, Started, StartedIn, Jobs, NoJob
<1>2. TypeOK /\ StartedInv /\ [Next]_vars => StartedInv'
  <2> SUFFICES ASSUME TypeOK, StartedInv, [Next]_vars PROVE StartedInv'
    OBVIOUS
  <2>1. CASE UNCHANGED vars
    BY <2>1 DEF vars, service, device, StartedInv
  <2>2. ASSUME Next, rep' = rep, req' = req, exec' = exec PROVE StartedInv'
    BY <2>2, NextKeeps, KeepsStarted DEF StartedInv
  <2>3. ASSUME NEW j \in Jobs, CreateJob(j) PROVE StartedInv'
    BY <2>2, <2>3 DEF CreateJob, device, Next
  <2>4. CASE Duplicate
    <3>1. Head(rep) \in Message /\ rep \in Seq(Message)
      BY <2>4, QueueType DEF Duplicate, TypeOK
    <3> QED BY <2>4, <3>1, StartedQueue DEF Duplicate, StartedInv, service, device
  <2>5. CASE Lose
    <3>1. req \in Seq(Message) /\ rep \in Seq(Message)
      BY DEF TypeOK
    <3>2. /\ req' = req \/ req' = <<>> \/ (req # <<>> /\ req' = Tail(req))
          /\ rep' = rep \/ rep' = <<>> \/ (rep # <<>> /\ rep' = Tail(rep))
          /\ UNCHANGED <<state, exec>>
      BY <2>5 DEF Lose, LoseRequest, LoseAnswer, BreakLink, device
    <3>3. StartedIn(state, req', "update") /\ StartedIn(state, rep', "start")
      BY <3>1, <3>2, StartedQueue DEF StartedInv
    <3> QED BY <3>2, <3>3 DEF StartedInv
  <2>6. CASE PowerCut
    <3>1. UNCHANGED <<state, req>> /\ rep' = <<>> /\ exec' = NoJob
      BY <2>6 DEF PowerCut, Restart, Close, service
    <3> QED BY <3>1 DEF StartedInv, StartedIn, Started, Jobs, NoJob
  <2> QED BY <2>1, <2>3, <2>4, <2>5, <2>6, ServeStarted, DeviceStarted DEF Next
<1>3. TypeOK /\ CreatedInv /\ [Next]_vars => CreatedInv'
  <2> SUFFICES ASSUME TypeOK, CreatedInv, [Next]_vars PROVE CreatedInv'
    OBVIOUS
  <2>1. ASSUME \A j \in Jobs : (state'[j] = "none" <=> state[j] = "none") PROVE CreatedInv'
    BY <2>1 DEF CreatedInv
  <2>2. ASSUME NEW j \in Jobs, CreateJob(j) PROVE CreatedInv'
    <3>1. ASSUME NEW k \in Jobs, k < j PROVE state[k] # "none"
      <4>1. j - 1 \in Jobs /\ (k = j - 1 \/ k < j - 1) /\ state[j - 1] # "none"
        BY <2>2, <3>1, JobsAssumption DEF CreateJob, Jobs
      <4> QED BY <4>1 DEF CreatedInv
    <3>2. state[j] = "none" /\ state' = [state EXCEPT ![j] = "queued"]
      BY <2>2 DEF CreateJob
    <3> QED BY <3>1, <3>2 DEF CreatedInv, TypeOK
  <2>3. CASE Serve
    <3>1. Head(req) \in Message
      BY <2>3, QueueType DEF TypeOK, Serve
    <3>2. Head(req).result \in Result
      BY <3>1 DEF Message
    <3> QED BY <2>1, <2>3, <3>2
            DEF Serve, AnswerGet, AnswerStart, AnswerUpdate, In, TypeOK, Result
  <2>4. CASE Duplicate \/ Lose \/ PowerCut \/ DeviceStep \/ UNCHANGED vars
    <3>1. state' = state
      BY <2>4 DEF Duplicate, Lose, PowerCut, DeviceStep, Connect, GetJobs, SkipGet,
         NoJobListed, StartNext, Deliver, GetAccepted, StartAccepted, RunJob, Report,
         UpdateAccepted, Timeout, MissedCloses, UpdateMissed, service, vars
    <3> QED BY <2>1, <3>1
  <2> QED BY <2>2, <2>3, <2>4 DEF Next
<1>4. Spec => []TypeOK
  BY TypeCorrect, PTL
<1> QED BY <1>1, <1>2, <1>3, <1>4, PTL DEF Spec

(* The answers of the service start the oldest job, and end the one that    *)
(* was started.                                                             *)
LEMMA ServeRefines ==
  ASSUME TypeOK, TruthInv, StartedInv, Serve
  PROVE  [AJ!Next]_(AJ!vars)
<1>1. Head(req) \in Message /\ done' = done /\ req # <<>> /\ req \in Seq(Message)
  BY QueueType DEF TypeOK, Serve, device
<1>2. ASSUME state' = state PROVE [AJ!Next]_(AJ!vars)
  BY <1>1, <1>2 DEF AJ!vars
<1>3. CASE AnswerGet
  BY <1>2, <1>3 DEF AnswerGet
<1>4. CASE AnswerStart
  <2>1. CASE In("inProgress") # {}
    <3>1. state' = state
      BY <1>4, <2>1 DEF AnswerStart, In, TypeOK
    <3> QED BY <1>2, <3>1
  <2>2. CASE In("inProgress") = {} /\ state' # state
    <3>1. PICK j \in In("queued") : /\ \A k \in In("queued") : j <= k
                                    /\ state' = [state EXCEPT ![j] = "inProgress"]
      BY <1>4, <2>2 DEF AnswerStart
    <3>2. j \in Jobs /\ state[j] = "queued"
      BY <3>1 DEF In
    <3>3. \A k \in Jobs : state[k] # "inProgress" /\ (k < j => state[k] # "queued")
      BY <2>2, <3>1, <3>2, JobsAssumption DEF In, Jobs
    <3>4. AJ!Start(j)
      BY <1>1, <3>1, <3>2, <3>3 DEF AJ!Start, AJ!Become
    <3> QED BY <3>2, <3>4 DEF AJ!Next
  <2> QED BY <1>2, <2>1, <2>2
<1>5. CASE Head(req).topic = "update" /\ AnswerUpdate(Head(req))
  <2> DEFINE j == Head(req).job
             r == Head(req).result
  <2>1. CASE j \in In("queued") \cup In("inProgress")
    <3>1. j \in Jobs /\ Started(state, j)
      BY <1>1, <1>5, <2>1, StartedQueue DEF In, StartedInv
    <3>2. state[j] = "inProgress"
      BY <2>1, <3>1 DEF In, Started
    <3>3. r \in {"succeeded", "failed"} /\ (r = "succeeded" => j \in done)
      <4>1. Head(req) = req[1] /\ 1 \in 1..Len(req)
        BY <1>1
      <4> QED BY <1>1, <1>5, <3>1, <4>1 DEF Message, Result, TruthInv, ReportIsTrue, True
    <3>4. state' = [state EXCEPT ![j] = r]
      BY <1>5, <2>1 DEF AnswerUpdate
    <3> HIDE DEF j, r
    <3>5. AJ!End(j, r)
      BY <1>1, <3>2, <3>3, <3>4 DEF AJ!End, AJ!Become
    <3> QED BY <3>1, <3>3, <3>5 DEF AJ!Next
  <2>2. CASE j \notin In("queued") \cup In("inProgress")
    BY <1>2, <1>5, <2>2 DEF AnswerUpdate
  <2> QED BY <2>1, <2>2
<1> QED BY <1>3, <1>4, <1>5 DEF Serve

(* Without answers sent twice or on a later connection, the client and the  *)
(* service start the jobs in order and one at a time, carry each out first  *)
(* while it is in progress, and end it once and truthfully, whatever is     *)
(* slow or lost.                                                            *)
THEOREM JobsRefineAtomic ==
  ASSUME MaxStray = 0
  PROVE  Spec => JobsAreAtomic
<1>1. Init => AJ!Init
  BY DEF Init, AJ!Init
<1>2. TypeOK /\ StartInv /\ TruthInv /\ StartedInv /\ CreatedInv /\ [Next]_vars
      => [AJ!Next]_(AJ!vars)
  <2> SUFFICES ASSUME TypeOK, StartInv, TruthInv, StartedInv, CreatedInv, [Next]_vars
               PROVE  [AJ!Next]_(AJ!vars)
    OBVIOUS
  <2>1. ASSUME NEW j \in Jobs, CreateJob(j) PROVE [AJ!Next]_(AJ!vars)
    <3>1. ASSUME NEW k \in Jobs, k < j PROVE state[k] # "none"
      <4>1. j - 1 \in Jobs /\ (k = j - 1 \/ k < j - 1) /\ state[j - 1] # "none"
        BY <2>1, <3>1, JobsAssumption DEF CreateJob, Jobs
      <4> QED BY <4>1 DEF CreatedInv
    <3>2. AJ!Create(j)
      BY <2>1, <3>1 DEF CreateJob, device, AJ!Create, AJ!Become
    <3> QED BY <3>2 DEF AJ!Next
  <2>2. CASE RunJob
    <3>1. CASE exec \in Jobs /\ done' = done \cup ({exec} \cap Jobs)
      <4>1. state[exec] = "inProgress" /\ done' = done \cup {exec} /\ state' = state
        BY <2>2, <3>1 DEF RunJob, StartInv, ChosenInv, Ongoing, service, Jobs, NoJob
      <4>2. AJ!CarryOut(exec)
        BY <4>1 DEF AJ!CarryOut
      <4> QED BY <3>1, <4>2 DEF AJ!Next
    <3>2. CASE exec \notin Jobs \/ done' = done
      BY <2>2, <3>2 DEF RunJob, service, AJ!vars
    <3> QED BY <2>2, <3>1, <3>2 DEF RunJob
  <2>3. CASE Duplicate \/ Lose \/ PowerCut \/ UNCHANGED vars \/ (DeviceStep /\ ~ RunJob)
    <3>1. state' = state /\ done' = done
      BY <2>3 DEF Duplicate, Lose, PowerCut, DeviceStep, Connect, GetJobs, SkipGet,
         NoJobListed, StartNext, Deliver, GetAccepted, StartAccepted, Report,
         UpdateAccepted, Timeout, MissedCloses, UpdateMissed, service, device, vars
    <3> QED BY <3>1 DEF AJ!vars
  <2> QED BY <2>1, <2>2, <2>3, ServeRefines DEF Next
<1>3. Spec => []TruthInv
  BY TruthHolds
<1> QED
  BY <1>1, <1>2, <1>3, StartHolds, StartedHolds, PTL DEF Spec, JobsAreAtomic, AJ!Spec
=============================================================================

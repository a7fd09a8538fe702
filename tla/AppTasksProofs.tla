-------------------------- MODULE AppTasksProofs --------------------------
(***************************************************************************)
(* Proofs about AppTasks, for every failure limit and any number of        *)
(* certificates and faults.                                                *)
(***************************************************************************)
EXTENDS AppTasks, TLAPS

(* The isRun flag is the main task's promise: it is raised only in its     *)
(* loop, and stays down while a certificate is made and saved.             *)
RunInv == run => main = "loop"

(* What may be loaded is whole: a valid certificate was there at the boot, *)
(* and it is replaced only inside the save, which ends with a new one.     *)
WholeInv ==
  /\ main = "wait" => ~ valid
  /\ main # "save" /\ (valid \/ run) => cert # NoCert
  /\ main \in {"register", "save"} => fresh \in 1..made

(* What is about to be saved was registered.                               *)
RegisteredInv == main = "save" => fresh \in registered

(* A renewal is asked for until it has succeeded.                          *)
AskedInv == main \in Provisioning \cup {"retry"} => refresh

(* A running transport has an owner.                                       *)
OwnerInv ==
  /\ jobs = "wait" => ~ connected
  /\ mqtt = "running" => connected \/ main \in {"create", "register", "save"}

TasksInv == RunInv /\ WholeInv /\ RegisteredInv /\ AskedInv /\ OwnerInv

LEMMA FactIsBoolean ==
  ASSUME NEW a, NEW b
  PROVE  (a = b) \in BOOLEAN
<1>1. CASE a = b
  <2>1. (a = b) = TRUE
    BY <1>1
  <2> QED BY <2>1
<1>2. CASE a # b
  <2>1. (a = b) = FALSE
    BY <1>2
  <2> QED BY <2>1
<1> QED BY <1>1, <1>2

LEMMA FaultType ==
  ASSUME TypeOK, Fault \/ UNCHANGED faults
  PROVE  faults' \in 0..MaxFaults
BY TasksAssumption DEF TypeOK, Fault

(* The steps of the main task keep the types.                              *)
LEMMA MainType ==
  ASSUME TypeOK, TasksInv, MainStep
  PROVE  TypeOK'
<1> USE DEF flags, service, Provisioning
<1>1. CASE MainStart
  <2>1. valid' \in BOOLEAN /\ refresh' \in BOOLEAN
    <3>1. (cert = NoCert) \in BOOLEAN
      BY FactIsBoolean
    <3> QED BY <1>1, <3>1 DEF MainStart
  <2> QED BY <1>1, <2>1 DEF MainStart, TypeOK
<1>2. CASE ProvStart
  BY <1>2 DEF ProvStart, TypeOK
<1>3. CASE ProvConnected
  BY <1>3 DEF ProvConnected, TypeOK
<1>4. CASE CreateAccepted
  <2>1. made' \in Certs /\ fresh' \in Certs /\ registered' \subseteq 1..made'
    BY <1>4, TasksAssumption DEF CreateAccepted, TypeOK, Certs
  <2>2. /\ main' = "register"
        /\ UNCHANGED <<net, flags, connected, fails, jobs, mqtt, cert, shared, since,
                       faults>>
    BY <1>4 DEF CreateAccepted
  <2>3. /\ net' \in BOOLEAN /\ refresh' \in BOOLEAN /\ run' \in BOOLEAN
        /\ valid' \in BOOLEAN /\ connected' \in BOOLEAN /\ shared' \in BOOLEAN
        /\ fails' \in 0..(Width - 1) /\ since' \in 0..(MaxFail + 1)
        /\ jobs' \in {"wait", "loop", "connect"} /\ mqtt' \in {"idle", "running"}
        /\ cert' \in Certs \cup {NoCert} /\ faults' \in 0..MaxFaults
    BY <2>2 DEF TypeOK
  <2> QED BY <2>1, <2>2, <2>3 DEF TypeOK
<1>5. CASE RegisterAccepted
  BY <1>5 DEF RegisterAccepted, TypeOK, TasksInv, WholeInv
<1>6. CASE SaveCert
  <2>1. since' \in 0..(MaxFail + 1)
    BY <1>6, TasksAssumption DEF SaveCert
  <2>2. cert' \in Certs \cup {NoCert}
    BY <1>6 DEF SaveCert, TypeOK
  <2> QED BY <1>6, <2>1, <2>2 DEF SaveCert, TypeOK
<1>7. CASE ProvFailed
  <2>1. faults' \in 0..MaxFaults
    BY <1>7, FaultType DEF ProvFailed
  <2>2. registered' \subseteq 1..made
    BY <1>7 DEF ProvFailed, TypeOK, TasksInv, WholeInv
  <2> QED BY <1>7, <2>1, <2>2 DEF ProvFailed, TypeOK
<1>8. CASE Retry
  BY <1>8 DEF Retry, TypeOK
<1>9. CASE RunJobs
  BY <1>9 DEF RunJobs, TypeOK
<1> QED BY <1>1, <1>2, <1>3, <1>4, <1>5, <1>6, <1>7, <1>8, <1>9 DEF MainStep

(* So do those of the jobs task, the network and the power.                *)
LEMMA JobsType ==
  ASSUME TypeOK, JobsStep \/ NetUp \/ NetDown \/ PowerCut
  PROVE  TypeOK'
<1> USE DEF flags, service
<1>1. CASE JobsStart
  BY <1>1 DEF JobsStart, TypeOK
<1>2. ASSUME Iterate
      PROVE  refresh' \in BOOLEAN
  <2>1. (fails > MaxFail) = TRUE \/ (fails > MaxFail) = FALSE
    BY TasksAssumption DEF TypeOK
  <2>2. (refresh \/ fails > MaxFail) = TRUE \/ (refresh \/ fails > MaxFail) = FALSE
    BY <2>1
  <2> QED BY <1>2, <2>2 DEF Iterate
<1>3. CASE JobsStopped
  BY <1>2, <1>3 DEF JobsStopped, TypeOK
<1>4. CASE JobsConnect
  BY <1>2, <1>4 DEF JobsConnect, TypeOK
<1>5. CASE JobsConnected
  BY <1>5, TasksAssumption DEF JobsConnected, TypeOK
<1>6. CASE JobsNotConnected
  <2>1. faults' \in 0..MaxFaults
    BY <1>6, FaultType DEF JobsNotConnected
  <2>2. fails' \in 0..(Width - 1) /\ since' \in 0..(MaxFail + 1)
    <3>1. (fails + 1) % Width \in 0..(Width - 1)
      BY TasksAssumption DEF TypeOK
    <3> QED BY <1>6, <3>1, TasksAssumption DEF JobsNotConnected, TypeOK
  <2> QED BY <1>6, <2>1, <2>2 DEF JobsNotConnected, TypeOK
<1>7. CASE JobsServe
  BY <1>2, <1>7 DEF JobsServe, TypeOK
<1>8. CASE JobsBroken
  <2>1. refresh' \in BOOLEAN
    BY <1>2, <1>8 DEF JobsBroken
  <2>2. faults' \in 0..MaxFaults
    BY <1>8, FaultType DEF JobsBroken
  <2> QED BY <1>8, <2>1, <2>2 DEF JobsBroken, TypeOK
<1>9. CASE NetUp
  BY <1>9 DEF NetUp, TypeOK
<1>10. CASE NetDown
  <2>1. faults' \in 0..MaxFaults
    BY <1>10, FaultType DEF NetDown
  <2> QED BY <1>10, <2>1 DEF NetDown, TypeOK
<1>11. CASE PowerCut
  <2>1. faults' \in 0..MaxFaults
    BY <1>11, FaultType DEF PowerCut
  <2>2. fails' \in 0..(Width - 1) /\ since' \in 0..(MaxFail + 1)
    BY <1>11, TasksAssumption DEF PowerCut
  <2>3. /\ net' \in BOOLEAN /\ refresh' \in BOOLEAN /\ run' \in BOOLEAN
        /\ valid' \in BOOLEAN /\ connected' \in BOOLEAN /\ shared' \in BOOLEAN
        /\ main' = "wait" /\ jobs' = "wait" /\ mqtt' = "idle" /\ fresh' = NoCert
        /\ UNCHANGED <<cert, made, registered>>
    BY <1>11 DEF PowerCut
  <2> QED BY <2>1, <2>2, <2>3 DEF TypeOK
<1> QED
  BY <1>1, <1>3, <1>4, <1>5, <1>6, <1>7, <1>8, <1>9, <1>10, <1>11 DEF JobsStep

(* Each step of either task keeps the two tasks out of each other's way.   *)
LEMMA NextTasks ==
  ASSUME TypeOK, TasksInv, Next
  PROVE  TasksInv'
<1> USE DEF flags, service, Provisioning, TasksInv, RunInv, WholeInv, OwnerInv,
            RegisteredInv, AskedInv
<1>1. CASE MainStart
  BY <1>1 DEF MainStart, TypeOK
<1>2. CASE ProvStart
  BY <1>2 DEF ProvStart
<1>3. CASE ProvConnected
  BY <1>3 DEF ProvConnected
<1>4. CASE CreateAccepted
  <2>1. fresh' \in 1..made'
    BY <1>4 DEF CreateAccepted, TypeOK, Certs
  <2> QED BY <1>4, <2>1 DEF CreateAccepted
<1>5. CASE RegisterAccepted
  BY <1>5 DEF RegisterAccepted
<1>6. CASE SaveCert
  <2>1. fresh # NoCert
    BY <1>6, TasksAssumption DEF SaveCert, TypeOK, Certs, NoCert
  <2> QED BY <1>6, <2>1 DEF SaveCert
<1>7. CASE ProvFailed
  BY <1>7 DEF ProvFailed
<1>8. CASE Retry
  BY <1>8 DEF Retry
<1>9. CASE RunJobs
  BY <1>9 DEF RunJobs
<1>10. CASE JobsStart
  BY <1>10 DEF JobsStart
<1>11. CASE JobsStopped
  BY <1>11 DEF JobsStopped, Iterate, TypeOK
<1>12. CASE JobsConnect
  BY <1>12 DEF JobsConnect, Iterate
<1>13. CASE JobsConnected
  BY <1>13 DEF JobsConnected
<1>14. CASE JobsNotConnected
  BY <1>14 DEF JobsNotConnected
<1>15. CASE JobsServe
  BY <1>15 DEF JobsServe, Iterate
<1>16. CASE JobsBroken
  BY <1>16 DEF JobsBroken, Iterate
<1>17. CASE NetUp \/ NetDown
  BY <1>17 DEF NetUp, NetDown
<1>18. CASE PowerCut
  BY <1>18 DEF PowerCut
<1> QED
  BY <1>1, <1>2, <1>3, <1>4, <1>5, <1>6, <1>7, <1>8, <1>9, <1>10, <1>11, <1>12,
     <1>13, <1>14, <1>15, <1>16, <1>17, <1>18
  DEF Next, MainStep, JobsStep

(* The types, and the promises the tasks keep each other.                  *)
THEOREM TasksCorrect == Spec => [](TypeOK /\ TasksInv)
<1>1. Init => TypeOK /\ TasksInv
  <2>1. ASSUME Init
        PROVE  /\ cert \in Certs \cup {NoCert} /\ made \in Certs
               /\ registered \subseteq 1..made
    BY <2>1, TasksAssumption DEF Init, Certs
  <2>2. ASSUME Init
        PROVE  /\ fails \in 0..(Width - 1) /\ since \in 0..(MaxFail + 1)
               /\ faults \in 0..MaxFaults
    BY <2>2, TasksAssumption DEF Init
  <2>3. Init => TypeOK
    BY <2>1, <2>2 DEF Init, TypeOK
  <2>4. Init => TasksInv
    BY DEF Init, TasksInv, RunInv, WholeInv, RegisteredInv, AskedInv,
           OwnerInv, Provisioning
  <2> QED BY <2>3, <2>4
<1>2. TypeOK /\ TasksInv /\ [Next]_vars => (TypeOK /\ TasksInv)'
  <2>1. CASE Next
    BY <2>1, MainType, JobsType, NextTasks DEF Next
  <2>2. CASE UNCHANGED vars
    BY <2>2
    DEF vars, flags, service, TypeOK, TasksInv, RunInv, WholeInv, RegisteredInv,
        AskedInv, OwnerInv
  <2> QED BY <2>1, <2>2
<1> QED BY <1>1, <1>2, PTL DEF Spec

(* The jobs task finds the transport idle when it is to connect.           *)
THEOREM TransportFree == Spec => []TransportIsFree
<1>1. TypeOK /\ TasksInv => TransportIsFree
  BY DEF TypeOK, TasksInv, RunInv, OwnerInv, TransportIsFree
<1> QED BY <1>1, TasksCorrect, PTL

(* The jobs task never loads a certificate that is missing or half saved.  *)
THEOREM WholeCertLoaded == Spec => LoadsWholeCert
<1> DEFINE Loads == jobs = "loop" /\ jobs' = "connect" => cert # NoCert
<1>1. TypeOK /\ TasksInv /\ [Next]_vars => [Loads]_vars
  <2>1. ASSUME TasksInv, JobsConnect
        PROVE  cert # NoCert
    BY <2>1 DEF TasksInv, RunInv, WholeInv, JobsConnect
  <2>2. ASSUME Next, ~ JobsConnect, jobs = "loop"
        PROVE  jobs' # "connect"
    BY <2>2
    DEF Next, MainStep, JobsStep, MainStart, ProvStart, ProvConnected,
        CreateAccepted, RegisterAccepted, SaveCert, ProvFailed, Retry, RunJobs,
        JobsStart, JobsStopped, JobsConnected, JobsNotConnected, JobsServe,
        JobsBroken, NetUp, NetDown, PowerCut
  <2> QED BY <2>1, <2>2
<1> QED BY <1>1, TasksCorrect, PTL DEF Spec, LoadsWholeCert

(* A device that was not stranded is so only after the jobs task's own     *)
(* initialisation took back the start that a renewal had given it.         *)
THEOREM OnlyStartStrands == Spec => StrandedOnlyAtStart
<1> DEFINE Step == ~ Stranded /\ Stranded' => jobs = "wait" /\ run
<1>1. TypeOK /\ TasksInv /\ [Next]_vars => [Step]_vars
  <2> SUFFICES ASSUME TypeOK, TasksInv, Next, ~ Stranded, Stranded'
               PROVE  jobs = "wait" /\ run
    OBVIOUS
  <2> USE DEF Stranded, flags, service, Provisioning
  <2>1. CASE MainStart
    <3>1. valid' \/ refresh'
      BY <2>1 DEF MainStart
    <3> QED BY <3>1
  <2>2. CASE ProvStart \/ ProvConnected \/ CreateAccepted \/ RegisterAccepted \/ ProvFailed
    BY <2>2 DEF ProvStart, ProvConnected, CreateAccepted, RegisterAccepted, ProvFailed
  <2>3. CASE SaveCert \/ RunJobs
    BY <2>3 DEF SaveCert, RunJobs
  <2>4. CASE Retry
    BY <2>4 DEF Retry, TasksInv, AskedInv
  <2>5. CASE JobsStart
    BY <2>5 DEF JobsStart
  <2>6. CASE JobsStopped \/ JobsConnect \/ JobsServe \/ JobsBroken
    <3>1. ~ refresh' => ~ refresh
      BY <2>6 DEF JobsStopped, JobsConnect, JobsServe, JobsBroken, Iterate
    <3> QED BY <2>6, <3>1 DEF JobsStopped, JobsConnect, JobsServe, JobsBroken
  <2>7. CASE JobsConnected \/ JobsNotConnected
    BY <2>7 DEF JobsConnected, JobsNotConnected
  <2>8. CASE NetUp \/ NetDown \/ PowerCut
    BY <2>8 DEF NetUp, NetDown, PowerCut
  <2> QED BY <2>1, <2>2, <2>3, <2>4, <2>5, <2>6, <2>7, <2>8 DEF Next, MainStep, JobsStep
<1> QED BY <1>1, TasksCorrect, PTL DEF Spec, StrandedOnlyAtStart

-----------------------------------------------------------------------------
(* The tasks use the transport as SharedTransport says.                    *)

(* A task that is connecting is not connected yet.                         *)
ConnectInv == jobs = "connect" => ~ connected

LEMMA ConnectHolds == Spec => []ConnectInv
<1>1. Init => ConnectInv
  BY DEF Init, ConnectInv
<1>2. ConnectInv /\ [Next]_vars => ConnectInv'
  <2> SUFFICES ASSUME ConnectInv, [Next]_vars PROVE ConnectInv'
    OBVIOUS
  <2> USE DEF ConnectInv, flags, service
  <2>1. CASE MainStep
    BY <2>1 DEF MainStep, MainStart, ProvStart, ProvConnected, CreateAccepted,
       RegisterAccepted, SaveCert, ProvFailed, Retry, RunJobs
  <2>2. CASE JobsStep
    BY <2>2 DEF JobsStep, JobsStart, JobsStopped, JobsConnect, JobsConnected,
       JobsNotConnected, JobsServe, JobsBroken, Iterate
  <2>3. CASE NetUp \/ NetDown \/ PowerCut
    BY <2>3 DEF NetUp, NetDown, PowerCut
  <2>4. CASE UNCHANGED vars
    BY <2>4 DEF vars
  <2> QED BY <2>1, <2>2, <2>3, <2>4 DEF Next
<1> QED BY <1>1, <1>2, PTL DEF Spec

Users == {"main", "jobs"}

(* Where a step leaves the phases of the two tasks.                        *)
LEMMA PhasesStay ==
  ASSUME MainPhase' = MainPhase, JobsPhase' = JobsPhase
  PROVE  Phase' = Phase
BY DEF Phase

LEMMA MainMoves ==
  ASSUME JobsPhase' = JobsPhase
  PROVE  Phase' = [Phase EXCEPT !["main"] = MainPhase']
BY DEF Phase

LEMMA JobsMoves ==
  ASSUME MainPhase' = MainPhase
  PROVE  Phase' = [Phase EXCEPT !["jobs"] = JobsPhase']
BY DEF Phase

LEMMA PhaseOf == Phase["main"] = MainPhase /\ Phase["jobs"] = JobsPhase
BY DEF Phase

(* The main task asks, connects, and leaves by saving or failing.          *)
LEMMA MainTransport ==
  ASSUME TypeOK, TasksInv, ConnectInv, MainStep
  PROVE  [ST!Next]_(ST!vars)
<1> USE DEF flags, service, Provisioning
<1>1. CASE ProvStart /\ mqtt = "idle"
  <2>1. /\ main = "loop" /\ main' = "connect" /\ mqtt' = mqtt
        /\ jobs' = jobs /\ connected' = connected
        /\ shared' = (jobs = "connect" \/ connected)
    BY <1>1 DEF ProvStart
  <2>2. /\ MainPhase = "out" /\ MainPhase' = "connecting"
        /\ JobsPhase' = JobsPhase
    BY <2>1 DEF MainPhase, JobsPhase
  <2>3. Phase' = [Phase EXCEPT !["main"] = "connecting"]
    BY <2>2, MainMoves
  <2>4. shared' = \E d \in Users : d # "main" /\ Phase[d] # "out"
    <3>1. shared' <=> JobsPhase # "out"
      BY <2>1 DEF JobsPhase
    <3>2. (\E d \in Users : d # "main" /\ Phase[d] # "out") <=> JobsPhase # "out"
      BY PhaseOf DEF Users
    <3>3. shared' \in BOOLEAN
      BY <2>1, FactIsBoolean
    <3> QED BY <3>1, <3>2, <3>3
  <2>5. ST!Claim("main")
    BY <1>1, <2>1, <2>2, <2>3, <2>4, PhaseOf
    DEF ST!Claim, ST!Inside, ST!Tasks, Users
  <2> QED BY <2>5 DEF ST!Next, ST!Tasks
<1>2. CASE ProvConnected
  <2>1. /\ MainPhase = "connecting" /\ MainPhase' = "connected"
        /\ JobsPhase' = JobsPhase /\ mqtt' = "running" /\ shared' = shared
    BY <1>2 DEF ProvConnected, MainPhase, JobsPhase
  <2>2. ST!Establish("main")
    BY <2>1, MainMoves, PhaseOf DEF ST!Establish
  <2> QED BY <2>2 DEF ST!Next, ST!Tasks
<1>3. CASE SaveCert \/ ProvFailed
  <2>1. /\ MainPhase # "out" /\ MainPhase' = "out"
        /\ JobsPhase' = JobsPhase /\ mqtt' = "idle" /\ shared' = shared
    BY <1>3 DEF SaveCert, ProvFailed, MainPhase, JobsPhase
  <2>2. ST!Leave("main")
    BY <2>1, MainMoves, PhaseOf DEF ST!Leave, ST!Inside
  <2> QED BY <2>2 DEF ST!Next, ST!Tasks
<1>4. CASE \/ MainStart \/ (ProvStart /\ mqtt # "idle") \/ CreateAccepted
           \/ RegisterAccepted \/ Retry \/ RunJobs
  <2>1. /\ MainPhase' = MainPhase /\ JobsPhase' = JobsPhase
        /\ mqtt' = mqtt /\ shared' = shared
    BY <1>4 DEF MainStart, ProvStart, CreateAccepted, RegisterAccepted, Retry,
       RunJobs, MainPhase, JobsPhase
  <2> QED BY <2>1, PhasesStay DEF ST!vars
<1> QED BY <1>1, <1>2, <1>3, <1>4 DEF MainStep

(* The jobs task asks while the main task is out, connects, and leaves when *)
(* it is stopped or broken.                                                *)
LEMMA JobsTransport ==
  ASSUME TypeOK, TasksInv, ConnectInv, JobsStep
  PROVE  [ST!Next]_(ST!vars)
<1> USE DEF flags, service, Provisioning
<1>1. CASE JobsConnect
  <2>1. /\ jobs = "loop" /\ jobs' = "connect" /\ ~ connected /\ mqtt = "idle"
        /\ mqtt' = mqtt /\ main' = main /\ main = "loop"
        /\ shared' = (main \in Provisioning)
    BY <1>1 DEF JobsConnect, Iterate, TasksInv, RunInv
  <2>2. /\ JobsPhase = "out" /\ JobsPhase' = "connecting"
        /\ MainPhase = "out" /\ MainPhase' = MainPhase
    BY <2>1 DEF MainPhase, JobsPhase
  <2>3. Phase' = [Phase EXCEPT !["jobs"] = "connecting"]
    BY <2>2, JobsMoves
  <2>4. shared' = FALSE
    <3>1. shared' = (main \in Provisioning)
      BY <2>1
    <3>2. (main \in Provisioning) = FALSE
      BY <2>1
    <3> HIDE DEF Provisioning
    <3> QED BY <3>1, <3>2, Zenon
  <2>5. (\E d \in Users : d # "jobs" /\ Phase[d] # "out") = FALSE
    BY <2>2, PhaseOf DEF Users
  <2>6. ST!Claim("jobs")
    BY <2>1, <2>2, <2>3, <2>4, <2>5, PhaseOf
    DEF ST!Claim, ST!Inside, ST!Tasks, Users
  <2> QED BY <2>6 DEF ST!Next, ST!Tasks
<1>2. CASE JobsConnected
  <2>1. /\ JobsPhase = "connecting" /\ JobsPhase' = "connected"
        /\ MainPhase' = MainPhase /\ mqtt' = "running" /\ shared' = shared
    BY <1>2 DEF JobsConnected, MainPhase, JobsPhase
  <2>2. ST!Establish("jobs")
    BY <2>1, JobsMoves, PhaseOf DEF ST!Establish
  <2> QED BY <2>2 DEF ST!Next, ST!Tasks
<1>3. CASE JobsNotConnected \/ JobsBroken \/ (JobsStopped /\ connected)
  <2>1. /\ JobsPhase # "out" /\ JobsPhase' = "out"
        /\ MainPhase' = MainPhase /\ mqtt' = "idle" /\ shared' = shared
    BY <1>3
    DEF JobsNotConnected, JobsBroken, JobsStopped, Iterate, MainPhase, JobsPhase,
        ConnectInv
  <2>2. ST!Leave("jobs")
    BY <2>1, JobsMoves, PhaseOf DEF ST!Leave, ST!Inside
  <2> QED BY <2>2 DEF ST!Next, ST!Tasks
<1>4. CASE JobsStart \/ (JobsStopped /\ ~ connected) \/ JobsServe
  <2>1. /\ MainPhase' = MainPhase /\ JobsPhase' = JobsPhase
        /\ mqtt' = mqtt /\ shared' = shared
    BY <1>4
    DEF JobsStart, JobsStopped, JobsServe, Iterate, TasksInv, OwnerInv, MainPhase,
        JobsPhase
  <2> QED BY <2>1, PhasesStay DEF ST!vars
<1> QED BY <1>1, <1>2, <1>3, <1>4 DEF JobsStep

(* The two tasks, with their flags, their failures and the power cuts, use *)
(* the transport as its layer expects.                                     *)
THEOREM TasksUseTransport == Spec => TransportIsUsed
<1>1. Init => ST!Init
  BY DEF Init, ST!Init, ST!Tasks, Phase, MainPhase, JobsPhase, Provisioning
<1>2. TypeOK /\ TasksInv /\ ConnectInv /\ [Next]_vars => [ST!Next]_(ST!vars)
  <2> SUFFICES ASSUME TypeOK, TasksInv, ConnectInv, [Next]_vars
               PROVE  [ST!Next]_(ST!vars)
    OBVIOUS
  <2>1. CASE NetUp \/ NetDown \/ UNCHANGED vars
    <3>1. MainPhase' = MainPhase /\ JobsPhase' = JobsPhase
          /\ mqtt' = mqtt /\ shared' = shared
      BY <2>1 DEF NetUp, NetDown, vars, flags, service, MainPhase, JobsPhase
    <3> QED BY <3>1, PhasesStay DEF ST!vars
  <2>2. CASE PowerCut
    <3>1. MainPhase' = "out" /\ JobsPhase' = "out" /\ mqtt' = "idle" /\ shared' = FALSE
      BY <2>2 DEF PowerCut, MainPhase, JobsPhase, Provisioning
    <3>2. Phase' = [c \in Users |-> "out"]
      BY <3>1 DEF Phase, Users
    <3> QED BY <3>1, <3>2 DEF ST!Next, ST!Reset, ST!Tasks, Users
  <2> QED BY <2>1, <2>2, MainTransport, JobsTransport DEF Next
<1> QED BY <1>1, <1>2, TasksCorrect, ConnectHolds, PTL DEF Spec, TransportIsUsed, ST!Spec
-----------------------------------------------------------------------------
(* The main task renews the certificate as CertificateRenewal says.        *)

(* Between the erase and the save the sector is empty.                     *)
EmptyInv == main = "save" => cert = NoCert

LEMMA EmptyHolds == Spec => []EmptyInv
<1>1. Init => EmptyInv
  BY DEF Init, EmptyInv
<1>2. EmptyInv /\ [Next]_vars => EmptyInv'
  <2> SUFFICES ASSUME EmptyInv, [Next]_vars PROVE EmptyInv'
    OBVIOUS
  <2> USE DEF EmptyInv
  <2>1. CASE MainStep
    BY <2>1 DEF MainStep, MainStart, ProvStart, ProvConnected, CreateAccepted,
       RegisterAccepted, SaveCert, ProvFailed, Retry, RunJobs
  <2>2. CASE JobsStep
    BY <2>2 DEF JobsStep, JobsStart, JobsStopped, JobsConnect, JobsConnected,
       JobsNotConnected, JobsServe, JobsBroken
  <2>3. CASE NetUp \/ NetDown \/ PowerCut
    BY <2>3 DEF NetUp, NetDown, PowerCut
  <2>4. CASE UNCHANGED vars
    BY <2>4 DEF vars
  <2> QED BY <2>1, <2>2, <2>3, <2>4 DEF Next
<1> QED BY <1>1, <1>2, PTL DEF Spec

LEMMA NextRenews ==
  ASSUME TypeOK, TasksInv, EmptyInv, Next
  PROVE  [CR!Next]_(CR!vars)
<1> USE DEF service
<1>1. CASE CreateAccepted
  <2>1. /\ made' = made + 1 /\ fresh' \in 1..made'
        /\ UNCHANGED <<registered, cert>>
    BY <1>1 DEF CreateAccepted, TypeOK, Certs
  <2> QED BY <2>1 DEF CR!Take, CR!Made, CR!Next
<1>2. CASE RegisterAccepted
  <2>1. /\ fresh \in 1..made /\ registered' = registered \cup {fresh}
        /\ cert' = NoCert /\ UNCHANGED <<made, fresh>>
    BY <1>2 DEF RegisterAccepted, TasksInv, WholeInv
  <2> QED BY <2>1 DEF CR!GiveUp, CR!Registers, CR!Made, CR!Next
<1>3. CASE SaveCert
  <2>1. /\ cert = NoCert /\ fresh \in registered /\ cert' = fresh
        /\ UNCHANGED <<made, registered, fresh>>
    BY <1>3 DEF SaveCert, TasksInv, RegisteredInv, EmptyInv
  <2> QED BY <2>1 DEF CR!Save, CR!Next
<1>4. CASE ProvFailed
  <2>1. /\ UNCHANGED <<made, fresh, cert>>
        /\ \/ fresh \in 1..made /\ registered' = registered \cup {fresh}
           \/ UNCHANGED registered
    BY <1>4 DEF ProvFailed, TasksInv, WholeInv
  <2> QED BY <2>1 DEF CR!Register, CR!Registers, CR!Made, CR!Next, CR!vars
<1>5. CASE PowerCut
  <2>1. fresh' = NoCert /\ UNCHANGED <<made, registered, cert>>
    BY <1>5 DEF PowerCut
  <2> QED BY <2>1 DEF CR!Take, CR!Next
<1>6. CASE MainStart \/ ProvStart \/ ProvConnected \/ Retry \/ RunJobs
  BY <1>6 DEF MainStart, ProvStart, ProvConnected, Retry, RunJobs, CR!vars
<1>7. CASE JobsStep \/ NetUp \/ NetDown
  BY <1>7 DEF JobsStep, JobsStart, JobsStopped, JobsConnect, JobsConnected,
     JobsNotConnected, JobsServe, JobsBroken, NetUp, NetDown, CR!vars
<1> QED BY <1>1, <1>2, <1>3, <1>4, <1>5, <1>6, <1>7 DEF Next, MainStep

(* Whatever the jobs task, the link and the power do meanwhile, the one    *)
(* certificate is given up for a registered one and becomes that one.      *)
THEOREM TasksRenew == Spec => RenewalIsKept
<1>1. Init => CR!Init
  BY DEF Init, CR!Init, CR!TypeOK, CR!Made
<1>2. TypeOK /\ TasksInv /\ EmptyInv /\ [Next]_vars => [CR!Next]_(CR!vars)
  <2>1. UNCHANGED vars => UNCHANGED CR!vars
    BY DEF vars, service, CR!vars
  <2> QED BY <2>1, NextRenews
<1> QED BY <1>1, <1>2, TasksCorrect, EmptyHolds, PTL DEF Spec, RenewalIsKept, CR!Spec
=============================================================================

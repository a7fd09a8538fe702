------------------------------ MODULE AppTasks ------------------------------
(***************************************************************************)
(* The two application tasks and what they share: main_app_task, which     *)
(* renews the device certificate by fleet provisioning, and                *)
(* aws_iot_jobs_task, which connects with it.  They run at one priority    *)
(* without time slices, so a step goes from one blocking call to the next. *)
(* They share the flags of APP_COMMON_t, the state of the one MQTT         *)
(* transport and the certificate in flash.                                 *)
(***************************************************************************)
EXTENDS Naturals

CONSTANTS
  MaxFail,    \* IOT_JOBS_MAX_CONNECT_FAIL_COUNT
  Width,      \* 2^16, the values of connectFailCount
  MaxCerts,   \* bound on the certificates the service creates
  MaxFaults   \* bound on failed exchanges, link losses and power cuts

ASSUME TasksAssumption ==
  /\ MaxFail \in Nat /\ Width \in Nat /\ Width > MaxFail + 1
  /\ MaxCerts \in Nat \ {0} /\ MaxFaults \in Nat

NoCert == 0   \* an erased, or partly programmed, certificate sector
Certs == 1..MaxCerts

VARIABLES
  net,         \* isWizChipLinkUp and isDhcpDone
  refresh,     \* enableRefreshProvisionedCert
  run,         \* isRunAwsIotJobs
  valid,       \* isValidProvisionedCertInfo
  connected,   \* AWS_IOT_JOBS_STATUS is AWS_IOT_JOBS_CONNECTED
  fails,       \* connectFailCount
  main, jobs,  \* where the two tasks stand
  mqtt,        \* g_mqtt_config.mqtt_state
  cert,        \* the provisioned certificate in flash
  fresh,       \* awsFpDeviceCertInfo, the certificate created last
  made,        \* the service: certificates created
  registered,  \* the service: certificates whose thing is registered
  shared,      \* both tasks have used the transport at once, in this attempt
  since,       \* history: failed connects since the renewal, up to MaxFail + 1
  faults

flags == <<refresh, run, valid>>
service == <<made, registered>>
vars == <<net, flags, connected, fails, main, jobs, mqtt, cert, fresh, service,
          shared, since, faults>>

Provisioning == {"connect", "create", "register", "save"}

TypeOK ==
  /\ net \in BOOLEAN /\ refresh \in BOOLEAN /\ run \in BOOLEAN
  /\ valid \in BOOLEAN /\ connected \in BOOLEAN /\ shared \in BOOLEAN
  /\ fails \in 0..(Width - 1) /\ since \in 0..(MaxFail + 1)
  /\ main \in Provisioning \cup {"wait", "loop", "retry"}
  /\ jobs \in {"wait", "loop", "connect"}
  /\ mqtt \in {"idle", "running"}
  /\ cert \in Certs \cup {NoCert} /\ fresh \in Certs \cup {NoCert}
  /\ made \in Certs /\ registered \subseteq 1..made
  /\ faults \in 0..MaxFaults

-----------------------------------------------------------------------------
(* The network and the power.                                              *)

Fault == faults < MaxFaults /\ faults' = faults + 1

NetUp ==
  /\ ~ net
  /\ net' = TRUE
  /\ UNCHANGED <<flags, connected, fails, main, jobs, mqtt, cert, fresh, service,
                 shared, since, faults>>

NetDown ==
  /\ net
  /\ net' = FALSE
  /\ Fault
  /\ UNCHANGED <<flags, connected, fails, main, jobs, mqtt, cert, fresh, service,
                 shared, since>>

\* main() starts over; the flash keeps what it holds.
PowerCut ==
  /\ Fault
  /\ net' = FALSE
  /\ refresh' = FALSE /\ run' = FALSE /\ valid' = FALSE
  /\ connected' = FALSE /\ fails' = 0 /\ since' = 0
  /\ main' = "wait" /\ jobs' = "wait"
  /\ mqtt' = "idle" /\ fresh' = NoCert /\ shared' = FALSE
  /\ UNCHANGED <<cert, service>>

-----------------------------------------------------------------------------
(* main_app_task and fleet_provisioning_handle.                            *)

MainStart ==
  /\ main = "wait" /\ net
  /\ main' = "loop"
  /\ valid' = (cert # NoCert)
  /\ refresh' = (cert = NoCert)
  /\ UNCHANGED <<net, run, connected, fails, jobs, mqtt, cert, fresh, service,
                 shared, since, faults>>

\* Mutant: the jobs task is left running.
ProvStartMutant ==
  /\ main = "loop" /\ net /\ refresh
  /\ main' = IF mqtt = "idle" THEN "connect" ELSE "retry"
  /\ UNCHANGED <<net, flags, connected, fails, jobs, mqtt, cert, fresh, service,
                 shared, since, faults>>

\* mqtt_transport_init refuses a transport that is running.
ProvStart ==
  /\ main = "loop" /\ net /\ refresh
  /\ run' = FALSE
  /\ \/ /\ mqtt = "idle"
        /\ main' = "connect"
        /\ shared' = (jobs = "connect" \/ connected)
     \/ /\ mqtt # "idle"
        /\ main' = "retry"
        /\ UNCHANGED shared
  /\ UNCHANGED <<net, refresh, valid, connected, fails, jobs, mqtt, cert, fresh,
                 service, since, faults>>

ProvConnected ==
  /\ main = "connect" /\ net
  /\ main' = "create"
  /\ mqtt' = "running"
  /\ UNCHANGED <<net, flags, connected, fails, jobs, cert, fresh, service, shared,
                 since, faults>>

\* Mutant: the certificate is saved as soon as it is created.
CreateAcceptedMutant ==
  /\ main = "create" /\ net
  /\ made < MaxCerts
  /\ made' = made + 1 /\ fresh' = made + 1 /\ cert' = made + 1
  /\ main' = "register"
  /\ UNCHANGED <<net, flags, connected, fails, jobs, mqtt, registered, shared,
                 since, faults>>

\* Mutant: the answer ends the wait, and its certificate is not taken over.
CreateAcceptedForgetsMutant ==
  /\ main = "create" /\ net
  /\ made < MaxCerts
  /\ made' = made + 1
  /\ main' = "register"
  /\ UNCHANGED <<net, flags, connected, fails, jobs, mqtt, cert, fresh, registered,
                 shared, since, faults>>

CreateAccepted ==
  /\ main = "create" /\ net
  /\ made < MaxCerts
  /\ made' = made + 1 /\ fresh' = made + 1
  /\ main' = "register"
  /\ UNCHANGED <<net, flags, connected, fails, jobs, mqtt, cert, registered, shared,
                 since, faults>>

\* The callback erases the sector, then programs it.
RegisterAccepted ==
  /\ main = "register" /\ net
  /\ registered' = registered \cup {fresh}
  /\ cert' = NoCert
  /\ main' = "save"
  /\ UNCHANGED <<net, flags, connected, fails, jobs, mqtt, fresh, made, shared,
                 since, faults>>

\* Mutant: the connection is not closed.
SaveCertMutant ==
  /\ main = "save"
  /\ cert' = fresh
  /\ refresh' = FALSE /\ run' = TRUE
  /\ since' = 0
  /\ main' = "loop"
  /\ UNCHANGED <<net, valid, connected, fails, jobs, mqtt, fresh, service, shared,
                 faults>>

\* Mutant: the jobs task is not started again.
SaveCertStopsMutant ==
  /\ main = "save"
  /\ cert' = fresh
  /\ mqtt' = "idle"
  /\ refresh' = FALSE
  /\ since' = 0
  /\ main' = "loop"
  /\ UNCHANGED <<net, run, valid, connected, fails, jobs, fresh, service, shared,
                 faults>>

SaveCert ==
  /\ main = "save"
  /\ cert' = fresh
  /\ mqtt' = "idle"
  /\ refresh' = FALSE /\ run' = TRUE
  /\ since' = 0
  /\ main' = "loop"
  /\ UNCHANGED <<net, valid, connected, fails, jobs, fresh, service, shared, faults>>

\* Mutant: the transport is not closed.
ProvFailedMutant ==
  /\ main \in Provisioning \ {"save"}
  /\ \/ Fault
     \/ (~ net \/ shared) /\ UNCHANGED faults
  /\ \/ main = "register" /\ registered' = registered \cup {fresh}
     \/ UNCHANGED registered
  /\ main' = "retry"
  /\ UNCHANGED <<net, flags, connected, fails, jobs, mqtt, cert, fresh, made, shared,
                 since>>

\* An exchange fails by itself, without the network, or because both tasks have
\* used the transport; what two sessions over one configuration and one TLS
\* pointer do to each other is left open.  An answer to register that is lost
\* leaves a certificate registered that is not saved.
ProvFailed ==
  /\ main \in Provisioning \ {"save"}
  /\ \/ Fault
     \/ (~ net \/ shared) /\ UNCHANGED faults
  /\ \/ main = "register" /\ registered' = registered \cup {fresh}
     \/ UNCHANGED registered
  /\ mqtt' = "idle"
  /\ main' = "retry"
  /\ UNCHANGED <<net, flags, connected, fails, jobs, cert, fresh, made, shared, since>>

Retry ==
  /\ main = "retry"
  /\ main' = "loop"
  /\ UNCHANGED <<net, flags, connected, fails, jobs, mqtt, cert, fresh, service,
                 shared, since, faults>>

RunJobs ==
  /\ main = "loop" /\ net /\ ~ refresh /\ valid
  /\ run' = TRUE
  /\ UNCHANGED <<net, refresh, valid, connected, fails, main, jobs, mqtt, cert,
                 fresh, service, shared, since, faults>>

-----------------------------------------------------------------------------
(* aws_iot_jobs_task.                                                      *)

JobsStart ==
  /\ jobs = "wait" /\ net
  /\ jobs' = "loop"
  /\ connected' = FALSE /\ run' = FALSE
  /\ UNCHANGED <<net, refresh, valid, fails, main, mqtt, cert, fresh, service,
                 shared, since, faults>>

\* The top of the loop: too many failures ask for a new certificate.
Iterate == jobs = "loop" /\ net /\ refresh' = (refresh \/ fails > MaxFail)

JobsStopped ==
  /\ Iterate
  /\ ~ run
  /\ connected' = FALSE
  /\ mqtt' = IF connected THEN "idle" ELSE mqtt
  /\ UNCHANGED <<net, run, valid, fails, main, jobs, cert, fresh, service, shared,
                 since, faults>>

\* load_flash_provisioned_cert_info, and the transport is claimed.
JobsConnect ==
  /\ Iterate
  /\ run /\ ~ connected
  /\ mqtt = "idle"
  /\ jobs' = "connect"
  /\ shared' = (main \in Provisioning)
  /\ UNCHANGED <<net, run, valid, connected, fails, main, mqtt, cert, fresh,
                 service, since, faults>>

JobsConnected ==
  /\ jobs = "connect" /\ net
  /\ jobs' = "loop"
  /\ connected' = TRUE
  /\ mqtt' = "running"
  /\ fails' = 0 /\ since' = 0
  /\ UNCHANGED <<net, flags, main, cert, fresh, service, shared, faults>>

JobsNotConnected ==
  /\ jobs = "connect"
  /\ \/ Fault
     \/ (~ net \/ shared) /\ UNCHANGED faults
  /\ jobs' = "loop"
  /\ mqtt' = "idle"
  /\ fails' = (fails + 1) % Width
  /\ since' = IF since > MaxFail THEN since ELSE since + 1
  /\ UNCHANGED <<net, flags, connected, main, cert, fresh, service, shared>>

\* The jobs are got and started: module IotJobs.
JobsServe ==
  /\ Iterate
  /\ run /\ connected
  /\ UNCHANGED <<net, run, valid, connected, fails, main, jobs, mqtt, cert, fresh,
                 service, shared, since, faults>>

\* A get or start-next that fails, for whatever reason, closes the connection.
JobsBroken ==
  /\ Iterate
  /\ run /\ connected
  /\ \/ Fault
     \/ shared /\ UNCHANGED faults
  /\ connected' = FALSE
  /\ mqtt' = "idle"
  /\ UNCHANGED <<net, run, valid, fails, main, jobs, cert, fresh, service, shared,
                 since>>

-----------------------------------------------------------------------------
Init ==
  /\ cert \in {NoCert, 1}
  /\ made = 1 /\ registered = {1}
  /\ net = FALSE
  /\ refresh = FALSE /\ run = FALSE /\ valid = FALSE
  /\ connected = FALSE /\ fails = 0 /\ since = 0
  /\ main = "wait" /\ jobs = "wait"
  /\ mqtt = "idle" /\ fresh = NoCert /\ shared = FALSE
  /\ faults = 0

MainStep ==
  \/ MainStart \/ ProvStart \/ ProvConnected \/ CreateAccepted \/ RegisterAccepted
  \/ SaveCert \/ ProvFailed \/ Retry \/ RunJobs

JobsStep ==
  \/ JobsStart \/ JobsStopped \/ JobsConnect \/ JobsConnected \/ JobsNotConnected
  \/ JobsServe \/ JobsBroken

Next == NetUp \/ NetDown \/ PowerCut \/ MainStep \/ JobsStep

Spec == Init /\ [][Next]_vars

\* The scheduler runs both tasks, and the link comes back.
FairSpec == Spec /\ WF_vars(NetUp) /\ WF_vars(MainStep) /\ WF_vars(JobsStep)

-----------------------------------------------------------------------------
(* Properties.                                                             *)

\* The jobs task never loads a certificate that is erased, torn by a power cut
\* or being replaced by the main task: the boot check and the isRun flag keep
\* it away.
LoadsWholeCert ==
  [][jobs = "loop" /\ jobs' = "connect" => cert # NoCert]_vars

\* When the jobs task is about to connect, mqtt_transport_init never refuses
\* it: the main task and its own failures have left the transport idle.
TransportIsFree ==
  jobs = "loop" /\ run /\ ~ connected => mqtt = "idle"

\* The main task asks for nothing and the jobs task may do nothing.
Stranded == main = "loop" /\ ~ refresh /\ ~ valid /\ ~ run

\* The main task, which starts the jobs task after a renewal, loses that start
\* only to the jobs task's own initialisation, in a device that had no valid
\* certificate at its boot: never to a failure, a loss or another renewal.
StrandedOnlyAtStart ==
  [][~ Stranded /\ Stranded' => jobs = "wait" /\ run]_vars

\* Whatever failed, was cut or lost, the jobs task is connected again, through
\* the renewals that its failures ask for, unless the device is stranded for
\* good or renewals overlap its sessions until the service's certificates are
\* used up.
Reconnects == []<>connected \/ <>[]Stranded \/ <>(made = MaxCerts)

\* A certificate is renewed when the jobs task has failed to connect with it
\* again and again, says the comment at the test.
RenewsAfterFailures ==
  [][main' = main /\ ~ refresh /\ refresh' => since > MaxFail]_vars

\* The tasks use the one MQTT transport as its layer expects: it is claimed only
\* when idle, by the jobs task only while the main task is out, and whoever was
\* inside leaves it idle.  The isRun flag, the transport's state and the connected
\* flag of two tasks have to agree for that at every interleaving.
MainPhase ==
  IF main \notin Provisioning THEN "out"
  ELSE IF main = "connect" THEN "connecting" ELSE "connected"

JobsPhase ==
  IF jobs = "connect" THEN "connecting" ELSE IF connected THEN "connected" ELSE "out"

Phase == [c \in {"main", "jobs"} |-> IF c = "main" THEN MainPhase ELSE JobsPhase]

ST == INSTANCE SharedTransport
  WITH Main <- "main", Jobs <- "jobs", state <- mqtt, phase <- Phase

TransportIsUsed == ST!Spec

\* Seen from here a renewal is what FleetProvisioning says of it, with the jobs
\* task, the link and the failures that overlap it.
CR == INSTANCE CertificateRenewal WITH next <- fresh

RenewalIsKept == CR!Spec
=============================================================================

# Verification of the RP2040 / WIZnet AWS IoT firmware

TLA+ models of the firmware in `src/`, checked with TLC, and theorems about them
checked with TLAPS. The firmware runs on an RP2040 with a W5100S Ethernet chip
under FreeRTOS. It provisions itself with a device certificate (AWS fleet
provisioning), executes AWS IoT jobs, and replaces its own firmware when a job
says so; a bootloader of its own installs the new image.

## 1. The system

| Component | Where | State | Operations |
|---|---|---|---|
| Bootloader and its menu | `boot/main.c`, `boot/test_menu.c` | copy of the config sector in RAM | load config, copy OTA area to application area, clear the flag, menu (erase, back up, restore), jump |
| Flash layer | `port/flash_interface/flash_control.c` | config and certificate sectors; areas *app*, *factory*, *OTA* | erase an area, program pages, copy areas, save and load the records |
| OTA job | `app/aws_iot/iot_jobs_job_ota_handler.c`, `start_job_document` in `iot_jobs_handler.c` | job document, download offset | version test, download into the OTA area, CRC, arm the start flag, reboot |
| IoT Jobs client | `app/aws_iot/iot_jobs_handler.c`, `iot_jobs_job_list.c` | job list, `g_iot_jobs_execution_param`, acceptance flags | get, start-next, update; event callback |
| Application tasks | `app/tasks/main_app_task.c`, `aws_iot_jobs_task.c`, `app/main.c` | flags of `APP_COMMON_t`, `connectFailCount` | renew the certificate, connect, serve jobs |
| Fleet provisioning | `app/aws_iot/fleet_provisioning_handler.c` | `awsFpDeviceCertInfo`, token, acceptance flags | create a certificate, register the thing, save the certificate |
| MQTT transport | `port/network_interface/mqtt_interface.c` | `g_mqtt_config`, one TLS context pointer, subscription table | init, connect, subscribe, publish, process loop, close |
| HTTP client | `port/network_interface/http_interface.c` | `g_http_config.http_state` | `http_get`, used by the download only |
| Ethernet, DHCP, DNS, idle task | `port/network_interface/ethernet.c`, `app/tasks/idle_task.c` | link and DHCP flags, lease time stamp | poll the link, obtain and renew the lease |
| TLS sockets | `tls_socket_interface.c` | mbedTLS contexts | init, connect, read, write |
| Time, CRC, versions | `port/device_common/device_common.c` | none | `get_time_ms`, `crc16`, `is_upper_version_fw` |
| Logger, LED, certificate checker, OS wrappers, timer | `port/device_common/`, `port/timer/` | none that matters | output, library calls |
| Unit test task | `app/tasks/unit_test_task.c` | - | not built (`app/CMakeLists.txt` does not name it) |
| FreeRTOS, ioLibrary, mbedTLS, coreMQTT, coreHTTP, coreJSON, tinycbor, OpenOCD | third party | - | used as their interfaces promise |

How they interact. The idle task publishes the state of the network in two
flags. The main task decides whether there is a certificate, provisions when
`enableRefreshProvisionedCert` is set, and starts and stops the jobs task with
`isRunAwsIotJobs`. Both tasks use the *one* MQTT transport; its state is the only
thing that keeps them apart. Answers reach the clients through callbacks that run
inside `MQTT_ProcessLoop`, so inside the waits of the procedure that asked. A job
that is an update downloads over HTTP into flash and leaves a record in the
config sector, which is all the application tells the bootloader.

What is hard here, and hard to test: power cuts between the steps that only
together are an update; a copy that must be repeatable; partial chunks and
negative lengths in the download loop; answers that come after their wait is
over, and acceptance flags nobody clears; a job list that forgets at each reset
and drops ids when full; two tasks that meet in one transport; a certificate that
is erased before it is programmed. `PROJECT.json` lists these hazards, each at
its line, with the properties that address it.

What makes each part correct:

* **Update.** An armed image is complete and verified; the device always has
  something to boot, or will after the copy is repeated; versions never go back;
  the update is atomic for an observer; an armed update is installed.
* **Jobs.** A job is reported as succeeded only if it was carried out; it is not run
  after it ended; every job gets its turn and its end.
* **Tasks.** The jobs task connects only with a whole certificate and never finds the
  transport taken; after any failures, and the renewals they ask for, it is connected again.
* **Provisioning.** The working certificate is given up only for a registered one; no
  failed attempt blocks the next.
* **Transport.** Whoever has the transport to itself works on its own socket, TLS context
  and callback; whatever two sessions do to each other, the transport is free after them.
* **HTTP.** Every download ends, frees the client (but for two kinds of URL) and its
  socket, and succeeds only with all its bytes, as long as no read returns an error code.
* **DHCP and the clock.** An address is not used past its lease over the wrap of the
  clock; every attempt ends in time, and an address always comes back.

## 2. Modules

| Module | What it is |
|---|---|
| `AtomicUpdate` | abstract specification: what a firmware update promises |
| `AtomicJobs` | abstract specification: what the jobs client and its service promise together |
| `SharedTransport` | abstract specification: what the two tasks and the one MQTT transport owe each other |
| `CertificateRenewal` | abstract specification: what a renewal of the device certificate promises |
| `FirmwareUpdate`, `MCFirmwareUpdate`, `FirmwareUpdateProofs` | OTA job, flash, bootloader, with power cuts; the instance; the theorems |
| `FirmwareRefinementProofs` | that the update implements `AtomicUpdate`, and programs only erased pages |
| `IotJobs`, `MCIotJobs`, `IotJobsProofs` | Jobs client and service; the instance; the theorems |
| `AppTasks`, `AppTasksProofs` | main and jobs tasks, flags, transport state, certificate; the theorems |
| `FleetProvisioning`, `FleetProvisioningProofs` | provisioning client and service; the theorems |
| `MqttTransport`, `MqttTransportProofs` | the MQTT and TLS layers under both tasks at once; the theorems |
| `HttpDownload`, `HttpDownloadProofs` | the HTTP client during a download, beside DHCP on its socket; the theorems |
| `IdleTask`, `IdleTaskProofs` | link, DHCP attempts and leases, with 32-bit clock arithmetic; the theorems |

The modules model one device at several depths. They meet in two ways: through an
abstract specification that both sides implement, and at named places.

* `SharedTransport` is the contract of the tasks and the transport. `AppTasks` uses it
  (`TransportIsUsed`): the jobs task never claims the transport while the main task is inside,
  so only a provisioning started over a running jobs task makes it shared. `MqttTransport` lets its
  two clients come and go by that rule alone and serves it (`TransportIsServed`), with its
  sockets, contexts, callback and table: it is the layer under `AppTasks`, without the reasons
  the tasks have to come and go.
* `CertificateRenewal` is what both models of provisioning promise: `AppTasks` in all its
  behaviours (`RenewalIsKept`), `FleetProvisioning` until an answer comes that was for another
  request or cannot be read to the end (`RenewsInOrder`); the behaviour of finding 2 is the first step that is none of its.
* `AtomicUpdate` is implemented by `FirmwareUpdate` (`UpdateIsAtomic`), and `AtomicJobs` by `IotJobs`
  without stray answers (`JobsAreAtomic`): a job may be run twice, when its report was lost, but
  first while it is in progress, and it ends once.

At named places: `RunJob` of `IotJobs` is the whole of `FirmwareUpdate` from
`StartOtaJob` to `report`, reduced to its outcome; `JobsServe` of `AppTasks` is all
of `IotJobs`, and its `main \in {create, register, save}` is `FleetProvisioning`; the
exchanges that `AppTasks` leaves open when it says `shared` are those of `MqttTransport`.
`HttpDownload` is the part of `FirmwareUpdate` from `download` to `verify` seen from the
socket instead of the flash, and its `Renew` is the `dhcp` of `IdleTask`; `NetUp` and
`NetDown` of `AppTasks` are the two flags `IdleTask` sets.
Every module of the code carries a few definitions called `...Mutant`: plausible bugs of that
definition, none of which any specification uses.

### FirmwareUpdate

One flow of control touches the flash at a time: the bootloader, or, after the
jump, the application's start and then the jobs task. `pc` says where it stands.

| In the model | In the code |
|---|---|
| `flash[a][p]` | page `p` of area `a`: erased, junk, or the page of image `v` that belongs there |
| `cfg`, `ram` | `DEVICE_OTA_INFO` in the config sector and in `appCommon` |
| `BootLoad`, `BootCheck`, `EraseAppForCopy`, `CopyOtaPage`, `CopyOtaDone`, `BootSave`, `Jump` | `boot/main.c` |
| `Menu` | `boot/test_menu.c`; two of its entries call the same function, and the model does too |
| `AppStart`, `InitSave` | the config initialisation in `app/main.c` |
| `StartOtaJob`, `WellFormed`, `IsUpper` | `start_job_document`, `is_upper_version_fw`: another count of dots than two, or one lower component, refuses |
| `BadDocument` | `parsing_ota_job_params` fails: the parameters of the job before are gone, and the job fails |
| `DownloadRefused`, `DownloadNotStarted`, `DownloadBegins` | the results of `http_get` as the caller tests them: a network error goes on to the CRC |
| `RecvPage`, `RecvNegative`, `RecvNothing` | the receive callback, with short chunks and a negative length stored unsigned |
| `VerifyCrc`, `ArmSave`, `ReportAndReboot` | CRC, config save, status update and reset |
| `PowerCut` | before any step; an interrupted erase or program leaves any of the pages at risk as junk |

Abstractions. The CRC identifies an image. What is programmed unaligned, or after
a padded chunk, is junk: a CRC that matches it by chance is not considered. A job
document agrees with the image it describes, and an image fits its area (the code
does not test the length: a listed hazard). The sector erase of the config record
is atomic; its programming may stop before the last page, where the flag word is
(`TORN`). A jump into an area without a whole image ends in `hung`, until the
operator resets the device.

### IotJobs

One jobs task, one service, one connection. `pc` is the procedure the task is in;
`Deliver` is `iot_jobs_event_callback` on one answer (several may be delivered in
one wait), `GetAccepted`, `StartAccepted`, `UpdateAccepted` are the ends of waits that
see their flag, `MissedCloses` and `UpdateMissed` those that do not. `list`, `exec` and
`flags` are the code's globals, with their quirks: `Add` drops ids when the list is
full and takes an id for listed when it is a prefix of a listed one; flags survive
a reconnect; the head of the list is removed whichever job ran.

The service answers in order. It gives the job in progress, else the oldest queued
one, to start-next, and ignores an update of a job that has ended. Answers may be
slow (the device gives up, `MaxSlow`), lost together with requests, connections
and power (`MaxLost`), or given twice or on a later connection (`MaxStray`). A job
document is reduced to its outcome; one that is empty succeeds, as in the code.

### AppTasks

Two tasks of one priority without time slices: a step goes from one blocking call
to the next. The step `connect` of either task stands for the DNS, TCP, TLS and MQTT
connect, during which the other runs. `JobsConnect` loads the certificate from flash;
`RegisterAccepted` and `SaveCert` are the erase and the program of its sector, with a
possible power cut between them. When both tasks have used the transport in one
attempt (`shared`), what two sessions do to each other over one configuration and
one TLS pointer is left open: any exchange of either may fail, at no cost in the
fault bound. Nothing is assumed of how long anything takes: provisioning may be over before
the jobs task has seen the network for the first time, and the initialisation that follows
(`JobsStart`) then takes the start it was given away. `fails` is `connectFailCount` with the
wrap of its type (`Width`, 2^16 in the code); `since` counts the failures since the last
renewal and is no part of the program.

A renewal here is one create answer and one register answer per attempt; that answers may be
repeated, late or unreadable is in `FleetProvisioning`. So `RenewalIsKept` says less of the
exchanges than `RenewsInOrder`, and more of what runs beside them; that only registered
certificates are saved is not claimed here, because of finding 2.

### FleetProvisioning

The two exchanges of `fleet_provisioning_handle`, with `Created` and `Registered` the
two branches of its event callback. What the device hears depends on what it is
subscribed to when the answer is given (`Hears`). A certificate is a number, and so is its
token; a record that holds parts of two counts as the one its PEM is from. `Parsed` is
`parsing_accept_certificate_create_msg`: an answer that it cannot read to the end leaves the
token as it was, and the callback goes on as if it had been read, since it ignores the result.
Without a token at hand the service rejects the request to register. The
unsubscribe, subscribe and publish between the two waits are one step. Rejections
count as losses, since the callback ignores them.

### MqttTransport

`cpu` is the task that has not blocked since its last step: the other may only go on
where it does, in DNS, in the handshake and in the waits. `todo` is the list of calls a
task still makes in its session, taken from the procedures of the two handlers; when
one fails it is replaced by the calls of the error path (`Cleanup`).

| In the model | In the code |
|---|---|
| `state`, `context`, `table`, `count` | `g_mqtt_config` |
| `callback`, `tls` | `g_mqtt_event_callback`, `g_mqtt_tls_context_ptr` |
| `held`, `open` | TLS contexts with memory, connected sockets |
| `Begin`, `DnsFails`, `TlsInit`, `HandshakeFails`, `Connected`, `Refused` | `mqtt_transport_init` and the three blocking parts of `mqtt_transport_connect` |
| `Subscribe`, `Overruns`, `Unsubscribe`, `Publish`, `Answered`, `TimedOut`, `Waits`, `CloseCall` | the calls of a session |

A table entry is a topic; those of the jobs task point into a stack frame that has been
left, so a comparison with them may give either result (`DanglingTopics`, `Found`). An
unsubscribe reaches the broker only for an entry it takes for its topic (`Sends`).
`shared` says that the two tasks have been in the transport at once; `undefined`
names the undefined behaviour that was met, after which nothing is modelled.

### HttpDownload

`http_get` from the URL to the close. Each kind of URL (`Urls`) is one outcome of
`parse_url_info` and `is_ipaddr`: too long, without a known scheme, with a part that is too
long or missing (`strtok` then returns NULL, and what can be read at address 0 is taken for
it), or an address; the fifth number `is_ipaddr` accepts lands in the port.
`left`, `got` and `total` are the bytes the server still has, those of the current chunk
and those stored, the latter two in 32 bits: a negative result of `recv` wraps.
`Renew` lets the idle task take socket 3, and `Drop` the peer end the connection, between any
two steps; a read of a socket that is no connection any more returns nothing or one of `recv`'s
error codes (`Codes`, `Reads`). `negative` remembers that one did. `FirmwareUpdate` has the
flash and the CRC. The TLS path of `http_get` is left out: `force_http` is always set.

### IdleTask

`now`, `refresh` and `start` are values of `get_time_ms`, which starts again after `Wrap`
values, while differences and the product with 1000 are reduced by `Word`. `d` is the
time since the task's last poll, up to `MaxHold`: no other task gives the processor back
on request. `age` and `spent` measure real time beside the clock. `DHCP_run` gives any
answer, at any time; the address is applied and the lease set in the same poll (`Assigned`).

## 3. Runs

| Run | Question | Bounds | Size |
|---|---|---|---|
| `firmware_update` | `TypeOK`, `ArmedImageVerified`, `NeverBricked`, `NoDowngrade`, `EraseBeforeProgram`, the refinement `UpdateIsAtomic`, and `ArmedIsInstalled` | three builds, two pages, two power cuts | 313,870 states |
| `erase_app_entry` | violation: `AppEntryErasesApp` | the same | finding 1 |
| `jobs_faults` | `TypeOK`, `SuccessIsTrue` under every kind of fault | three jobs, a list of two, two slow, two lost, two stray | 972,830 |
| `jobs_lossy` | `NoRunAfterEnd`, the refinement `JobsAreAtomic`, `QueuedIsStarted`, `EveryJobEnds` | three slow, two lost, no stray | 45,472 |
| `tasks` | `TypeOK`, `TransportIsFree`, `LoadsWholeCert`, the refinements `TransportIsUsed` and `RenewalIsKept`, `StrandedOnlyAtStart`, `Reconnects` | failure limit two, a count modulo five, seven certificates, five faults | 293,124 |
| `renewal_repeated` | violation: `RenewsAfterFailures` | failure limit one, two faults | finding 3 |
| `provisioning` | `TypeOK`, `ReplacedByRegistered`, the refinement `RenewsInOrder`, `Provisions` | two slow, three lost, two stray or unread | 248,445 |
| `provisioning_twice` | violation: `SavedWasRegistered` | one slow, one stray | finding 2 |
| `mqtt_transport` | `TypeOK`, `ClosedIsFree`, `PointerIsHeld`, `OwnSession`, `TableHasRoom`, `FreesItsContext`, the refinement `TransportIsServed` | the table's five entries, five faults | 42,929 |
| `http_download` | `TypeOK`, `StuckOnlyWithoutPort`, `SocketIsLeft`, `SuccessIsWhole`, `DownloadEnds` | 7 bytes in chunks of 3, counters modulo 32, two error codes, three faults, three renewals, any drop | 125,482 |
| `idle_task` | `TypeOK`, `LeaseIsKept`, `AttemptIsBounded`, `AddressComesBack` | clock of 12 values, word of 40, three leases, two link drops | 47,430 |
| `lease_is_over` | violation: `RenewsWhenOver` | the same, two leases | finding 4 |

Why the bounds are enough. *Two pages* give a first and a last page, a half-copied
area, a short image beside a full one, and an offset that loses its alignment;
*three builds* give an upgrade, a refused lower build, and a server that sends a
build the document does not describe; *two cuts* hit the arming and the clearing of
the flag, or the copy and its repetition. *Three jobs with a list of two* fill the
list and drop an id; one id is a prefix of another; one job reboots the device.
`jobs_faults` allows a stray answer together with a lost one, which is what it takes to
have a stale flag and a stale `JOB_ID` at once; three slow answers make every wait of one
job miss its answer. In `tasks`, *five faults with a limit of two* allow the three failures that ask
for a renewal, a failure inside it and a power cut after it; the count wraps past the limit when
further connects fail while the link is down, which costs nothing. In `provisioning`, `MaxCerts` is large enough
for each attempt, or each attempt and each repeated request, to create its own certificate,
so that the service never runs out before the run's end; two stray or unread answers are a
stray one that meets a record read in part. In `mqtt_transport` the table has
the size it has in the code and *five faults* end the connects and calls of both tasks in
one overlapped session. In `http_download` the length is neither a multiple of the buffer
nor below it, and the word tells a wrapped counter from a true one by more than the download;
*two codes* wrap a sum by one and by more than one. In `idle_task` one lease is shorter than the clock's period, one
longer, and one overflows its product with 1000; an attempt may begin before the clock's
wrap and end after it.

Deadlock is checked everywhere but in two modules: a provisioned device rests, once the
bounded number of renewals is used up (`FleetProvisioning`), and nothing is modelled after
undefined behaviour (`MqttTransport`).

### Fairness

* `FirmwareUpdate`: weak fairness of `DeviceStep`, the steps of the bootloader and of
  straight-line application code. Nothing is assumed of the network or the operator.
  `MaxCuts` bounds the cuts: a device that loses power in every copy never finishes.
* `IotJobs`: weak fairness of the task and of the service, and strong fairness of
  `GetJobs`, whose guard the task's own loop turns on and off: the loop tests a timer
  of ten seconds that does elapse.
* `AppTasks`: weak fairness of both tasks (equal priorities, and every loop has a
  blocking delay) and of the link coming back. The fairness is of a task, not of its single
  steps, so a task may go on failing as long as the fault bound, the link or an overlapped
  session lets it.
* `FleetProvisioning`: weak fairness of the task and of the service.
* `HttpDownload`: weak fairness of `Download`: the jobs task is scheduled, and every read
  and DNS query has a time-out. Nothing is assumed of the server, which may end the connection,
  or of the DHCP client.
* `IdleTask`: weak fairness of the task, and strong fairness of `Leased`: a DHCP server
  that is asked again and again answers at last, in an attempt that is still running.

Liveness is claimed for finitely many faults, by the bounds.

## 4. Findings

1. `boot/test_menu.c:78`: the menu entry "Erase App Area" erases the config area and
   leaves the application. The model has both entries do what they call.
2. `fleet_provisioning_handler.c:66`: the callback saves the record in RAM when the
   registration is accepted, not the certificate it registered. A second answer to
   the create request in between makes an unregistered certificate permanent, which
   the comment above it says it prevents.
3. `aws_iot_jobs_task.c:49`: `connectFailCount` is not reset by a renewal, so a second
   renewal starts at once, together with the first connect with the new certificate.
4. `idle_task.c:62`: after the wrap of `get_time_ms`, every 71.6 minutes, the difference to
   the time of the lease is almost 2^32, so the address is given up and asked for again
   with the trace "DHCP Lease time is over", whatever is left of the lease.

Behaviour the properties exclude in so many words, because no text of the repository
promises more:

* one repeated answer to start-next leaves the jobs client one answer behind for good,
  running empty documents (`jobs_lossy` has no stray answers);
* a status update lost before a reset leaves its job in progress until another job
  is queued (`EveryJobEnds` is stated up to the first loss);
* more than `MaxFail` failures lead into the overlapping renewals of finding 3, each of which may
  disturb the jobs task's session and be followed by another one: `Reconnects` allows for that by
  `made = MaxCerts`, the service being asked for certificates until it has none left;
* a start that `JobsStart` takes away leaves a device idle whose boot found no valid certificate:
  neither task has anything to do until the next boot (`Stranded`, which
  `StrandedOnlyAtStart` confines to that case, and which `Reconnects` allows for);
* with stray answers, or with an answer that cannot be read to the end, `ReplacedByRegistered`
  and `RenewsInOrder` fail as in finding 2 (both ask for `stray = 0`), and `JobsAreAtomic` fails as `NoRunAfterEnd` does;
* when two tasks have been in the transport at once, the close of one frees the context of
  the other: a null TLS pointer, an overrun table and a context that is never freed are
  reachable, as the actions `UsesNull` and `Overruns` show (`OwnSession`, `FreesItsContext` and
  `TableHasRoom` ask for `~ shared`);
* a URL without a known scheme, or too long for `parse_url_info` to look for one, leaves the
  HTTP client `RUNNING` for good (`StuckOnlyWithoutPort`);
* a read that returns an error code, on a connection that the peer or DHCP ended, is counted
  like a length and may end the download as a success without all its bytes (`SuccessIsWhole`
  asks for `~ negative`); the CRC test of `FirmwareUpdate` is what refuses the image then;
* a lease as long as the clock's period, given just after its wrap, may be kept for longer
  (the exception `LeaseIsKept` names).

## 5. Theorems

All are proved for every value of the constants that satisfies the named
assumptions of the modules (positive sizes, bounds that are naturals, sentinels apart).

| Theorem | Says | Rests on |
|---|---|---|
| `FirmwareUpdateProofs!TypeCorrect` | `Spec => []TypeOK` | the inductive type invariant, which bounds the loops by what they copy |
| `...!ArmedIsVerified` | `Spec => []ArmedImageVerified` | `ArmedInv`, `CopyInv` |
| `...!NotBricked` | `Spec => []NeverBricked` | also `AppInv` |
| `...!NotDowngraded` | `Spec => []NoDowngrade` | also `DownloadInv` |
| `...!InstallAdvances` | while the flag is set, every step but a power cut lowers `ToInstall \in Nat`, or clears the flag with the image in its place | `ArmedInv`, `CopyInv` |
| `FirmwareRefinementProofs!ProgramsErasedPages` | `Spec => EraseBeforeProgram` | `LoopInv` |
| `...!UpdateRefinesAtomic` | `Spec => UpdateIsAtomic`, that is `Spec => AU!Spec` | all of the above and the lemmas on `ImageIn` |
| `IotJobsProofs!TypeCorrect` | `Spec => []TypeOK` | `BusyHasJob`: while a start-next or update is under way the list has a head to remove |
| `...!ReportsAreTrue` | `Spec => []SuccessIsTrue` | `TruthInv` |
| `...!EndedStaysEnded` | `Spec => NoRunAfterEnd` when `MaxStray = 0` | `StartInv` |
| `...!JobsRefineAtomic` | `Spec => JobsAreAtomic`, that is `Spec => AJ!Spec`, when `MaxStray = 0` | `StartInv`, `StartedInv`, `CreatedInv` |
| `AppTasksProofs!TasksCorrect`, `TransportFree`, `WholeCertLoaded` | `TypeOK`, `TransportIsFree`, `LoadsWholeCert` | `TasksInv` |
| `...!OnlyStartStrands` | `Spec => StrandedOnlyAtStart` | `AskedInv` of `TasksInv` |
| `...!TasksUseTransport` | `Spec => TransportIsUsed`, a refinement of `SharedTransport` | also `ConnectInv` |
| `...!TasksRenew` | `Spec => RenewalIsKept`, a refinement of `CertificateRenewal` | also `EmptyInv` |
| `FleetProvisioningProofs!TypeCorrect` | `Spec => []TypeOK`, with stray and unread answers too | `MadeInv` |
| `...!OnlyRegisteredReplaces` | `Spec => ReplacedByRegistered` | `MadeInv`, and `PhaseInv` as long as `stray = 0` |
| `...!RenewalInOrder` | `Spec => RenewsInOrder`, a refinement of `CertificateRenewal` up to the first stray or unread answer | also `SaveInv` |
| `...!SavedRegisteredUntilStray` | `Spec => [](stray = 0 => SavedWasRegistered)`: finding 2 takes a stray answer, or an unread one | the same |
| `...!ProvisioningEnds` | up to the first stray or unread answer every step, the faults' included, lowers `Effort \in Nat` | `PhaseInv`, `FlagInv` |
| `MqttTransportProofs!TransportTypes` | `Spec => []TypeOK` | the calls of a session are well formed |
| `...!TransportIsFreed`, `PointerNeverDangles`, `SessionsAreOwn`, `SessionsFree` | `ClosedIsFree`, `PointerIsHeld`, `OwnSession`, `FreesItsContext` | `SessionInv` |
| `...!TableKeepsRoom` | `Spec => []TableHasRoom` when `TableSize >= 5` | `RoomInv`, which counts the calls still to be made |
| `...!TransportRefinesShared` | `Spec => TransportIsServed`, a refinement of `SharedTransport` | `SessionInv` |
| `HttpDownloadProofs!DownloadTypes`, `OnlyWithoutPortSticks`, `SocketIsGivenBack`, `SuccessReceivesAll` | `TypeOK`, `StuckOnlyWithoutPort`, `SocketIsLeft`, `SuccessIsWhole` | `DownloadInv` |
| `...!DownloadAlwaysAdvances` | every step of a download lowers `Effort \in Nat`, and the end of its connection does not raise it | `LoopInv` |
| `IdleTaskProofs!IdleTypes`, `LeaseKept`, `AttemptBounded` | `TypeOK`, `LeaseIsKept`, `AttemptIsBounded` | `LeaseInv`, `AttemptInv` |
| `...!RenewsEarlyOnlyByWrap` | an address is given up before its time only after a wrap of the clock, or when its product does not fit the word: the limits of finding 4 | `LeaseInv` |

Why the invariants are needed.

* `ArmedImageVerified` speaks of the config sector, but the sector is written from RAM
  two steps after the CRC was checked. `ArmedInv` says the same of the record in RAM
  from the check to the reset; `DownloadInv` says what the job document is while there
  is one; `CopyInv` says the copy is of the armed image and which of its pages are
  there; `AppInv` says that outside a copy or a restore the application area is whole.
* An id may change between the run and the report of a job, so `SuccessIsTrue` is not
  inductive: `TruthInv` adds that a report, in RAM or under way, names a job that was
  carried out or says it failed.
* `TasksInv` is what the tasks owe each other: `RunInv` (while the main task renews, the
  jobs task does not run unless it was connecting already), `WholeInv` (whenever the jobs
  task may load it, the certificate is whole), `RegisteredInv` (the certificate under way
  is registered once it is saved), `AskedInv` (a renewal stays asked for until it has
  succeeded) and `OwnerInv` (who holds the transport).
* `MadeInv`: what is under way, in RAM or saved was made, and a create answer that was read
  brought its token. `PhaseInv`: without stray or unread answers at most one message is under way
  and it belongs to the awaited exchange, and the record and the token are of one certificate, so
  the record cannot change between register and save.

* The refinement maps an armed device to one that still runs its old image with the new one
  staged, whatever the application area holds. Its steps are `Stage` when the record is
  programmed, `Commit` when the flag is cleared in flash, and the menu's steps. `LoopInv`
  says what the loops have done: pages a loop has not reached are erased, pages a factory copy
  has passed are copies, and while the application runs its area holds it. That is what makes
  the last page of a restore the step `RestoreEnds`, every other page a stutter, and every page
  that is programmed an erased one.
* `StartInv`: without stray answers a request to start a job is the last one on its way, so
  when the service has chosen a job nothing follows that could end it before its run. A
  status update whose answer is late may still be ahead of it, which is why the invariant
  is about the order of the queue and not about its being empty. For `AtomicJobs` it takes besides
  that a job which is reported, or named by an answer to start-next, was started before
  (`StartedInv`), and that the jobs are created in the order of their numbers (`CreatedInv`), since
  the service starts the oldest.
* `SessionInv`: `HoldingInv` says who holds sockets, pointer and memory and holds for overlapped
  sessions too; `AloneInv` says that a task alone finds the transport idle up to its connect.
  `RoomInv` adds what the count of the table alone does not tell: together with the subscriptions
  a task has still to make it never passes four, because an unsubscribe that does not find its
  topic leaves the count but none is made twice. The fifth entry is spare, so five are assumed,
  the size `MQTT_SUBSCRIPTION_MAX_NUM` has in the code.
* `ConnectInv` (a jobs task that is connecting is not connected) and `EmptyInv` (the sector is
  empty between its erase and its program), as `SaveInv` in `FleetProvisioning`, are what the
  refinements need besides: a step of the tasks is then one claim, connect or leave of the
  transport, and one step of a renewal, or none.
* `CountInv` of `DownloadInv`: until a read returns an error code, the bytes to come, those of
  the chunk and those stored add up to the content, whatever has become of the connection, and
  none of the sums wraps.
* `LeaseInv` and `AttemptInv` tie the clock to real time: up to the first lap the age is the
  difference the code computes, and an attempt that goes on has not lapped since its last poll.

Progress. TLAPS proves no liveness, but what a liveness property needs besides scheduling is
an action property: a natural number that falls with every step. `InstallAdvances`,
`DownloadAlwaysAdvances` and `ProvisioningEnds` say it for `ArmedIsInstalled`, `DownloadEnds` and
`Provisions`, up to steps whose number is bounded.

* While the flag is set, nothing but a power cut comes between the steps of the installation.
* In a download the number is not simply what is left of the body: on a socket that is no
  connection any more a read may give an error code, which takes its size from the total at every
  turn until that passes below zero and counts as complete. So the number is counted from what is
  stored once the connection is over, and is larger than that as long as it lasts. `LoopInv` says that the loop goes on only below the
  length, with a chunk that fits its buffer.
* In provisioning an attempt that can still succeed is nearer to the end than the next attempt,
  and one that cannot is farther, since its wait has to run out first. A loss or a slow answer
  may undo an attempt but is paid from its bound (`Effort`). So without stray or unread answers no
  behaviour is infinite, and `Provisions` is left with where they stop. `FlagInv` says that the flag of the
  answer survives the save.

Only model-checked. Liveness (`ArmedIsInstalled`, `QueuedIsStarted`, `EveryJobEnds`,
`Reconnects`, `Provisions`, `DownloadEnds`, `AddressComesBack`) is out of the prover's reach, as
are `ENABLED` and induction over data; the modules declare no recursive operator. Every other
property of a passing run is stated by a theorem; `NoRunAfterEnd` and `JobsAreAtomic` hold without
stray answers only, which is what `jobs_lossy` checks.

## 6. Not modelled, and why

* The TLS path of the HTTP client, the path without TLS of the MQTT transport and the static
  address: nothing in the firmware asks for them. `tls_socket_deinit`,
  `tls_transport_disconnect` and `get_dhcp_check_leasetime` are never called.
* mbedTLS, coreMQTT, coreHTTP, coreJSON, tinycbor, ioLibrary and FreeRTOS are taken at their
  interfaces; most of their sources are not part of the repository. The vendored
  OpenOCD and FTDI files belong to the build tools.
* Logger, LED, certificate checker and OS wrappers keep no state the properties depend on;
  the unit test task is not built (`app/CMakeLists.txt` does not name it).
* Contents of messages, JSON and CBOR parsing, and topic strings are abstracted to which
  message it is and what it names, and whether it could be read. Of the hazards listed, two live
  in what this leaves out and no property covers them: the token copied without its terminator,
  and the length of a download that is not compared with the OTA area.
* The CRC's arithmetic (a CRC identifies an image) and the dumps of the bootloader's print
  menu, which change no state.

## 7. Plan

Done: the update, the jobs client, the tasks, provisioning, the transport, the download and
the idle task, in the order of what an error would cost, with the abstract specifications that
connect them and the theorems above. What could follow: the token's tail in
`FleetProvisioning`; `HttpDownload` as the refinement of the download steps of
`FirmwareUpdate`; and progress theorems for the jobs client and the tasks, whose loops never
end, so that the number would have to fall from poll to poll.

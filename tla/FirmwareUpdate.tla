--------------------------- MODULE FirmwareUpdate ---------------------------
(***************************************************************************)
(* The over-the-air update from the job document to the jump into the new  *)
(* application: app/aws_iot/iot_jobs_handler.c (start_job_document),       *)
(* app/aws_iot/iot_jobs_job_ota_handler.c (download and CRC),              *)
(* port/flash_interface/flash_control.c (every flash operation),           *)
(* boot/main.c and boot/test_menu.c (the bootloader and its menus) and the *)
(* start of app/main.c.  The power may be cut before any step.             *)
(*                                                                         *)
(* Only one flow of control touches the flash: the bootloader, or, once it *)
(* has jumped, the start of the application and then the jobs task.  pc is *)
(* where that flow stands.                                                 *)
(*                                                                         *)
(* A page of an area holds Erased, Junk, or the page that belongs at this  *)
(* position of image v, written v.  The CRC-16 of an image identifies it.  *)
(***************************************************************************)
EXTENDS Naturals

CONSTANTS
  Images,     \* the firmware builds the server can offer
  NPages,     \* pages in each of the three firmware areas
  Size,       \* Size[v]: the pages image v fills
  Version,    \* Version[v]: its <<major, minor, patch>>
  MaxCuts,    \* bound on the number of power cuts
  NoImage, Erased, Junk

ASSUME PagesAssumption == NPages \in Nat \ {0}
ASSUME SizeAssumption == Size \in [Images -> 1..NPages]
ASSUME VersionAssumption == Version \in [Images -> Nat \X Nat \X Nat]
ASSUME CutsAssumption == MaxCuts \in Nat
ASSUME SentinelAssumption ==
  /\ NoImage \notin Images
  /\ Erased \notin Images
  /\ Junk \notin Images
  /\ Erased # Junk

Page == 1..NPages
Area == {"app", "factory", "ota"}
Cell == Images \cup {Erased, Junk}

(***************************************************************************)
(* DEVICE_OTA_INFO_t as it stands in the config sector or in RAM.  ERASED  *)
(* and TORN are what the flag word reads as when the sector is blank, or   *)
(* when a power cut left its last page unprogrammed.                       *)
(***************************************************************************)
OtaInfo == [flag : {"ENABLE", "DISABLE", "ERASED", "TORN"},
            size : 0..NPages,
            crc  : Images \cup {NoImage}]

Blank     == [p \in Page |-> Erased]
NoInfo(f) == [flag |-> f, size |-> 0, crc |-> NoImage]

VARIABLES
  flash,      \* flash[a][p]: page p of area a
  cfg,        \* DEVICE_OTA_INFO in the config sector
  ram,        \* appCommon.DEVICE_OTA_INFO
  pc,         \* where the program stands
  idx,        \* pages done by the copy or download loop
  doc,        \* the image the job document describes (size, CRC, version)
  served,     \* the image the HTTP server sends
  aligned,    \* the download offset is still a multiple of the page size
  running,    \* history: the image that last started
  restoring,  \* history: a factory restore has begun, and no whole image came of it
  cuts        \* power cuts so far

vars == <<flash, cfg, ram, pc, idx, doc, served, aligned, running, restoring, cuts>>

BootPc ==
  {"load", "check", "copyErase", "copyOta", "bootSaveErase", "bootSaveWrite",
   "menu", "wipeFactory", "wipeOta", "backupErase", "backupCopy",
   "restoreErase", "restoreCopy", "eraseConfig", "eraseApp", "hung"}
AppPc ==
  {"appStart", "initSaveErase", "initSaveWrite", "idle", "download",
   "dlErase", "dlRecv", "verify", "armSaveErase", "armSaveWrite", "report"}

TypeOK ==
  /\ flash \in [Area -> [Page -> Cell]]
  /\ cfg \in OtaInfo
  /\ ram \in OtaInfo
  /\ pc \in BootPc \cup AppPc
  /\ idx \in 0..NPages
  /\ doc \in Images \cup {NoImage}
  /\ served \in Images \cup {NoImage}
  /\ aligned \in BOOLEAN
  /\ running \in Images
  /\ restoring \in BOOLEAN
  /\ cuts \in 0..MaxCuts

Holds(cells, v) == \A p \in 1..Size[v] : cells[p] = v
Whole(cells)    == \E v \in Images : Holds(cells, v)

\* Mutant: refused only when every component is lower.
IsUpperMutant(cur, new) ==
  ~ (new[1] < cur[1] /\ new[2] < cur[2] /\ new[3] < cur[3])

\* is_upper_version_fw: refused as soon as one component is lower.
IsUpper(cur, new) ==
  ~ (new[1] < cur[1] \/ new[2] < cur[2] \/ new[3] < cur[3])

-----------------------------------------------------------------------------
(* The flash operations, each named for the program counters it leads      *)
(* from and to.                                                            *)

EraseArea(from, area, to) ==
  /\ pc = from
  /\ flash' = [flash EXCEPT ![area] = Blank]
  /\ idx' = 0
  /\ pc' = to
  /\ UNCHANGED <<cfg, ram, doc, served, aligned, running, restoring, cuts>>

CopyPage(at, src, dst, n) ==
  /\ pc = at
  /\ idx < n
  /\ flash' = [flash EXCEPT ![dst] = [@ EXCEPT ![idx + 1] = flash[src][idx + 1]]]
  /\ idx' = idx + 1
  /\ UNCHANGED <<cfg, ram, pc, doc, served, aligned, running, restoring, cuts>>

\* save_flash_common_config_info: erase the sector, then program appCommon.
SaveErase(from, to) ==
  /\ pc = from
  /\ cfg' = NoInfo("ERASED")
  /\ pc' = to
  /\ UNCHANGED <<flash, ram, idx, doc, served, aligned, running, restoring, cuts>>

SaveWrite(from, to) ==
  /\ pc = from
  /\ cfg' = ram
  /\ pc' = to
  /\ UNCHANGED <<flash, ram, idx, doc, served, aligned, running, restoring, cuts>>

-----------------------------------------------------------------------------
(* The bootloader.                                                         *)

\* Mutant: the bootloader does not read the config sector.
BootLoadMutant ==
  /\ pc = "load"
  /\ pc' = "check"
  /\ UNCHANGED <<flash, cfg, ram, idx, doc, served, aligned, running, restoring, cuts>>

BootLoad ==
  /\ pc = "load"
  /\ ram' = cfg
  /\ pc' = "check"
  /\ UNCHANGED <<flash, cfg, idx, doc, served, aligned, running, restoring, cuts>>

BootCheck ==
  /\ pc = "check"
  /\ pc' = IF ram.flag = "ENABLE" THEN "copyErase" ELSE "menu"
  /\ UNCHANGED <<flash, cfg, ram, idx, doc, served, aligned, running, restoring, cuts>>

EraseAppForCopy == EraseArea("copyErase", "app", "copyOta")

CopyOtaPage == CopyPage("copyOta", "ota", "app", ram.size)

\* Mutant: the copy rounds the image size down, not up, to whole pages.
CopyOtaDoneMutant ==
  /\ pc = "copyOta"
  /\ idx + 1 >= ram.size
  /\ ram' = [ram EXCEPT !.flag = "DISABLE"]
  /\ pc' = "bootSaveErase"
  /\ UNCHANGED <<flash, cfg, idx, doc, served, aligned, running, restoring, cuts>>

CopyOtaDone ==
  /\ pc = "copyOta"
  /\ idx >= ram.size
  /\ ram' = [ram EXCEPT !.flag = "DISABLE"]
  /\ pc' = "bootSaveErase"
  /\ UNCHANGED <<flash, cfg, idx, doc, served, aligned, running, restoring, cuts>>

BootSave ==
  \/ SaveErase("bootSaveErase", "bootSaveWrite")
  \/ SaveWrite("bootSaveWrite", "menu")

(* The operator's menus: the entries "Erase Config Area" and "Erase App    *)
(* Area" call the same function; the factory copies move APPLICATION_SIZE. *)

MenuKeys == {"eraseConfig", "eraseApp", "wipeFactory", "wipeOta", "backupErase", "restoreErase"}

MenuChoice(to) ==
  /\ pc = "menu"
  /\ pc' = to
  /\ restoring' = (restoring \/ to = "restoreErase")
  /\ UNCHANGED <<flash, cfg, ram, idx, doc, served, aligned, running, cuts>>

EraseConfigArea(from) ==
  /\ pc = from
  /\ cfg' = NoInfo("ERASED")
  /\ pc' = "menu"
  /\ UNCHANGED <<flash, ram, idx, doc, served, aligned, running, restoring, cuts>>

CopyDone(at) ==
  /\ pc = at
  /\ idx = NPages
  /\ pc' = "menu"
  /\ restoring' = IF at = "restoreCopy" THEN ~ Whole(flash["app"]) ELSE restoring
  /\ UNCHANGED <<flash, cfg, ram, idx, doc, served, aligned, running, cuts>>

Menu ==
  \/ \E to \in MenuKeys : MenuChoice(to)
  \/ EraseConfigArea("eraseConfig")
  \/ EraseConfigArea("eraseApp")
  \/ EraseArea("wipeFactory", "factory", "menu")
  \/ EraseArea("wipeOta", "ota", "menu")
  \/ EraseArea("backupErase", "factory", "backupCopy")
  \/ EraseArea("restoreErase", "app", "restoreCopy")
  \/ CopyPage("backupCopy", "app", "factory", NPages)
  \/ CopyPage("restoreCopy", "factory", "app", NPages)
  \/ CopyDone("backupCopy")
  \/ CopyDone("restoreCopy")

\* jump_to_app: nothing checks what the application area holds.
Jump ==
  /\ pc = "menu"
  /\ \/ \E v \in Images :
          /\ Holds(flash["app"], v)
          /\ running' = v
          /\ restoring' = FALSE
          /\ pc' = "appStart"
     \/ /\ ~ Whole(flash["app"])
        /\ pc' = "hung"
        /\ UNCHANGED <<running, restoring>>
  /\ UNCHANGED <<flash, cfg, ram, idx, doc, served, aligned, cuts>>

-----------------------------------------------------------------------------
(* The application: its start, then an OTA job of the jobs task.           *)

AppStart ==
  /\ pc = "appStart"
  /\ \/ /\ cfg.flag = "ERASED"
        /\ ram' = NoInfo("DISABLE")
        /\ pc' = "initSaveErase"
     \/ /\ cfg.flag # "ERASED"
        /\ ram' = cfg
        /\ pc' = "idle"
  /\ UNCHANGED <<flash, cfg, idx, doc, served, aligned, running, restoring, cuts>>

InitSave ==
  \/ SaveErase("initSaveErase", "initSaveWrite")
  \/ SaveWrite("initSaveWrite", "idle")

\* get_char_count of the dots: any other count is no version.
WellFormed(dots) == dots = 2

StartOtaJob(w) ==
  /\ pc = "idle"
  /\ ram' = [ram EXCEPT !.flag = "DISABLE"]
  /\ doc' = w
  /\ \E dots \in 1..3 :
       pc' = IF WellFormed(dots) /\ IsUpper(Version[running], Version[w])
               THEN "download" ELSE "idle"
  /\ UNCHANGED <<flash, cfg, idx, served, aligned, running, restoring, cuts>>

\* A document that lacks a parameter, or whose URL or version is too long; the
\* previous job's parameters are gone by then.
BadDocument ==
  /\ pc = "idle"
  /\ ram' = [ram EXCEPT !.flag = "DISABLE"]
  /\ doc' = NoImage
  /\ UNCHANGED <<flash, cfg, pc, idx, served, aligned, running, restoring, cuts>>

\* http_get returns -1, or the answer is too short to be a binary.
DownloadRefused ==
  /\ pc = "download"
  /\ pc' = "idle"
  /\ UNCHANGED <<flash, cfg, ram, idx, doc, served, aligned, running, restoring, cuts>>

\* HTTPNetworkError is neither -1 nor -2: the CRC check goes ahead.
DownloadNotStarted ==
  /\ pc = "download"
  /\ pc' = "verify"
  /\ UNCHANGED <<flash, cfg, ram, idx, doc, served, aligned, running, restoring, cuts>>

DownloadBegins(u) ==
  /\ pc = "download"
  /\ served' = u
  /\ aligned' = TRUE
  /\ pc' = "dlErase"
  /\ UNCHANGED <<flash, cfg, ram, idx, doc, running, restoring, cuts>>

\* Mutant: the download does not erase the OTA area first.
EraseOtaForDownloadMutant ==
  /\ pc = "dlErase"
  /\ idx' = 0
  /\ pc' = "dlRecv"
  /\ UNCHANGED <<flash, cfg, ram, doc, served, aligned, running, restoring, cuts>>

EraseOtaForDownload == EraseArea("dlErase", "ota", "dlRecv")

\* Mutant: the completeness test asks for more than the content length.
RecvPageMutant(full) ==
  /\ pc = "dlRecv"
  /\ LET good  == aligned /\ full
         wrong == IF aligned THEN {idx + 1} ELSE {idx, idx + 1}
     IN  /\ flash' = [flash EXCEPT !["ota"] =
                        [p \in Page |-> IF good /\ p = idx + 1 THEN served
                                        ELSE IF ~good /\ p \in wrong THEN Junk
                                        ELSE @[p]]]
         /\ aligned' = good
  /\ idx' = idx + 1
  /\ pc' = IF idx + 1 > Size[served] THEN "verify" ELSE "dlRecv"
  /\ UNCHANGED <<cfg, ram, doc, served, running, restoring, cuts>>

(***************************************************************************)
(* One page of a received chunk is programmed.  A chunk that stops short   *)
(* of the page's end is padded with zeros, and the next offset is no       *)
(* longer a page boundary: what lands there and after it is Junk.  The     *)
(* page in which the image ends is full when its bytes are all there.      *)
(***************************************************************************)
RecvPage(full) ==
  /\ pc = "dlRecv"
  /\ LET good  == aligned /\ full
         wrong == IF aligned THEN {idx + 1} ELSE {idx, idx + 1}
     IN  /\ flash' = [flash EXCEPT !["ota"] =
                        [p \in Page |-> IF good /\ p = idx + 1 THEN served
                                        ELSE IF ~good /\ p \in wrong THEN Junk
                                        ELSE @[p]]]
         /\ aligned' = good
  /\ idx' = idx + 1
  /\ pc' = IF idx + 1 >= Size[served] THEN "verify" ELSE "dlRecv"
  /\ UNCHANGED <<cfg, ram, doc, served, running, restoring, cuts>>

\* A negative recv wraps to a huge uint32 whose page count truncates to 0:
\* nothing is programmed and the offset moves back off the page boundary.
\* Before the first page, the total wraps as well and passes for complete.
RecvNegative ==
  /\ pc = "dlRecv"
  /\ aligned' = FALSE
  /\ pc' = IF idx = 0 THEN "verify" ELSE "dlRecv"
  /\ UNCHANGED <<flash, cfg, ram, idx, doc, served, running, restoring, cuts>>

RecvNothing ==
  /\ pc = "dlRecv"
  /\ pc' = "idle"
  /\ UNCHANGED <<flash, cfg, ram, idx, doc, served, aligned, running, restoring, cuts>>

\* Mutant: a CRC mismatch is reported but does not refuse the image.
VerifyCrcMutant ==
  /\ pc = "verify"
  /\ ram' = [flag |-> "ENABLE", size |-> Size[doc], crc |-> doc]
  /\ pc' = "armSaveErase"
  /\ UNCHANGED <<flash, cfg, idx, doc, served, aligned, running, restoring, cuts>>

VerifyCrc ==
  /\ pc = "verify"
  /\ \/ /\ Holds(flash["ota"], doc)
        /\ ram' = [flag |-> "ENABLE", size |-> Size[doc], crc |-> doc]
        /\ pc' = "armSaveErase"
     \/ /\ ~ Holds(flash["ota"], doc)
        /\ pc' = "idle"
        /\ UNCHANGED ram
  /\ UNCHANGED <<flash, cfg, idx, doc, served, aligned, running, restoring, cuts>>

ArmSave ==
  \/ SaveErase("armSaveErase", "armSaveWrite")
  \/ SaveWrite("armSaveWrite", "report")

-----------------------------------------------------------------------------
\* What a reset clears.
Restart ==
  /\ pc' = "load"
  /\ ram' = NoInfo("DISABLE")
  /\ idx' = 0
  /\ doc' = NoImage
  /\ served' = NoImage
  /\ aligned' = TRUE
  /\ UNCHANGED <<running, restoring>>

\* Mutant: the device reboots only when the update was accepted.
ReportAndRebootMutant ==
  /\ pc = "report"
  /\ \/ Restart
     \/ /\ pc' = "idle"
        /\ UNCHANGED <<ram, idx, doc, served, aligned, running, restoring>>
  /\ UNCHANGED <<flash, cfg, cuts>>

\* The status update is accepted or times out; the device reboots either way.
ReportAndReboot ==
  /\ pc = "report"
  /\ Restart
  /\ UNCHANGED <<flash, cfg, cuts>>

\* The operator resets a device whose application does not start.
ResetHung ==
  /\ pc = "hung"
  /\ Restart
  /\ UNCHANGED <<flash, cfg, cuts>>

(***************************************************************************)
(* A power cut.  AtRisk(a) is the pages of area a that the interrupted     *)
(* operation may leave with any content: all of them during an erase, the  *)
(* page being programmed during a loop.  The config sector's erase is      *)
(* atomic; its programming may stop before the last page.                  *)
(***************************************************************************)
AtRisk(area) ==
  IF \/ area = "app" /\ pc \in {"copyErase", "restoreErase"}
     \/ area = "factory" /\ pc \in {"wipeFactory", "backupErase"}
     \/ area = "ota" /\ pc \in {"wipeOta", "dlErase"}
    THEN Page
  ELSE IF \/ area = "app" /\ pc \in {"copyOta", "restoreCopy"}
          \/ area = "factory" /\ pc = "backupCopy"
          \/ area = "ota" /\ pc = "dlRecv"
    THEN {idx + 1} \cap Page
  ELSE {}

Spoil(cells, S) == [p \in Page |-> IF p \in S THEN Junk ELSE cells[p]]

PowerCut ==
  /\ cuts < MaxCuts
  /\ cuts' = cuts + 1
  /\ \E area \in Area : \E S \in SUBSET AtRisk(area) :
       flash' = [flash EXCEPT ![area] = Spoil(@, S)]
  /\ \/ UNCHANGED cfg
     \/ /\ pc \in {"bootSaveWrite", "initSaveWrite", "armSaveWrite"}
        /\ cfg' = NoInfo("TORN")
  /\ Restart

-----------------------------------------------------------------------------
Init ==
  /\ running \in Images
  /\ flash = [a \in Area |-> IF a = "app"
                THEN [p \in Page |-> IF p <= Size[running] THEN running ELSE Erased]
                ELSE Blank]
  /\ cfg = NoInfo("ERASED")
  /\ ram = NoInfo("DISABLE")
  /\ pc = "load"
  /\ idx = 0
  /\ doc = NoImage
  /\ served = NoImage
  /\ aligned = TRUE
  /\ restoring = FALSE
  /\ cuts = 0

\* The steps that neither the network nor the operator has to bring about.
DeviceStep ==
  \/ BootLoad
  \/ BootCheck
  \/ EraseAppForCopy
  \/ CopyOtaPage
  \/ CopyOtaDone
  \/ BootSave
  \/ AppStart
  \/ InitSave
  \/ EraseOtaForDownload
  \/ VerifyCrc
  \/ ArmSave
  \/ ReportAndReboot

Network ==
  \/ \E w \in Images : StartOtaJob(w)
  \/ BadDocument
  \/ DownloadRefused
  \/ DownloadNotStarted
  \/ \E u \in Images : DownloadBegins(u)
  \/ \E full \in BOOLEAN : RecvPage(full)
  \/ RecvNegative
  \/ RecvNothing

Next ==
  \/ DeviceStep
  \/ Network
  \/ Menu
  \/ Jump
  \/ ResetHung
  \/ PowerCut

Spec == Init /\ [][Next]_vars

\* The bootloader's loop and the application's straight-line code always go
\* on, and the wait before the reboot has a timeout of its own.
FairSpec == Spec /\ WF_vars(DeviceStep)

-----------------------------------------------------------------------------
(***************************************************************************)
(* Whatever sets the start flag in the config sector, the OTA area holds   *)
(* the image the flag's record describes, complete and CRC-checked, for as *)
(* long as the flag is there: the bootloader copies it unchecked           *)
(* (boot/main.c:62-72), possibly several times, whenever the power returns.*)
(***************************************************************************)
ArmedImageVerified ==
  cfg.flag = "ENABLE" =>
    /\ cfg.crc \in Images
    /\ cfg.size = Size[cfg.crc]
    /\ Holds(flash["ota"], cfg.crc)

(***************************************************************************)
(* The bootloader never jumps into an application area that holds no whole *)
(* image (boot/main.c:105-106 checks nothing), wherever the power is cut:  *)
(* only a factory restore that was interrupted, or had nothing to restore, *)
(* can bring that about.                                                   *)
(***************************************************************************)
NeverBricked == pc = "hung" => restoring

\* cur <= new in the order of releases: major, then minor, then patch.
NotLower(cur, new) ==
  \/ cur[1] < new[1]
  \/ cur[1] = new[1] /\ cur[2] < new[2]
  \/ cur[1] = new[1] /\ cur[2] = new[2] /\ cur[3] <= new[3]

(***************************************************************************)
(* An image armed for the bootloader is never an older release than the    *)
(* one the device last ran, although is_upper_version_fw compares the      *)
(* components one by one (device_common.c:234).                            *)
(***************************************************************************)
NoDowngrade ==
  cfg.flag = "ENABLE" => NotLower(Version[running], Version[cfg.crc])

(***************************************************************************)
(* Image data is programmed only into an erased page: NOR programming can  *)
(* only clear bits (flash_control.c:43), so data over data leaves neither. *)
(* Every loop of the program relies on an erase that another function made *)
(* earlier, and that a power cut may have separated from it.               *)
(***************************************************************************)
EraseBeforeProgram ==
  [][\A a \in Area, p \in Page :
       \/ flash'[a][p] \in {flash[a][p], Erased, Junk}
       \/ flash[a][p] = Erased]_flash

\* The image an area holds, if it holds one.
ImageIn(cells) ==
  IF Whole(cells) THEN CHOOSE v \in Images : Holds(cells, v) ELSE NoImage

Armed == cfg.flag = "ENABLE"

AU == INSTANCE AtomicUpdate WITH
  NotOlder <- {p \in Images \X Images : NotLower(Version[p[1]], Version[p[2]])},
  active   <- IF Armed THEN running ELSE ImageIn(flash["app"]),
  staged   <- IF Armed THEN cfg.crc ELSE NoImage,
  fallback <- ImageIn(flash["factory"])

(***************************************************************************)
(* Download, config save, reboot, page copy and second config save, with   *)
(* power cuts between and inside them, amount to an atomic replacement of  *)
(* one whole image by another.                                             *)
(***************************************************************************)
UpdateIsAtomic == AU!Spec

(***************************************************************************)
(* Once the flag is in the config sector, the described image ends up in   *)
(* the application area and the flag is cleared, whatever power cuts come  *)
(* between: the copy is repeated until it has been completed once.         *)
(***************************************************************************)
ArmedIsInstalled ==
  \A v \in Images :
    (Armed /\ cfg.crc = v) ~> (~ Armed /\ Holds(flash["app"], v))

(***************************************************************************)
(* What boot/test_menu.c:23 offers the operator, "Erase App Area": the     *)
(* entry leaves the application area erased.  The code erases the config   *)
(* area instead (line 78).                                                 *)
(***************************************************************************)
AppEntryErasesApp ==
  [][pc = "eraseApp" /\ pc' = "menu" => flash'["app"] = Blank]_vars
=============================================================================

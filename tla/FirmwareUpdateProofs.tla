------------------------ MODULE FirmwareUpdateProofs ------------------------
(***************************************************************************)
(* Type correctness and the safety invariants of FirmwareUpdate for every  *)
(* set of images, every area size and every number of power cuts.          *)
(***************************************************************************)
EXTENDS FirmwareUpdate, TLAPS

\* A version none of whose components is lower is not an older release.
LEMMA UpperIsNotLower ==
  ASSUME NEW v \in Images, NEW w \in Images, IsUpper(Version[v], Version[w])
  PROVE  NotLower(Version[v], Version[w])
  BY VersionAssumption DEF IsUpper, NotLower

LEMMA BlankType == Blank \in [Page -> Cell]
  BY DEF Blank, Cell

LEMMA NoInfoType ==
  ASSUME NEW f \in {"ENABLE", "DISABLE", "ERASED", "TORN"}
  PROVE  NoInfo(f) \in OtaInfo
  BY PagesAssumption DEF NoInfo, OtaInfo

LEMMA SpoilType ==
  ASSUME NEW cells \in [Page -> Cell], NEW S
  PROVE  Spoil(cells, S) \in [Page -> Cell]
  BY DEF Spoil, Cell

-----------------------------------------------------------------------------
(* What the loops need to stay inside an area, and type correctness.       *)

Bounds ==
  /\ pc \in {"download", "dlErase", "dlRecv", "verify", "armSaveErase", "armSaveWrite"}
       => doc \in Images
  /\ pc \in {"dlErase", "dlRecv"} => served \in Images
  /\ pc = "dlRecv" => idx < Size[served]

TypeInv == TypeOK /\ Bounds

LEMMA InitTypeInv == Init => TypeInv
  <1> SUFFICES ASSUME Init PROVE TypeInv
    OBVIOUS
  <1>1. flash \in [Area -> [Page -> Cell]]
    <2>1. [p \in Page |-> IF p <= Size[running] THEN running ELSE Erased] \in [Page -> Cell]
      BY DEF Init, Cell
    <2>2. QED
      BY <2>1, BlankType DEF Init
  <1>2. cfg \in OtaInfo /\ ram \in OtaInfo
    BY NoInfoType DEF Init
  <1>3. pc \in BootPc \cup AppPc
    BY DEF Init, BootPc
  <1>4. idx \in 0..NPages /\ cuts \in 0..MaxCuts
    BY PagesAssumption, CutsAssumption DEF Init
  <1>5. Bounds
    BY DEF Init, Bounds
  <1>6. QED
    BY <1>1, <1>2, <1>3, <1>4, <1>5 DEF Init, TypeInv, TypeOK

LEMMA EraseAreaType ==
  ASSUME TypeInv, NEW from, NEW area \in Area, NEW to \in BootPc \cup AppPc,
         EraseArea(from, area, to),
         \/ to = "menu" \/ to = "backupCopy" \/ to = "restoreCopy" \/ to = "copyOta"
         \/ to = "dlRecv" /\ from = "dlErase"
  PROVE  TypeInv'
  <1>1. flash' \in [Area -> [Page -> Cell]]
    BY BlankType DEF EraseArea, TypeInv, TypeOK
  <1>2. pc' = "dlRecv" => idx' < Size[served']
    BY SizeAssumption DEF EraseArea, TypeInv, Bounds
  <1>3. QED
    BY <1>1, <1>2, PagesAssumption DEF EraseArea, TypeInv, TypeOK, Bounds

LEMMA CopyPageType ==
  ASSUME TypeInv, NEW at, NEW src \in Area, NEW dst \in Area, NEW n \in 0..NPages,
         CopyPage(at, src, dst, n), at # "dlRecv"
  PROVE  TypeInv'
  <1>1. flash' \in [Area -> [Page -> Cell]]
    <2>1. idx + 1 \in Page
      BY PagesAssumption DEF CopyPage, TypeInv, TypeOK, Page
    <2>2. flash[src] \in [Page -> Cell] /\ flash[dst] \in [Page -> Cell]
      BY DEF TypeInv, TypeOK
    <2>3. [flash[dst] EXCEPT ![idx + 1] = flash[src][idx + 1]] \in [Page -> Cell]
      BY <2>1, <2>2
    <2>4. QED
      BY <2>3 DEF CopyPage, TypeInv, TypeOK
  <1>2. idx' \in 0..NPages
    BY PagesAssumption DEF CopyPage, TypeInv, TypeOK
  <1>3. QED
    BY <1>1, <1>2 DEF CopyPage, TypeInv, TypeOK, Bounds

LEMMA SaveType ==
  ASSUME TypeInv, NEW from, NEW to \in BootPc \cup AppPc,
         SaveErase(from, to) \/ SaveWrite(from, to),
         to \in {"download", "dlErase", "dlRecv", "verify", "armSaveErase", "armSaveWrite"}
           => to = "armSaveWrite" /\ from = "armSaveErase"
  PROVE  TypeInv'
  BY NoInfoType DEF SaveErase, SaveWrite, TypeInv, TypeOK, Bounds

LEMMA RestartType ==
  ASSUME TypeInv, Restart, flash' \in [Area -> [Page -> Cell]], cfg' \in OtaInfo,
         cuts' \in 0..MaxCuts
  PROVE  TypeInv'
  BY NoInfoType, PagesAssumption DEF Restart, TypeInv, TypeOK, Bounds, BootPc

LEMMA RecvPageType ==
  ASSUME TypeInv, NEW full \in BOOLEAN, RecvPage(full)
  PROVE  TypeInv'
  <1> DEFINE good == aligned /\ full
             wrong == IF aligned THEN {idx + 1} ELSE {idx, idx + 1}
             cells == [p \in Page |-> IF good /\ p = idx + 1 THEN served
                                      ELSE IF ~good /\ p \in wrong THEN Junk
                                      ELSE flash["ota"][p]]
  <1>1. served \in Images /\ idx < Size[served] /\ doc \in Images
    BY DEF RecvPage, TypeInv, Bounds
  <1>2. cells \in [Page -> Cell]
    <2>1. flash["ota"] \in [Page -> Cell]
      BY DEF TypeInv, TypeOK, Area
    <2>2. QED
      BY <1>1, <2>1 DEF Cell
  <1>3. flash' \in [Area -> [Page -> Cell]]
    <2>1. flash' = [flash EXCEPT !["ota"] = cells]
      BY DEF RecvPage
    <2>2. QED
      BY <1>2, <2>1 DEF TypeInv, TypeOK
  <1>4. idx' \in 0..NPages
    BY <1>1, SizeAssumption, PagesAssumption DEF RecvPage, TypeInv, TypeOK
  <1>5. pc' = "dlRecv" => idx' < Size[served']
    BY <1>1, SizeAssumption DEF RecvPage, TypeInv, TypeOK
  <1>6. pc' \in {"dlRecv", "verify"} /\ aligned' \in BOOLEAN
    BY DEF RecvPage, TypeInv, TypeOK
  <1>7. UNCHANGED <<cfg, ram, doc, served, running, restoring, cuts>>
    BY DEF RecvPage
  <1>8. QED
    BY <1>1, <1>3, <1>4, <1>5, <1>6, <1>7 DEF TypeInv, TypeOK, Bounds, AppPc

LEMMA VerifyCrcType ==
  ASSUME TypeInv, VerifyCrc
  PROVE  TypeInv'
  <1>1. doc \in Images
    BY DEF VerifyCrc, TypeInv, Bounds
  <1>2. [flag |-> "ENABLE", size |-> Size[doc], crc |-> doc] \in OtaInfo
    BY <1>1, SizeAssumption, PagesAssumption DEF OtaInfo
  <1>3. pc' \in {"armSaveErase", "idle"} /\ ram' \in OtaInfo
    BY <1>1, <1>2 DEF VerifyCrc, TypeInv, TypeOK
  <1>4. pc' \in BootPc \cup AppPc
    BY <1>3 DEF AppPc
  <1>5. QED
    BY <1>1, <1>3, <1>4 DEF VerifyCrc, TypeInv, TypeOK, Bounds

LEMMA PowerCutType ==
  ASSUME TypeInv, PowerCut
  PROVE  TypeInv'
  <1>1. flash' \in [Area -> [Page -> Cell]]
    <2>1. PICK area \in Area : \E S \in SUBSET AtRisk(area) :
             flash' = [flash EXCEPT ![area] = Spoil(@, S)]
      BY DEF PowerCut
    <2>2. PICK S \in SUBSET AtRisk(area) : flash' = [flash EXCEPT ![area] = Spoil(@, S)]
      BY <2>1
    <2>3. Spoil(flash[area], S) \in [Page -> Cell]
      BY SpoilType DEF TypeInv, TypeOK
    <2>4. QED
      BY <2>2, <2>3 DEF TypeInv, TypeOK
  <1>2. cfg' \in OtaInfo
    BY NoInfoType DEF PowerCut, TypeInv, TypeOK
  <1>3. cuts' \in 0..MaxCuts
    BY CutsAssumption DEF PowerCut, TypeInv, TypeOK
  <1>4. QED
    BY <1>1, <1>2, <1>3, RestartType DEF PowerCut

LEMMA RamFlagType ==
  ASSUME TypeInv, NEW f \in {"ENABLE", "DISABLE", "ERASED", "TORN"}
  PROVE  [ram EXCEPT !.flag = f] \in OtaInfo
  BY DEF TypeInv, TypeOK, OtaInfo

LEMMA NextTypeInv == TypeInv /\ [Next]_vars => TypeInv'
  <1> SUFFICES ASSUME TypeInv, [Next]_vars PROVE TypeInv'
    OBVIOUS
  <1>1. CASE BootLoad \/ BootCheck \/ CopyOtaDone
    BY <1>1, RamFlagType DEF BootLoad, BootCheck, CopyOtaDone, TypeInv, TypeOK, Bounds, BootPc
  <1>2. CASE EraseAppForCopy \/ EraseOtaForDownload
    <2>1. CASE EraseAppForCopy
      <3>1. EraseArea("copyErase", "app", "copyOta") /\ "copyOta" \in BootPc /\ "app" \in Area
        BY <2>1 DEF EraseAppForCopy, BootPc, Area
      <3>2. QED
        BY <3>1, EraseAreaType
    <2>2. CASE EraseOtaForDownload
      <3>1. EraseArea("dlErase", "ota", "dlRecv") /\ "dlRecv" \in AppPc /\ "ota" \in Area
        BY <2>2 DEF EraseOtaForDownload, AppPc, Area
      <3>2. QED
        BY <3>1, EraseAreaType
    <2>3. QED
      BY <1>2, <2>1, <2>2
  <1>3. CASE CopyOtaPage
    <2>1. ram.size \in 0..NPages
      BY DEF TypeInv, TypeOK, OtaInfo
    <2>2. QED
      BY <1>3, <2>1, CopyPageType DEF CopyOtaPage, Area
  <1>4. CASE BootSave \/ InitSave \/ ArmSave
    BY <1>4, SaveType DEF BootSave, InitSave, ArmSave, BootPc, AppPc
  <1>5. CASE AppStart
    BY <1>5, NoInfoType DEF AppStart, TypeInv, TypeOK, Bounds, AppPc
  <1>6. CASE ReportAndReboot \/ ResetHung
    BY <1>6, RestartType DEF ReportAndReboot, ResetHung, TypeInv, TypeOK
  <1>7. ASSUME NEW w \in Images, StartOtaJob(w) PROVE TypeInv'
    BY <1>7, RamFlagType DEF StartOtaJob, TypeInv, TypeOK, Bounds, AppPc
  <1>8. CASE DownloadRefused \/ DownloadNotStarted \/ RecvNegative \/ RecvNothing
    BY <1>8 DEF DownloadRefused, DownloadNotStarted, RecvNegative, RecvNothing,
                TypeInv, TypeOK, Bounds, AppPc
  <1>9. CASE BadDocument
    BY <1>9, RamFlagType DEF BadDocument, TypeInv, TypeOK, Bounds
  <1>10. ASSUME NEW u \in Images, DownloadBegins(u) PROVE TypeInv'
    BY <1>10 DEF DownloadBegins, TypeInv, TypeOK, Bounds, AppPc
  <1>11. CASE Menu
    <2>1. ASSUME NEW to \in MenuKeys,
                 MenuChoice(to)
          PROVE  TypeInv'
      BY <2>1 DEF MenuChoice, MenuKeys, TypeInv, TypeOK, Bounds, BootPc
    <2>2. ASSUME NEW from, EraseConfigArea(from) PROVE TypeInv'
      BY <2>2, NoInfoType DEF EraseConfigArea, TypeInv, TypeOK, Bounds, BootPc
    <2>3. CASE \/ EraseArea("wipeFactory", "factory", "menu")
               \/ EraseArea("wipeOta", "ota", "menu")
               \/ EraseArea("backupErase", "factory", "backupCopy")
               \/ EraseArea("restoreErase", "app", "restoreCopy")
      <3>1. {"menu", "backupCopy", "restoreCopy"} \subseteq BootPc
        BY DEF BootPc
      <3>2. "app" \in Area /\ "factory" \in Area /\ "ota" \in Area
        BY DEF Area
      <3>3. CASE EraseArea("wipeFactory", "factory", "menu")
        BY <3>1, <3>2, <3>3, EraseAreaType
      <3>4. CASE EraseArea("wipeOta", "ota", "menu")
        BY <3>1, <3>2, <3>4, EraseAreaType
      <3>5. CASE EraseArea("backupErase", "factory", "backupCopy")
        BY <3>1, <3>2, <3>5, EraseAreaType
      <3>6. CASE EraseArea("restoreErase", "app", "restoreCopy")
        BY <3>1, <3>2, <3>6, EraseAreaType
      <3>7. QED
        BY <2>3, <3>3, <3>4, <3>5, <3>6
    <2>4. CASE \/ CopyPage("backupCopy", "app", "factory", NPages)
               \/ CopyPage("restoreCopy", "factory", "app", NPages)
      <3>1. "app" \in Area /\ "factory" \in Area /\ NPages \in 0..NPages
        BY PagesAssumption DEF Area
      <3>2. CASE CopyPage("backupCopy", "app", "factory", NPages)
        BY <3>1, <3>2, CopyPageType
      <3>3. CASE CopyPage("restoreCopy", "factory", "app", NPages)
        BY <3>1, <3>3, CopyPageType
      <3>4. QED
        BY <2>4, <3>2, <3>3
    <2>5. CASE CopyDone("backupCopy") \/ CopyDone("restoreCopy")
      BY <2>5 DEF CopyDone, TypeInv, TypeOK, Bounds, BootPc
    <2>6. QED
      BY <1>11, <2>1, <2>2, <2>3, <2>4, <2>5 DEF Menu
  <1>12. CASE Jump
    BY <1>12 DEF Jump, TypeInv, TypeOK, Bounds, BootPc, AppPc
  <1>13. CASE PowerCut
    BY <1>13, PowerCutType
  <1>14. CASE UNCHANGED vars
    BY <1>14 DEF vars, TypeInv, TypeOK, Bounds
  <1>15. QED
    BY <1>1, <1>2, <1>3, <1>4, <1>5, <1>6, <1>7, <1>8, <1>9, <1>10, <1>11, <1>12, <1>13, <1>14,
       RecvPageType, VerifyCrcType
       DEF Next, DeviceStep, Network

\* Every variable keeps its type: in particular no copy or download loop
\* leaves its area, whatever size the config sector records.
THEOREM TypeCorrect == Spec => []TypeOK
  <1>1. TypeInv => TypeOK
    BY DEF TypeInv
  <1>2. QED
    BY <1>1, InitTypeInv, NextTypeInv, PTL DEF Spec

-----------------------------------------------------------------------------
(***************************************************************************)
(* The inductive invariant of the update.  An armed config sector means    *)
(* the OTA area is complete and not older; it survives in the few program  *)
(* counters below only, so nothing else ever erases that area under it.    *)
(* The copy has reached page idx with the recorded image, and outside the  *)
(* copy and the operator's restore the application area is whole.          *)
(***************************************************************************)
ArmedInv ==
  Armed => /\ pc \in {"load", "check", "copyErase", "copyOta", "bootSaveErase", "report"}
           /\ cfg.crc \in Images
           /\ cfg.size = Size[cfg.crc]
           /\ Holds(flash["ota"], cfg.crc)
           /\ NotLower(Version[running], Version[cfg.crc])

CopyInv ==
  /\ pc = "check" => ram = cfg
  /\ pc \in {"copyErase", "copyOta"} => Armed /\ ram = cfg
  /\ pc = "copyOta" => \A p \in 1..idx : flash["app"][p] = ram.crc
  /\ pc = "bootSaveErase" => Armed /\ Holds(flash["app"], cfg.crc)
  /\ pc \in {"bootSaveErase", "bootSaveWrite", "initSaveErase", "initSaveWrite"}
       => ram.flag = "DISABLE"

DownloadInv ==
  /\ pc \in {"download", "dlErase", "dlRecv", "verify", "armSaveErase", "armSaveWrite"}
       => IsUpper(Version[running], Version[doc])
  /\ pc \in {"armSaveErase", "armSaveWrite"}
       => /\ ram = [flag |-> "ENABLE", size |-> Size[doc], crc |-> doc]
          /\ Holds(flash["ota"], doc)

AppInv ==
  /\ ~ Armed /\ ~ restoring => Whole(flash["app"])
  /\ pc \in {"restoreErase", "restoreCopy", "hung"} => restoring

SafeInv == ArmedInv /\ CopyInv /\ DownloadInv /\ AppInv

LEMMA InitSafeInv == Init => SafeInv
  <1> SUFFICES ASSUME Init PROVE SafeInv
    OBVIOUS
  <1>1. ~ Armed
    BY DEF Init, Armed, NoInfo
  <1>2. Whole(flash["app"])
    <2>1. flash["app"] = [p \in Page |-> IF p <= Size[running] THEN running ELSE Erased]
      BY DEF Init, Area
    <2>2. 1..Size[running] \subseteq Page
      BY SizeAssumption, PagesAssumption DEF Init, Page
    <2>3. running \in Images
      BY DEF Init
    <2>4. Holds(flash["app"], running)
      BY <2>1, <2>2, <2>3, SizeAssumption, PagesAssumption DEF Holds
    <2>5. QED
      BY <2>3, <2>4 DEF Whole
  <1>3. QED
    BY <1>1, <1>2 DEF Init, SafeInv, ArmedInv, CopyInv, DownloadInv, AppInv

LEMMA BootloaderSafe ==
  ASSUME TypeInv, SafeInv,
         \/ BootLoad \/ BootCheck \/ EraseAppForCopy \/ CopyOtaPage \/ CopyOtaDone
  PROVE  SafeInv'
  <1>1. CASE BootLoad
    BY <1>1 DEF BootLoad, SafeInv, ArmedInv, CopyInv, DownloadInv, AppInv, Armed
  <1>2. CASE BootCheck
    BY <1>2 DEF BootCheck, SafeInv, ArmedInv, CopyInv, DownloadInv, AppInv, Armed
  <1>3. CASE EraseAppForCopy
    <2>1. flash'["ota"] = flash["ota"]
      BY <1>3 DEF EraseAppForCopy, EraseArea, TypeInv, TypeOK, Area
    <2>2. \A p \in 1..0 : flash'["app"][p] = ram.crc
      OBVIOUS
    <2>3. /\ pc = "copyErase" /\ pc' = "copyOta" /\ idx' = 0
          /\ UNCHANGED <<cfg, ram, doc, running, restoring>>
      BY <1>3 DEF EraseAppForCopy, EraseArea
    <2>4. QED
      BY <2>1, <2>2, <2>3 DEF SafeInv, ArmedInv, CopyInv, DownloadInv, AppInv, Armed
  <1>4. CASE CopyOtaPage
    <2>1. /\ pc = "copyOta" /\ pc' = pc /\ idx < ram.size /\ idx' = idx + 1
          /\ UNCHANGED <<cfg, ram, doc, running, restoring>>
          /\ flash' = [flash EXCEPT !["app"] = [@ EXCEPT ![idx + 1] = flash["ota"][idx + 1]]]
      BY <1>4 DEF CopyOtaPage, CopyPage
    <2>2. Armed /\ ram = cfg /\ ram.size = Size[ram.crc] /\ ram.crc \in Images
          /\ Holds(flash["ota"], ram.crc)
      BY <2>1 DEF SafeInv, ArmedInv, CopyInv
    <2>3. flash["ota"][idx + 1] = ram.crc
      BY <2>1, <2>2, SizeAssumption, PagesAssumption DEF Holds, TypeInv, TypeOK
    <2>4. flash'["ota"] = flash["ota"]
          /\ flash'["app"] = [flash["app"] EXCEPT ![idx + 1] = ram.crc]
      BY <2>1, <2>3 DEF TypeInv, TypeOK, Area
    <2>5. \A p \in 1..idx' : flash'["app"][p] = ram.crc
      <3>1. \A p \in 1..idx : flash["app"][p] = ram.crc
        BY <2>1 DEF SafeInv, CopyInv
      <3>2. idx \in 0..NPages /\ flash["app"] \in [Page -> Cell]
        BY DEF TypeInv, TypeOK, Area
      <3>3. ram.size \in 1..NPages
        BY <2>2, SizeAssumption
      <3>4. idx' \in Page
        BY <2>1, <3>2, <3>3, PagesAssumption DEF Page
      <3>5. QED
        BY <2>1, <2>4, <3>1, <3>2, <3>4, PagesAssumption DEF Page
    <2>6. QED
      BY <2>1, <2>2, <2>4, <2>5 DEF SafeInv, ArmedInv, CopyInv, DownloadInv, AppInv, Armed
  <1>5. CASE CopyOtaDone
    <2>1. /\ pc = "copyOta" /\ pc' = "bootSaveErase" /\ idx >= ram.size
          /\ ram' = [ram EXCEPT !.flag = "DISABLE"]
          /\ UNCHANGED <<flash, cfg, doc, running, restoring>>
      BY <1>5 DEF CopyOtaDone
    <2>2. Armed /\ ram = cfg /\ ram.size = Size[cfg.crc] /\ cfg.crc \in Images
      BY <2>1 DEF SafeInv, ArmedInv, CopyInv
    <2>3. Holds(flash["app"], cfg.crc)
      BY <2>1, <2>2, SizeAssumption, PagesAssumption
         DEF Holds, SafeInv, CopyInv, TypeInv, TypeOK
    <2>4. ram'.flag = "DISABLE"
      BY <2>1 DEF TypeInv, TypeOK, OtaInfo
    <2>5. QED
      BY <2>1, <2>2, <2>3, <2>4
         DEF SafeInv, ArmedInv, CopyInv, DownloadInv, AppInv, Armed
  <1>6. QED
    BY <1>1, <1>2, <1>3, <1>4, <1>5

\* The three callers of save_flash_common_config_info.
LEMMA SaveSafe ==
  ASSUME TypeInv, SafeInv, BootSave \/ InitSave \/ ArmSave
  PROVE  SafeInv'
  <1>1. CASE SaveErase("bootSaveErase", "bootSaveWrite")
    <2>1. Whole(flash["app"])
      BY <1>1 DEF SaveErase, SafeInv, ArmedInv, CopyInv, Whole
    <2>2. QED
      BY <1>1, <2>1
         DEF SaveErase, NoInfo, SafeInv, ArmedInv, CopyInv, DownloadInv, AppInv, Armed
  <1>2. CASE SaveWrite("bootSaveWrite", "menu")
    BY <1>2 DEF SaveWrite, SafeInv, ArmedInv, CopyInv, DownloadInv, AppInv, Armed
  <1>3. CASE SaveErase("initSaveErase", "initSaveWrite")
    BY <1>3 DEF SaveErase, NoInfo, SafeInv, ArmedInv, CopyInv, DownloadInv, AppInv, Armed
  <1>4. CASE SaveWrite("initSaveWrite", "idle")
    BY <1>4 DEF SaveWrite, SafeInv, ArmedInv, CopyInv, DownloadInv, AppInv, Armed
  <1>5. CASE SaveErase("armSaveErase", "armSaveWrite")
    BY <1>5 DEF SaveErase, NoInfo, SafeInv, ArmedInv, CopyInv, DownloadInv, AppInv, Armed
  <1>6. CASE SaveWrite("armSaveWrite", "report")
    <2>1. /\ pc = "armSaveWrite" /\ pc' = "report" /\ cfg' = ram
          /\ UNCHANGED <<flash, ram, doc, running, restoring>>
      BY <1>6 DEF SaveWrite
    <2>2. doc \in Images
      BY <2>1 DEF TypeInv, Bounds
    <2>3. running \in Images
      BY DEF TypeInv, TypeOK
    <2>4. cfg'.flag = "ENABLE" /\ cfg'.size = Size[doc] /\ cfg'.crc = doc
      BY <2>1 DEF SafeInv, DownloadInv
    <2>5. Holds(flash["ota"], doc) /\ NotLower(Version[running], Version[doc])
      BY <2>1, <2>2, <2>3, UpperIsNotLower DEF SafeInv, DownloadInv
    <2>6. QED
      BY <2>1, <2>2, <2>4, <2>5
         DEF SafeInv, ArmedInv, CopyInv, DownloadInv, AppInv, Armed
  <1>7. QED
    BY <1>1, <1>2, <1>3, <1>4, <1>5, <1>6 DEF BootSave, InitSave, ArmSave

\* The application never touches its own area, and the OTA area only while
\* nothing is armed.
LEMMA ApplicationSafe ==
  ASSUME TypeInv, SafeInv,
         \/ AppStart
         \/ \E w \in Images : StartOtaJob(w)
         \/ BadDocument
         \/ DownloadRefused \/ DownloadNotStarted
         \/ \E u \in Images : DownloadBegins(u)
         \/ EraseOtaForDownload
         \/ \E full \in BOOLEAN : RecvPage(full)
         \/ RecvNegative \/ RecvNothing
         \/ VerifyCrc
  PROVE  SafeInv'
  <1>1. CASE AppStart
    BY <1>1 DEF AppStart, NoInfo, SafeInv, ArmedInv, CopyInv, DownloadInv, AppInv, Armed
  <1>2. ASSUME NEW w \in Images, StartOtaJob(w) PROVE SafeInv'
    BY <1>2 DEF StartOtaJob, SafeInv, ArmedInv, CopyInv, DownloadInv, AppInv, Armed
  <1>3. CASE DownloadRefused \/ DownloadNotStarted \/ RecvNegative \/ RecvNothing
    BY <1>3 DEF DownloadRefused, DownloadNotStarted, RecvNegative, RecvNothing,
                SafeInv, ArmedInv, CopyInv, DownloadInv, AppInv, Armed
  <1>4. ASSUME NEW u \in Images, DownloadBegins(u) PROVE SafeInv'
    BY <1>4 DEF DownloadBegins, SafeInv, ArmedInv, CopyInv, DownloadInv, AppInv, Armed
  <1>5. CASE EraseOtaForDownload \/ \E full \in BOOLEAN : RecvPage(full)
    <2>1. pc \in {"dlErase", "dlRecv"} /\ pc' \in {"dlRecv", "verify"}
          /\ UNCHANGED <<cfg, ram, doc, running, restoring>>
      BY <1>5 DEF EraseOtaForDownload, EraseArea, RecvPage
    <2>2. flash'["app"] = flash["app"]
      BY <1>5 DEF EraseOtaForDownload, EraseArea, RecvPage, TypeInv, TypeOK, Area
    <2>3. QED
      BY <2>1, <2>2 DEF SafeInv, ArmedInv, CopyInv, DownloadInv, AppInv, Armed
  <1>6. CASE VerifyCrc
    BY <1>6 DEF VerifyCrc, SafeInv, ArmedInv, CopyInv, DownloadInv, AppInv, Armed
  <1>7. CASE BadDocument
    BY <1>7 DEF BadDocument, SafeInv, ArmedInv, CopyInv, DownloadInv, AppInv, Armed
  <1>8. QED
    BY <1>1, <1>2, <1>3, <1>4, <1>5, <1>6, <1>7

\* The menus and the jump: nothing is armed when the bootloader reaches them.
LEMMA MenuSafe ==
  ASSUME TypeInv, SafeInv, Menu \/ Jump
  PROVE  SafeInv'
  <1>1. ASSUME NEW to \in MenuKeys,
               MenuChoice(to)
        PROVE  SafeInv'
    BY <1>1 DEF MenuChoice, MenuKeys, SafeInv, ArmedInv, CopyInv, DownloadInv, AppInv, Armed, TypeInv, TypeOK
  <1>2. CASE EraseConfigArea("eraseConfig") \/ EraseConfigArea("eraseApp")
    BY <1>2 DEF EraseConfigArea, NoInfo, SafeInv, ArmedInv, CopyInv, DownloadInv, AppInv, Armed
  <1>3. CASE \/ EraseArea("wipeFactory", "factory", "menu")
             \/ EraseArea("wipeOta", "ota", "menu")
             \/ EraseArea("backupErase", "factory", "backupCopy")
             \/ CopyPage("backupCopy", "app", "factory", NPages)
    <2>1. pc \in {"wipeFactory", "wipeOta", "backupErase", "backupCopy"}
          /\ pc' \in {"menu", "backupCopy"}
          /\ UNCHANGED <<cfg, ram, doc, running, restoring>>
      BY <1>3 DEF EraseArea, CopyPage
    <2>2. flash'["app"] = flash["app"]
      BY <1>3 DEF EraseArea, CopyPage, TypeInv, TypeOK, Area
    <2>3. QED
      BY <2>1, <2>2 DEF SafeInv, ArmedInv, CopyInv, DownloadInv, AppInv, Armed
  <1>4. CASE \/ EraseArea("restoreErase", "app", "restoreCopy")
             \/ CopyPage("restoreCopy", "factory", "app", NPages)
    <2>1. pc \in {"restoreErase", "restoreCopy"} /\ pc' = "restoreCopy"
          /\ UNCHANGED <<cfg, ram, doc, running, restoring>>
      BY <1>4 DEF EraseArea, CopyPage
    <2>2. QED
      BY <2>1 DEF SafeInv, ArmedInv, CopyInv, DownloadInv, AppInv, Armed
  <1>5. CASE CopyDone("backupCopy")
    BY <1>5 DEF CopyDone, SafeInv, ArmedInv, CopyInv, DownloadInv, AppInv, Armed
  <1>6. CASE CopyDone("restoreCopy")
    BY <1>6 DEF CopyDone, SafeInv, ArmedInv, CopyInv, DownloadInv, AppInv, Armed
  <1>7. CASE Jump
    <2>1. ~ Armed /\ pc' \in {"appStart", "hung"} /\ UNCHANGED <<flash, cfg, ram>>
      BY <1>7 DEF Jump, SafeInv, ArmedInv
    <2>2. ~ restoring' => Whole(flash["app"])
      BY <1>7, <2>1 DEF Jump, Whole, SafeInv, AppInv
    <2>3. pc' = "hung" => restoring'
      BY <1>7, <2>1 DEF Jump, SafeInv, AppInv
    <2>4. QED
      BY <2>1, <2>2, <2>3 DEF SafeInv, ArmedInv, CopyInv, DownloadInv, AppInv, Armed
  <1>8. QED
    BY <1>1, <1>2, <1>3, <1>4, <1>5, <1>6, <1>7 DEF Menu

\* A reset keeps the flash; a power cut spoils only what is being written.
LEMMA RestartSafe ==
  ASSUME TypeInv, SafeInv, ReportAndReboot \/ ResetHung \/ PowerCut
  PROVE  SafeInv'
  <1>1. CASE ReportAndReboot \/ ResetHung
    BY <1>1 DEF ReportAndReboot, ResetHung, Restart, NoInfo,
                SafeInv, ArmedInv, CopyInv, DownloadInv, AppInv, Armed
  <1>2. CASE PowerCut
    <2>1. /\ pc' = "load" /\ UNCHANGED <<running, restoring>>
          /\ cfg' = cfg \/ (cfg'.flag = "TORN" /\ ~ Armed)
      <3>1. pc' = "load" /\ UNCHANGED <<running, restoring>>
        BY <1>2 DEF PowerCut, Restart
      <3>2. cfg' = cfg \/ (cfg'.flag = "TORN" /\ ~ Armed)
        <4>1. CASE /\ pc \in {"bootSaveWrite", "initSaveWrite", "armSaveWrite"}
                   /\ cfg' = NoInfo("TORN")
          BY <4>1 DEF NoInfo, SafeInv, ArmedInv
        <4>2. QED
          BY <1>2, <4>1 DEF PowerCut
      <3>3. QED
        BY <3>1, <3>2
    <2>2. PICK area \in Area : \E S \in SUBSET AtRisk(area) :
             flash' = [flash EXCEPT ![area] = Spoil(@, S)]
      BY <1>2 DEF PowerCut
    <2>3. \A a \in Area : AtRisk(a) = {} => flash'[a] = flash[a]
      <3>1. SUFFICES ASSUME AtRisk(area) = {}
                     PROVE  flash'[area] = flash[area]
        BY <2>2 DEF TypeInv, TypeOK
      <3>2. flash'[area] = Spoil(flash[area], {})
        BY <2>2, <3>1 DEF TypeInv, TypeOK
      <3>3. flash[area] \in [Page -> Cell]
        BY DEF TypeInv, TypeOK
      <3>4. Spoil(flash[area], {}) = flash[area]
        BY <3>3 DEF Spoil
      <3>5. QED
        BY <3>2, <3>4
    <2>4. Armed => flash'["ota"] = flash["ota"]
      BY <2>3 DEF AtRisk, Area, SafeInv, ArmedInv
    <2>5. ~ Armed /\ ~ restoring => flash'["app"] = flash["app"]
      BY <2>3 DEF AtRisk, Area, SafeInv, CopyInv, AppInv
    <2>6. ~ Armed /\ ~ restoring => Whole(flash'["app"])
      BY <2>5 DEF SafeInv, AppInv
    <2>7. Armed' => Armed /\ cfg' = cfg
      BY <2>1 DEF Armed
    <2>8. ~ Armed' => ~ Armed
      BY <2>1 DEF Armed
    <2>9. QED
      BY <2>1, <2>4, <2>6, <2>7, <2>8
         DEF SafeInv, ArmedInv, CopyInv, DownloadInv, AppInv
  <1>3. QED
    BY <1>1, <1>2

LEMMA NextSafeInv == TypeInv /\ SafeInv /\ [Next]_vars => SafeInv'
  <1> SUFFICES ASSUME TypeInv, SafeInv, [Next]_vars PROVE SafeInv'
    OBVIOUS
  <1>1. CASE UNCHANGED vars
    BY <1>1 DEF vars, SafeInv, ArmedInv, CopyInv, DownloadInv, AppInv, Armed
  <1>2. QED
    BY <1>1, BootloaderSafe, SaveSafe, ApplicationSafe, MenuSafe, RestartSafe
       DEF Next, DeviceStep, Network

LEMMA SafeInvHolds == Spec => [](TypeInv /\ SafeInv)
  BY InitTypeInv, InitSafeInv, NextTypeInv, NextSafeInv, PTL DEF Spec

\* Whatever power cuts come between, an armed OTA area is complete and has
\* passed its CRC check.
THEOREM ArmedIsVerified == Spec => []ArmedImageVerified
  <1>1. SafeInv => ArmedImageVerified
    BY DEF SafeInv, ArmedInv, Armed, ArmedImageVerified
  <1>2. QED
    BY <1>1, SafeInvHolds, PTL

\* A device nobody began a factory restore on always has an image to jump to.
THEOREM NotBricked == Spec => []NeverBricked
  <1>1. SafeInv => NeverBricked
    BY DEF SafeInv, AppInv, NeverBricked
  <1>2. QED
    BY <1>1, SafeInvHolds, PTL

\* The component-wise comparison never arms an older release.
THEOREM NotDowngraded == Spec => []NoDowngrade
  <1>1. SafeInv => NoDowngrade
    BY DEF SafeInv, ArmedInv, Armed, NoDowngrade
  <1>2. QED
    BY <1>1, SafeInvHolds, PTL

-----------------------------------------------------------------------------
\* What an armed device has still to do before it clears the flag.
ToInstall ==
  CASE pc = "report"        -> NPages + 5
    [] pc = "load"          -> NPages + 4
    [] pc = "check"         -> NPages + 3
    [] pc = "copyErase"     -> NPages + 2
    [] pc = "copyOta"       -> NPages + 1 - idx
    [] pc = "bootSaveErase" -> 0

(***************************************************************************)
(* Neither the network nor the operator comes between an armed device and  *)
(* its new image: every step comes nearer to the end of the copy, or       *)
(* clears the flag with the image in its place, or is a power cut, which   *)
(* keeps the flag.                                                         *)
(***************************************************************************)
ArmedOnlyInstalls ==
  [][Armed => \/ DeviceStep /\ UNCHANGED cfg /\ ToInstall' < ToInstall
              \/ DeviceStep /\ ~ Armed' /\ Holds(flash'["app"], cfg.crc)
              \/ PowerCut /\ UNCHANGED cfg]_vars

LEMMA InstallStep ==
  ASSUME TypeInv, SafeInv, Armed, DeviceStep
  PROVE  \/ UNCHANGED cfg /\ ToInstall' < ToInstall
         \/ ~ Armed' /\ Holds(flash'["app"], cfg.crc)
  <1>1. NPages \in Nat /\ idx \in 0..NPages
    BY PagesAssumption DEF TypeInv, TypeOK
  <1>2. pc \in {"load", "check", "copyErase", "copyOta", "bootSaveErase", "report"}
    BY DEF SafeInv, ArmedInv
  <1>3. CASE BootLoad
    BY <1>1, <1>3 DEF BootLoad, ToInstall
  <1>4. CASE BootCheck
    BY <1>1, <1>4 DEF BootCheck, SafeInv, CopyInv, Armed, ToInstall
  <1>5. CASE EraseAppForCopy
    BY <1>1, <1>5 DEF EraseAppForCopy, EraseArea, ToInstall
  <1>6. CASE CopyOtaPage
    BY <1>1, <1>6 DEF CopyOtaPage, CopyPage, ToInstall
  <1>7. CASE CopyOtaDone
    BY <1>1, <1>7 DEF CopyOtaDone, ToInstall
  <1>8. CASE BootSave
    <2>1. pc = "bootSaveErase" /\ cfg' = NoInfo("ERASED") /\ UNCHANGED flash
      BY <1>2, <1>8 DEF BootSave, SaveErase, SaveWrite
    <2>2. Holds(flash["app"], cfg.crc)
      BY <2>1 DEF SafeInv, CopyInv
    <2>3. QED
      BY <2>1, <2>2 DEF NoInfo, Armed, Holds
  <1>9. CASE ReportAndReboot
    BY <1>1, <1>9 DEF ReportAndReboot, Restart, ToInstall
  <1>10. ~ AppStart /\ ~ InitSave /\ ~ EraseOtaForDownload /\ ~ VerifyCrc /\ ~ ArmSave
    BY <1>2 DEF AppStart, InitSave, EraseOtaForDownload, EraseArea, VerifyCrc, ArmSave,
       SaveErase, SaveWrite
  <1>11. QED
    BY <1>3, <1>4, <1>5, <1>6, <1>7, <1>8, <1>9, <1>10 DEF DeviceStep

\* None of the other steps but a power cut is possible while the flag is set.
LEMMA NothingElse ==
  ASSUME SafeInv, Armed, Next
  PROVE  DeviceStep \/ (PowerCut /\ UNCHANGED cfg)
  <1>1. pc \in {"load", "check", "copyErase", "copyOta", "bootSaveErase", "report"}
    BY DEF SafeInv, ArmedInv
  <1>2. ~ Network
    BY <1>1 DEF Network, StartOtaJob, BadDocument, DownloadRefused, DownloadNotStarted,
       DownloadBegins, RecvPage, RecvNegative, RecvNothing
  <1>3. ~ Menu
    BY <1>1 DEF Menu, MenuKeys, MenuChoice, EraseConfigArea, EraseArea, CopyPage, CopyDone
  <1>4. ~ Jump /\ ~ ResetHung
    BY <1>1 DEF Jump, ResetHung
  <1>5. PowerCut => UNCHANGED cfg
    BY <1>1 DEF PowerCut
  <1>6. QED
    BY <1>2, <1>3, <1>4, <1>5 DEF Next

\* What is left to do is a natural number, and only the MaxCuts power cuts
\* ever raise it: with the fairness of DeviceStep, an armed update is installed
\* whatever the sizes of the images.
THEOREM InstallAdvances ==
  Spec => [](Armed => ToInstall \in Nat) /\ ArmedOnlyInstalls
  <1>1. TypeInv /\ SafeInv => (Armed => ToInstall \in Nat)
    BY PagesAssumption DEF TypeInv, TypeOK, SafeInv, ArmedInv, ToInstall
  <1>2. TypeInv /\ SafeInv /\ [Next]_vars
          => [Armed => \/ DeviceStep /\ UNCHANGED cfg /\ ToInstall' < ToInstall
                       \/ DeviceStep /\ ~ Armed' /\ Holds(flash'["app"], cfg.crc)
                       \/ PowerCut /\ UNCHANGED cfg]_vars
    BY InstallStep, NothingElse
  <1>3. QED
    BY <1>1, <1>2, SafeInvHolds, PTL DEF Spec, ArmedOnlyInstalls
=============================================================================

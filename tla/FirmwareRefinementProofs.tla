---------------------- MODULE FirmwareRefinementProofs ----------------------
(***************************************************************************)
(* The firmware update implements AtomicUpdate, and programs only erased   *)
(* pages, for every set of images, area size and number of power cuts.     *)
(*                                                                         *)
(* SafeInv of FirmwareUpdateProofs says what an armed OTA area holds.  The *)
(* refinement also needs to know what the loops have done so far: the      *)
(* pages they have not reached are erased, those they have are copies, and *)
(* the application area holds the running image while the application runs. *)
(***************************************************************************)
EXTENDS FirmwareUpdateProofs

ErasedAfter(area) == \A p \in Page : p > idx => flash[area][p] = Erased

Copied(src, dst) == \A p \in 1..idx : flash[dst][p] = flash[src][p]

LoopInv ==
  /\ pc = "dlRecv" => ErasedAfter("ota")
  /\ pc \in {"copyOta", "restoreCopy"} => ErasedAfter("app")
  /\ pc = "backupCopy" => ErasedAfter("factory")
  /\ pc = "restoreCopy" => Copied("factory", "app")
  /\ pc = "backupCopy" => Copied("app", "factory")
  /\ pc \in AppPc => Holds(flash["app"], running)

Inv == TypeInv /\ SafeInv /\ LoopInv

-----------------------------------------------------------------------------
(* The image an area holds.                                                *)

LEMMA FirstPage ==
  ASSUME NEW v \in Images
  PROVE  1 \in 1..Size[v] /\ 1..Size[v] \subseteq Page
  BY SizeAssumption, PagesAssumption DEF Page

LEMMA HoldsOne ==
  ASSUME NEW cells, NEW v \in Images, Holds(cells, v)
  PROVE  ImageIn(cells) = v
  <1>1. Whole(cells)
    BY DEF Whole
  <1>2. \A w \in Images : Holds(cells, w) => w = v
    BY FirstPage DEF Holds
  <1>3. QED
    BY <1>1, <1>2 DEF ImageIn

LEMMA HoldsNone ==
  ASSUME NEW cells, ~ Whole(cells)
  PROVE  ImageIn(cells) = NoImage
  BY DEF ImageIn

LEMMA BlankHoldsNone == ImageIn(Blank) = NoImage
  <1>1. ~ Whole(Blank)
    BY FirstPage, SentinelAssumption DEF Whole, Holds, Blank
  <1>2. QED
    BY <1>1, HoldsNone

\* Spoiling pages may destroy an image and never makes one.
LEMMA SpoiledImage ==
  ASSUME NEW cells \in [Page -> Cell], NEW S
  PROVE  ImageIn(Spoil(cells, S)) \in {ImageIn(cells), NoImage}
  <1>1. CASE Whole(Spoil(cells, S))
    <2>1. PICK v \in Images : Holds(Spoil(cells, S), v)
      BY <1>1 DEF Whole
    <2>2. \A p \in 1..Size[v] : cells[p] = v
      <3>1. SUFFICES ASSUME NEW p \in 1..Size[v] PROVE cells[p] = v
        OBVIOUS
      <3>2. p \in Page
        BY FirstPage
      <3>3. Spoil(cells, S)[p] = v /\ v # Junk
        BY <2>1, SentinelAssumption DEF Holds
      <3>4. QED
        BY <3>2, <3>3 DEF Spoil
    <2>3. Holds(cells, v)
      BY <2>2 DEF Holds
    <2>4. QED
      BY <2>1, <2>3, HoldsOne
  <1>2. CASE ~ Whole(Spoil(cells, S))
    BY <1>2, HoldsNone
  <1>3. QED
    BY <1>1, <1>2

\* A page copied onto erased ones keeps an image that was complete, and can
\* only complete the image of the area it comes from.
LEMMA CopiedImage ==
  ASSUME NEW from \in [Page -> Cell], NEW to \in [Page -> Cell],
         NEW i \in Nat, i + 1 \in Page,
         \A p \in 1..i : to[p] = from[p],
         \A p \in Page : p > i => to[p] = Erased
  PROVE  LET new == [to EXCEPT ![i + 1] = from[i + 1]]
         IN  \/ ImageIn(new) = ImageIn(to)
             \/ ImageIn(to) = NoImage /\ ImageIn(new) = ImageIn(from)
  <1> DEFINE new == [to EXCEPT ![i + 1] = from[i + 1]]
  <1>1. CASE Whole(to)
    <2>1. PICK v \in Images : Holds(to, v)
      BY <1>1 DEF Whole
    <2>2. \A p \in 1..Size[v] : new[p] = v
      <3>1. SUFFICES ASSUME NEW p \in 1..Size[v] PROVE new[p] = v
        OBVIOUS
      <3>2. p \in Page /\ to[p] = v
        BY <2>1, FirstPage DEF Holds
      <3>3. p # i + 1
        BY <3>2, SentinelAssumption
      <3>4. QED
        BY <3>2, <3>3
    <2>3. Holds(new, v)
      BY <2>2 DEF Holds
    <2>4. ImageIn(new) = v /\ ImageIn(to) = v
      BY <2>1, <2>3, HoldsOne
    <2>5. QED
      BY <2>4
  <1>2. CASE ~ Whole(to) /\ Whole(new)
    <2>1. PICK v \in Images : Holds(new, v)
      BY <1>2 DEF Whole
    <2>2. \A p \in 1..Size[v] : from[p] = v
      <3>1. SUFFICES ASSUME NEW p \in 1..Size[v] PROVE from[p] = v
        OBVIOUS
      <3>2. p \in Page /\ new[p] = v /\ v # Erased
        BY <2>1, FirstPage, SentinelAssumption DEF Holds
      <3>3. CASE p = i + 1
        BY <3>2, <3>3
      <3>4. CASE p # i + 1
        <4>1. to[p] = v
          BY <3>2, <3>4
        <4>2. ~ (p > i)
          BY <3>2, <4>1
        <4>3. p \in 1..i
          BY <3>2, <4>2 DEF Page
        <4>4. QED
          BY <4>1, <4>3
      <3>5. QED
        BY <3>3, <3>4
    <2>3. Holds(from, v)
      BY <2>2 DEF Holds
    <2>4. ImageIn(new) = v /\ ImageIn(from) = v /\ ImageIn(to) = NoImage
      BY <1>2, <2>1, <2>3, HoldsOne, HoldsNone
    <2>5. QED
      BY <2>4
  <1>3. CASE ~ Whole(to) /\ ~ Whole(new)
    BY <1>3, HoldsNone
  <1>4. QED
    BY <1>1, <1>2, <1>3

-----------------------------------------------------------------------------
(* The loops.                                                              *)

LEMMA InitLoopInv == Init => LoopInv
  BY DEF Init, LoopInv, AppPc

\* An erase leads into its loop at page 0.
LEMMA EraseAreaLoop ==
  ASSUME TypeInv, LoopInv, NEW from, NEW area \in Area, NEW to,
         EraseArea(from, area, to),
         \/ to = "menu" /\ area # "app"
         \/ to = "backupCopy" /\ area = "factory"
         \/ to \in {"restoreCopy", "copyOta"} /\ area = "app"
         \/ to = "dlRecv" /\ from = "dlErase" /\ area = "ota"
  PROVE  LoopInv'
  <1>1. idx' = 0 /\ pc' = to /\ pc = from /\ running' = running
    BY DEF EraseArea
  <1>2. \A p \in Page : flash'[area][p] = Erased
    BY DEF EraseArea, Blank, TypeInv, TypeOK
  <1>3. ErasedAfter(area)' /\ Copied("factory", "app")' /\ Copied("app", "factory")'
    BY <1>1, <1>2 DEF ErasedAfter, Copied
  <1>4. to \in AppPc => to = "dlRecv" /\ from = "dlErase"
    BY DEF AppPc
  <1>5. to = "dlRecv" => Holds(flash'["app"], running')
    <2>1. SUFFICES ASSUME to = "dlRecv"
                   PROVE  Holds(flash'["app"], running')
      OBVIOUS
    <2>2. Holds(flash["app"], running)
      BY <1>1, <2>1 DEF LoopInv, AppPc
    <2>3. flash'["app"] = flash["app"]
      BY <2>1 DEF EraseArea, TypeInv, TypeOK, Area
    <2>4. QED
      BY <1>1, <2>2, <2>3
  <1>6. QED
    BY <1>1, <1>3, <1>4, <1>5 DEF LoopInv

LEMMA CopyPageLoop ==
  ASSUME TypeInv, LoopInv,
         NEW at, NEW src \in Area, NEW dst \in Area, NEW n \in 0..NPages,
         CopyPage(at, src, dst, n),
         \/ at = "copyOta" /\ src = "ota" /\ dst = "app"
         \/ at = "restoreCopy" /\ src = "factory" /\ dst = "app"
         \/ at = "backupCopy" /\ src = "app" /\ dst = "factory"
  PROVE  LoopInv'
  <1>1. /\ pc = at /\ pc' = pc /\ idx \in 0..NPages /\ idx' = idx + 1
        /\ idx + 1 \in Page
    BY PagesAssumption DEF CopyPage, TypeInv, TypeOK, Page
  <1>2. flash[src] \in [Page -> Cell] /\ flash[dst] \in [Page -> Cell]
    BY DEF TypeInv, TypeOK
  <1>3. flash'[dst] = [flash[dst] EXCEPT ![idx + 1] = flash[src][idx + 1]]
    BY DEF CopyPage, TypeInv, TypeOK
  <1>4. flash'[src] = flash[src]
    BY DEF CopyPage, TypeInv, TypeOK
  <1>5. ErasedAfter(dst)
    BY <1>1 DEF LoopInv
  <1>6. ErasedAfter(dst)'
    BY <1>1, <1>2, <1>3, <1>5 DEF ErasedAfter, Page
  <1>7. ASSUME Copied(src, dst) PROVE Copied(src, dst)'
    <2>1. \A p \in 1..(idx + 1) : p \in Page /\ (p = idx + 1 \/ p \in 1..idx)
      BY <1>1, PagesAssumption DEF Page
    <2>2. QED
      BY <1>1, <1>2, <1>3, <1>4, <1>7, <2>1 DEF Copied
  <1>8. at # "copyOta" => Copied(src, dst)
    BY <1>1 DEF LoopInv
  <1>9. QED
    BY <1>1, <1>6, <1>7, <1>8 DEF LoopInv, AppPc

\* The page that is programmed is the first that was still erased.
LEMMA RecvPageLoop ==
  ASSUME TypeInv, LoopInv, NEW full \in BOOLEAN, RecvPage(full)
  PROVE  LoopInv'
  <1>1. /\ pc = "dlRecv" /\ pc' \in {"dlRecv", "verify"}
        /\ idx \in 0..NPages /\ idx' = idx + 1 /\ running' = running
    BY DEF RecvPage, TypeInv, TypeOK
  <1>2. flash'["app"] = flash["app"]
    BY DEF RecvPage, TypeInv, TypeOK, Area
  <1>3. \A p \in Page : p > idx + 1 => flash'["ota"][p] = flash["ota"][p]
    BY <1>1 DEF RecvPage, TypeInv, TypeOK, Area, Page
  <1>4. ErasedAfter("ota")
    BY <1>1 DEF LoopInv
  <1>5. ErasedAfter("ota")'
    BY <1>1, <1>3, <1>4 DEF ErasedAfter, Page
  <1>6. Holds(flash["app"], running)
    BY <1>1 DEF LoopInv, AppPc
  <1>7. QED
    BY <1>1, <1>2, <1>5, <1>6 DEF LoopInv

\* Every other step leaves the loops or does not touch what they have done.
LEMMA OtherStepLoop ==
  ASSUME TypeInv, LoopInv,
         \/ BootLoad \/ BootCheck \/ CopyOtaDone \/ BootSave \/ InitSave \/ ArmSave
         \/ AppStart \/ ReportAndReboot \/ ResetHung \/ PowerCut \/ Jump \/ VerifyCrc
         \/ BadDocument \/ DownloadRefused \/ DownloadNotStarted
         \/ RecvNegative \/ RecvNothing
         \/ \E w \in Images : StartOtaJob(w) \/ DownloadBegins(w)
         \/ \E to \in MenuKeys : MenuChoice(to)
         \/ EraseConfigArea("eraseConfig") \/ EraseConfigArea("eraseApp")
         \/ CopyDone("backupCopy") \/ CopyDone("restoreCopy")
         \/ UNCHANGED vars
  PROVE  LoopInv'
  <1>1. CASE ReportAndReboot \/ ResetHung \/ PowerCut
    BY <1>1 DEF ReportAndReboot, ResetHung, PowerCut, Restart, LoopInv, AppPc
  <1>2. CASE Jump
    BY <1>2 DEF Jump, LoopInv, AppPc
  <1>3. CASE \/ BootSave \/ InitSave \/ ArmSave
    BY <1>3 DEF BootSave, InitSave, ArmSave, SaveErase, SaveWrite, LoopInv, AppPc
  <1>4. CASE \/ BootLoad \/ BootCheck \/ CopyOtaDone \/ AppStart \/ VerifyCrc
             \/ BadDocument \/ DownloadRefused \/ DownloadNotStarted \/ RecvNothing
    BY <1>4 DEF BootLoad, BootCheck, CopyOtaDone, AppStart, VerifyCrc, BadDocument,
                DownloadRefused, DownloadNotStarted, RecvNothing, LoopInv, AppPc
  <1>5. CASE RecvNegative
    BY <1>5 DEF RecvNegative, LoopInv, AppPc, ErasedAfter
  <1>6. CASE \E w \in Images : StartOtaJob(w) \/ DownloadBegins(w)
    BY <1>6 DEF StartOtaJob, DownloadBegins, LoopInv, AppPc
  <1>7. CASE \/ \E to \in MenuKeys : MenuChoice(to)
             \/ EraseConfigArea("eraseConfig") \/ EraseConfigArea("eraseApp")
             \/ CopyDone("backupCopy") \/ CopyDone("restoreCopy")
    BY <1>7 DEF MenuKeys, MenuChoice, EraseConfigArea, CopyDone, LoopInv, AppPc
  <1>8. CASE UNCHANGED vars
    BY <1>8 DEF vars, LoopInv, ErasedAfter, Copied
  <1>9. QED
    BY <1>1, <1>2, <1>3, <1>4, <1>5, <1>6, <1>7, <1>8

LEMMA NextLoopInv == TypeInv /\ LoopInv /\ [Next]_vars => LoopInv'
  <1> SUFFICES ASSUME TypeInv, LoopInv, [Next]_vars PROVE LoopInv'
    OBVIOUS
  <1>0. "app" \in Area /\ "factory" \in Area /\ "ota" \in Area
    BY DEF Area
  <1>1. CASE EraseAppForCopy \/ EraseOtaForDownload
    <2>1. CASE EraseArea("copyErase", "app", "copyOta")
      BY <1>0, <2>1, EraseAreaLoop
    <2>2. CASE EraseArea("dlErase", "ota", "dlRecv")
      BY <1>0, <2>2, EraseAreaLoop
    <2>3. QED
      BY <1>1, <2>1, <2>2 DEF EraseAppForCopy, EraseOtaForDownload
  <1>2. CASE CopyOtaPage
    <2>1. ram.size \in 0..NPages
      BY DEF TypeInv, TypeOK, OtaInfo
    <2>2. QED
      BY <1>0, <1>2, <2>1, CopyPageLoop DEF CopyOtaPage
  <1>3. CASE Menu
    <2>1. NPages \in 0..NPages
      BY PagesAssumption
    <2>2. CASE EraseArea("wipeFactory", "factory", "menu")
      BY <1>0, <2>2, EraseAreaLoop
    <2>3. CASE EraseArea("wipeOta", "ota", "menu")
      BY <1>0, <2>3, EraseAreaLoop
    <2>4. CASE EraseArea("backupErase", "factory", "backupCopy")
      BY <1>0, <2>4, EraseAreaLoop
    <2>5. CASE EraseArea("restoreErase", "app", "restoreCopy")
      BY <1>0, <2>5, EraseAreaLoop
    <2>6. CASE CopyPage("backupCopy", "app", "factory", NPages)
      BY <1>0, <2>1, <2>6, CopyPageLoop
    <2>7. CASE CopyPage("restoreCopy", "factory", "app", NPages)
      BY <1>0, <2>1, <2>7, CopyPageLoop
    <2>8. QED
      BY <1>3, <2>2, <2>3, <2>4, <2>5, <2>6, <2>7, OtherStepLoop DEF Menu
  <1>4. CASE \E full \in BOOLEAN : RecvPage(full)
    BY <1>4, RecvPageLoop
  <1>5. QED
    BY <1>1, <1>2, <1>3, <1>4, OtherStepLoop DEF Next, DeviceStep, Network

LEMMA InvHolds == Spec => []Inv
  <1>1. Init => Inv
    BY InitTypeInv, InitSafeInv, InitLoopInv DEF Inv
  <1>2. Inv /\ [Next]_vars => Inv'
    BY NextTypeInv, NextSafeInv, NextLoopInv DEF Inv
  <1>3. QED
    BY <1>1, <1>2, PTL DEF Spec

-----------------------------------------------------------------------------
(* Programming.                                                            *)

Programs(cells, new) ==
  \A p \in Page : new[p] \in {cells[p], Erased, Junk} \/ cells[p] = Erased

\* What the steps that write one area do to its pages.
LEMMA WritesErased ==
  ASSUME Inv, Next
  PROVE  \A a \in Area : Programs(flash[a], flash'[a])
  <1> SUFFICES ASSUME NEW a \in Area PROVE Programs(flash[a], flash'[a])
    OBVIOUS
  <1> USE DEF Inv
  <1>1. ASSUME NEW from, NEW area \in Area, NEW to, EraseArea(from, area, to)
        PROVE  Programs(flash[a], flash'[a])
    BY <1>1 DEF EraseArea, Blank, Programs, TypeInv, TypeOK
  <1>2. ASSUME NEW at, NEW src \in Area, NEW dst \in Area, NEW n,
               CopyPage(at, src, dst, n),
               \/ at \in {"copyOta", "restoreCopy"} /\ dst = "app"
               \/ at = "backupCopy" /\ dst = "factory"
        PROVE  Programs(flash[a], flash'[a])
    <2>1. idx \in Nat /\ pc = at
      BY <1>2 DEF CopyPage, TypeInv, TypeOK
    <2>2. idx + 1 \in Page => flash[dst][idx + 1] = Erased
      BY <1>2, <2>1 DEF LoopInv, ErasedAfter
    <2>3. \A p \in Page : p # idx + 1 \/ a # dst => flash'[a][p] = flash[a][p]
      BY <1>2 DEF CopyPage, TypeInv, TypeOK
    <2>4. QED
      BY <2>2, <2>3 DEF Programs
  <1>3. ASSUME NEW full \in BOOLEAN, RecvPage(full)
        PROVE  Programs(flash[a], flash'[a])
    <2>1. idx \in Nat /\ pc = "dlRecv"
      BY <1>3 DEF RecvPage, TypeInv, TypeOK
    <2>2. idx + 1 \in Page => flash["ota"][idx + 1] = Erased
      BY <2>1 DEF LoopInv, ErasedAfter
    <2>3. \A p \in Page :
            p # idx + 1 \/ a # "ota" => flash'[a][p] \in {flash[a][p], Junk}
      BY <1>3 DEF RecvPage, TypeInv, TypeOK
    <2>4. QED
      BY <2>2, <2>3 DEF Programs
  <1>4. ASSUME PowerCut PROVE Programs(flash[a], flash'[a])
    BY <1>4 DEF PowerCut, Spoil, Programs, TypeInv, TypeOK
  <1>5. ASSUME flash' = flash PROVE Programs(flash[a], flash'[a])
    BY <1>5 DEF Programs
  <1>6. "app" \in Area /\ "factory" \in Area /\ "ota" \in Area
    BY DEF Area
  <1>7. CASE DeviceStep
    <2>1. CASE BootSave \/ InitSave \/ ArmSave \/ ReportAndReboot
      BY <1>5, <2>1 DEF BootSave, InitSave, ArmSave, SaveErase, SaveWrite, ReportAndReboot
    <2>2. CASE BootLoad \/ BootCheck \/ CopyOtaDone \/ AppStart \/ VerifyCrc
      BY <1>5, <2>2 DEF BootLoad, BootCheck, CopyOtaDone, AppStart, VerifyCrc
    <2>3. CASE EraseAppForCopy \/ EraseOtaForDownload \/ CopyOtaPage
      BY <1>1, <1>2, <1>6, <2>3 DEF EraseAppForCopy, EraseOtaForDownload, CopyOtaPage
    <2>4. QED
      BY <1>7, <2>1, <2>2, <2>3 DEF DeviceStep
  <1>8. CASE Network
    BY <1>3, <1>5, <1>8
       DEF Network, StartOtaJob, BadDocument, DownloadRefused, DownloadNotStarted,
           DownloadBegins, RecvNegative, RecvNothing
  <1>9. CASE Menu
    BY <1>1, <1>2, <1>5, <1>6, <1>9 DEF Menu, MenuChoice, EraseConfigArea, CopyDone
  <1>10. CASE Jump \/ ResetHung
    BY <1>5, <1>10 DEF Jump, ResetHung
  <1>11. QED
    BY <1>4, <1>7, <1>8, <1>9, <1>10 DEF Next

\* Every page that is programmed was erased before, wherever the power was cut
\* between the erase and the loop that programs.
THEOREM ProgramsErasedPages == Spec => EraseBeforeProgram
  <1>1. Inv /\ [Next]_vars =>
          [\A a \in Area, p \in Page :
             \/ flash'[a][p] \in {flash[a][p], Erased, Junk}
             \/ flash[a][p] = Erased]_flash
    BY WritesErased DEF Programs, vars
  <1>2. QED
    BY <1>1, InvHolds, PTL DEF Spec, EraseBeforeProgram

-----------------------------------------------------------------------------
(* The refinement.                                                         *)

AppImage     == ImageIn(flash["app"])
FactoryImage == ImageIn(flash["factory"])

LEMMA NextImages ==
  /\ AppImage' = ImageIn(flash'["app"])
  /\ FactoryImage' = ImageIn(flash'["factory"])
  BY DEF AppImage, FactoryImage, ImageIn, Whole, Holds

\* While the flag is there only the copy's pages change.
LEMMA ArmedStep ==
  ASSUME Inv, Next, Armed
  PROVE  \/ cfg' = cfg /\ running' = running /\ flash'["factory"] = flash["factory"]
         \/ SaveErase("bootSaveErase", "bootSaveWrite")
  <1> USE DEF Inv
  <1>1. pc \in {"load", "check", "copyErase", "copyOta", "bootSaveErase", "report"}
    BY DEF SafeInv, ArmedInv
  <1>2. CASE DeviceStep
    <2>1. CASE BootLoad \/ BootCheck \/ CopyOtaDone \/ ReportAndReboot
      BY <2>1 DEF BootLoad, BootCheck, CopyOtaDone, ReportAndReboot, Restart
    <2>2. CASE EraseAppForCopy \/ CopyOtaPage
      BY <2>2 DEF EraseAppForCopy, EraseArea, CopyOtaPage, CopyPage, TypeInv, TypeOK, Area
    <2>3. CASE AppStart \/ InitSave \/ EraseOtaForDownload \/ VerifyCrc \/ ArmSave
      BY <1>1, <2>3 DEF AppStart, InitSave, EraseOtaForDownload, EraseArea, VerifyCrc,
                        ArmSave, SaveErase, SaveWrite
    <2>4. CASE BootSave
      BY <1>1, <2>4 DEF BootSave, SaveWrite
    <2>5. QED
      BY <1>2, <2>1, <2>2, <2>3, <2>4 DEF DeviceStep
  <1>3. CASE Network \/ Menu \/ Jump \/ ResetHung
    BY <1>1, <1>3
       DEF Network, StartOtaJob, BadDocument, DownloadRefused, DownloadNotStarted,
           DownloadBegins, RecvPage, RecvNegative, RecvNothing, Menu, MenuChoice,
           EraseConfigArea, EraseArea, CopyPage, CopyDone, Jump, ResetHung
  <1>4. CASE PowerCut
    <2>1. cfg' = cfg /\ running' = running
      BY <1>1, <1>4 DEF PowerCut, Restart
    <2>2. flash'["factory"] = flash["factory"]
      <3>1. PICK area \in Area : \E S \in SUBSET AtRisk(area) :
               flash' = [flash EXCEPT ![area] = Spoil(@, S)]
        BY <1>4 DEF PowerCut
      <3>2. CASE area = "factory"
        <4>1. AtRisk("factory") = {}
          BY <1>1 DEF AtRisk
        <4>2. flash'["factory"] = Spoil(flash["factory"], {})
          BY <3>1, <3>2, <4>1 DEF TypeInv, TypeOK, Area
        <4>3. flash["factory"] \in [Page -> Cell]
          BY DEF TypeInv, TypeOK, Area
        <4>4. QED
          BY <4>2, <4>3 DEF Spoil
      <3>3. CASE area # "factory"
        BY <3>1, <3>3 DEF TypeInv, TypeOK, Area
      <3>4. QED
        BY <3>2, <3>3
    <2>3. QED
      BY <2>1, <2>2
  <1>5. QED
    BY <1>2, <1>3, <1>4 DEF Next

\* The two images that a device without the flag has: one of them may be lost,
\* or filled from the other.
KeepsImages  == AppImage' = AppImage /\ FactoryImage' = FactoryImage
LosesApp     == AppImage' = NoImage /\ FactoryImage' = FactoryImage
FillsApp     == AppImage = NoImage /\ AppImage' = FactoryImage
                /\ FactoryImage' = FactoryImage
LosesFactory == FactoryImage' = NoImage /\ AppImage' = AppImage
FillsFactory == FactoryImage = NoImage /\ FactoryImage' = AppImage
                /\ AppImage' = AppImage

LEMMA UnarmedCopies ==
  ASSUME Inv,
         \/ CopyPage("restoreCopy", "factory", "app", NPages)
         \/ CopyPage("backupCopy", "app", "factory", NPages)
  PROVE  KeepsImages \/ FillsApp \/ FillsFactory
  <1> USE DEF Inv
  <1>1. idx \in Nat /\ idx + 1 \in Page
    BY PagesAssumption DEF CopyPage, TypeInv, TypeOK, Page
  <1>2. flash["app"] \in [Page -> Cell] /\ flash["factory"] \in [Page -> Cell]
    BY DEF TypeInv, TypeOK, Area
  <1>3. CASE CopyPage("restoreCopy", "factory", "app", NPages)
    <2>1. ErasedAfter("app") /\ Copied("factory", "app")
      BY <1>3 DEF CopyPage, LoopInv
    <2>2. /\ flash'["app"] = [flash["app"] EXCEPT ![idx + 1] = flash["factory"][idx + 1]]
          /\ flash'["factory"] = flash["factory"]
      BY <1>3 DEF CopyPage, TypeInv, TypeOK, Area
    <2>3. \/ ImageIn(flash'["app"]) = ImageIn(flash["app"])
          \/ /\ ImageIn(flash["app"]) = NoImage
             /\ ImageIn(flash'["app"]) = ImageIn(flash["factory"])
      BY <1>1, <1>2, <2>1, <2>2, CopiedImage DEF ErasedAfter, Copied
    <2>4. QED
      BY <2>2, <2>3 DEF AppImage, FactoryImage, KeepsImages, FillsApp, ImageIn, Whole, Holds
  <1>4. CASE CopyPage("backupCopy", "app", "factory", NPages)
    <2>1. ErasedAfter("factory") /\ Copied("app", "factory")
      BY <1>4 DEF CopyPage, LoopInv
    <2>2. /\ flash'["factory"] = [flash["factory"] EXCEPT ![idx + 1] = flash["app"][idx + 1]]
          /\ flash'["app"] = flash["app"]
      BY <1>4 DEF CopyPage, TypeInv, TypeOK, Area
    <2>3. \/ ImageIn(flash'["factory"]) = ImageIn(flash["factory"])
          \/ /\ ImageIn(flash["factory"]) = NoImage
             /\ ImageIn(flash'["factory"]) = ImageIn(flash["app"])
      BY <1>1, <1>2, <2>1, <2>2, CopiedImage DEF ErasedAfter, Copied
    <2>4. QED
      BY <2>2, <2>3 DEF AppImage, FactoryImage, KeepsImages, FillsFactory, ImageIn, Whole, Holds
  <1>5. QED
    BY <1>3, <1>4

LEMMA UnarmedCut ==
  ASSUME Inv, PowerCut
  PROVE  KeepsImages \/ LosesApp \/ LosesFactory
  <1> USE DEF Inv
  <1>1. PICK area \in Area : \E S \in SUBSET AtRisk(area) :
           flash' = [flash EXCEPT ![area] = Spoil(@, S)]
    BY DEF PowerCut
  <1>2. PICK S \in SUBSET AtRisk(area) : flash' = [flash EXCEPT ![area] = Spoil(@, S)]
    BY <1>1
  <1>3. flash[area] \in [Page -> Cell]
    BY DEF TypeInv, TypeOK
  <1>4. ImageIn(flash'[area]) \in {ImageIn(flash[area]), NoImage}
    <2>1. flash'[area] = Spoil(flash[area], S)
      BY <1>2 DEF TypeInv, TypeOK
    <2>2. QED
      BY <1>3, <2>1, SpoiledImage
  <1>5. \A a \in Area : a # area => flash'[a] = flash[a]
    BY <1>2 DEF TypeInv, TypeOK
  <1>6. QED
    BY <1>4, <1>5, NextImages
       DEF KeepsImages, LosesApp, LosesFactory, AppImage, FactoryImage, Area

LEMMA UnarmedErase ==
  ASSUME Inv, NEW from, NEW area \in Area, NEW to, EraseArea(from, area, to)
  PROVE  KeepsImages \/ LosesApp \/ LosesFactory
  <1>1. flash'[area] = Blank /\ \A a \in Area : a # area => flash'[a] = flash[a]
    BY DEF EraseArea, Inv, TypeInv, TypeOK
  <1>2. ImageIn(flash'[area]) = NoImage
    BY <1>1, BlankHoldsNone
  <1>3. QED
    BY <1>1, <1>2, NextImages
       DEF KeepsImages, LosesApp, LosesFactory, AppImage, FactoryImage, Area

\* The flag is set by the save after a verified download, and by nothing else.
LEMMA UnarmedStep ==
  ASSUME Inv, Next, ~ Armed
  PROVE  \/ SaveWrite("armSaveWrite", "report")
         \/ /\ ~ Armed'
            /\ KeepsImages \/ LosesApp \/ FillsApp \/ LosesFactory \/ FillsFactory
  <1> USE DEF Inv
  <1>1. flash' = flash => KeepsImages
    BY DEF KeepsImages, AppImage, FactoryImage, ImageIn, Whole, Holds
  <1>2. CASE DeviceStep
    <2>1. CASE BootLoad \/ BootCheck \/ CopyOtaDone \/ AppStart \/ VerifyCrc \/ ReportAndReboot
      BY <1>1, <2>1 DEF BootLoad, BootCheck, CopyOtaDone, AppStart, VerifyCrc,
                        ReportAndReboot, Armed
    <2>2. CASE EraseAppForCopy \/ CopyOtaPage
      BY <2>2 DEF EraseAppForCopy, EraseArea, CopyOtaPage, CopyPage, SafeInv, CopyInv
    <2>3. CASE BootSave \/ InitSave
      BY <1>1, <2>3 DEF BootSave, InitSave, SaveErase, SaveWrite, NoInfo, Armed,
                        SafeInv, CopyInv
    <2>4. CASE ArmSave
      BY <1>1, <2>4 DEF ArmSave, SaveErase, NoInfo, Armed
    <2>5. CASE EraseOtaForDownload
      <3>1. EraseArea("dlErase", "ota", "dlRecv") /\ "ota" \in Area
        BY <2>5 DEF EraseOtaForDownload, Area
      <3>2. ~ Armed'
        BY <3>1 DEF EraseArea, Armed
      <3>3. QED
        BY <3>1, <3>2, UnarmedErase
    <2>6. QED
      BY <1>2, <2>1, <2>2, <2>3, <2>4, <2>5 DEF DeviceStep
  <1>3. CASE Network
    <2>1. ASSUME NEW full \in BOOLEAN, RecvPage(full)
          PROVE  ~ Armed' /\ KeepsImages
      <3>1. flash'["app"] = flash["app"] /\ flash'["factory"] = flash["factory"]
        BY <2>1 DEF RecvPage, TypeInv, TypeOK, Area
      <3>2. ~ Armed'
        BY <2>1 DEF RecvPage, Armed
      <3>3. QED
        BY <3>1, <3>2 DEF KeepsImages, AppImage, FactoryImage, ImageIn, Whole, Holds
    <2>2. QED
      BY <1>1, <1>3, <2>1
         DEF Network, StartOtaJob, BadDocument, DownloadRefused, DownloadNotStarted,
             DownloadBegins, RecvNegative, RecvNothing, Armed
  <1>4. CASE Menu
    <2>1. ~ Armed'
      BY <1>4 DEF Menu, MenuChoice, EraseConfigArea, NoInfo, EraseArea, CopyPage,
                  CopyDone, Armed
    <2>2. CASE \/ \E to \in MenuKeys : MenuChoice(to)
               \/ EraseConfigArea("eraseConfig") \/ EraseConfigArea("eraseApp")
               \/ CopyDone("backupCopy") \/ CopyDone("restoreCopy")
      BY <1>1, <2>1, <2>2 DEF MenuChoice, EraseConfigArea, CopyDone
    <2>3. CASE \/ EraseArea("wipeFactory", "factory", "menu")
               \/ EraseArea("wipeOta", "ota", "menu")
               \/ EraseArea("backupErase", "factory", "backupCopy")
               \/ EraseArea("restoreErase", "app", "restoreCopy")
      <3>1. "app" \in Area /\ "factory" \in Area /\ "ota" \in Area
        BY DEF Area
      <3>2. QED
        BY <2>1, <2>3, <3>1, UnarmedErase
    <2>4. QED
      BY <1>4, <2>1, <2>2, <2>3, UnarmedCopies DEF Menu
  <1>5. CASE Jump \/ ResetHung
    BY <1>1, <1>5 DEF Jump, ResetHung, Armed
  <1>6. CASE PowerCut
    <2>1. ~ Armed'
      BY <1>6 DEF PowerCut, NoInfo, Armed
    <2>2. QED
      BY <1>6, <2>1, UnarmedCut
  <1>7. QED
    BY <1>2, <1>3, <1>4, <1>5, <1>6 DEF Next

LEMMA InitRefines == Init => AU!Init
  <1> SUFFICES ASSUME Init PROVE AU!Init
    OBVIOUS
  <1>1. ~ Armed /\ running \in Images
    BY DEF Init, Armed, NoInfo
  <1>2. Holds(flash["app"], running)
    <2>1. flash["app"] = [p \in Page |-> IF p <= Size[running] THEN running ELSE Erased]
      BY DEF Init, Area
    <2>2. QED
      BY <1>1, <2>1, FirstPage, SizeAssumption DEF Holds
  <1>3. ImageIn(flash["app"]) = running
    BY <1>1, <1>2, HoldsOne
  <1>4. flash["factory"] = Blank
    BY DEF Init, Area
  <1>5. QED
    BY <1>1, <1>3, <1>4, BlankHoldsNone DEF AU!Init

\* Arming stages an image, the clearing of the flag commits it.
LEMMA NextRefines == Inv /\ [Next]_vars => [AU!Next]_(AU!vars)
  <1> SUFFICES ASSUME Inv, [Next]_vars PROVE [AU!Next]_(AU!vars)
    OBVIOUS
  <1> USE DEF Inv
  <1>1. CASE UNCHANGED vars
    BY <1>1 DEF vars, AU!vars, Armed, ImageIn, Whole, Holds
  <1>2. CASE Next /\ Armed
    <2>1. CASE cfg' = cfg /\ running' = running /\ flash'["factory"] = flash["factory"]
      BY <1>2, <2>1 DEF AU!vars, Armed, ImageIn, Whole, Holds
    <2>2. CASE SaveErase("bootSaveErase", "bootSaveWrite")
      <3>1. flash' = flash /\ ~ Armed'
        BY <2>2 DEF SaveErase, NoInfo, Armed
      <3>2. cfg.crc \in Images /\ Holds(flash["app"], cfg.crc)
        BY <1>2, <2>2 DEF SaveErase, SafeInv, ArmedInv, CopyInv
      <3>3. ImageIn(flash'["app"]) = cfg.crc
        BY <3>1, <3>2, HoldsOne
      <3>4. ImageIn(flash'["factory"]) = ImageIn(flash["factory"]) /\ cfg.crc # NoImage
        BY <3>1, <3>2, SentinelAssumption
      <3>5. AU!Commit
        BY <1>2, <3>1, <3>3, <3>4 DEF AU!Commit, ImageIn, Whole, Holds
      <3>6. QED
        BY <3>5 DEF AU!Next
    <2>3. QED
      BY <1>2, <2>1, <2>2, ArmedStep
  <1>3. CASE Next /\ ~ Armed
    <2>1. CASE SaveWrite("armSaveWrite", "report")
      <3>1. /\ pc = "armSaveWrite" /\ cfg' = ram
            /\ flash' = flash /\ running' = running
        BY <2>1 DEF SaveWrite
      <3>2. doc \in Images /\ running \in Images
        BY <3>1 DEF TypeInv, TypeOK, Bounds
      <3>3. Armed' /\ cfg'.crc = doc
        BY <3>1 DEF SafeInv, DownloadInv, Armed
      <3>4. Holds(flash["app"], running)
        BY <3>1 DEF LoopInv, AppPc
      <3>5. ImageIn(flash["app"]) = running
        BY <3>2, <3>4, HoldsOne
      <3>6. NotLower(Version[running], Version[doc])
        BY <3>1, <3>2, UpperIsNotLower DEF SafeInv, DownloadInv
      <3>7. <<running, doc>> \in
              {p \in Images \X Images : NotLower(Version[p[1]], Version[p[2]])}
        BY <3>2, <3>6
      <3>8. AU!Stage(doc)
        <4>1. (IF Armed THEN cfg.crc ELSE NoImage)' = doc
          BY <3>3
        <4>2. (IF Armed THEN running ELSE ImageIn(flash["app"]))' = running
          BY <3>1, <3>3
        <4>3. ImageIn(flash["factory"])' = ImageIn(flash["factory"])
          BY <3>1 DEF ImageIn, Whole, Holds
        <4>4. QED
          BY <1>3, <3>5, <3>7, <4>1, <4>2, <4>3 DEF AU!Stage
      <3>9. QED
        BY <3>2, <3>8 DEF AU!Next
    <2>2. CASE /\ ~ Armed'
               /\ KeepsImages \/ LosesApp \/ FillsApp \/ LosesFactory \/ FillsFactory
      BY <1>3, <2>2
         DEF KeepsImages, LosesApp, FillsApp, LosesFactory, FillsFactory, AppImage,
             FactoryImage, AU!Next, AU!RestoreBegins, AU!RestoreEnds, AU!FactoryLost,
             AU!FactoryFilled, AU!vars
    <2>3. QED
      BY <1>3, <2>1, <2>2, UnarmedStep
  <1>4. QED
    BY <1>1, <1>2, <1>3

\* The detailed update, with its pages, loops, saves and power cuts, is an
\* atomic replacement of one whole image by another that is not older.
THEOREM UpdateRefinesAtomic == Spec => UpdateIsAtomic
  <1>1. Init => AU!Init
    BY InitRefines
  <1>2. Inv /\ [Next]_vars => [AU!Next]_(AU!vars)
    BY NextRefines
  <1>3. QED
    BY <1>1, <1>2, InvHolds, PTL DEF Spec, UpdateIsAtomic, AU!Spec
=============================================================================

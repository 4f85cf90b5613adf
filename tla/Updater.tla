------------------------------- MODULE Updater -------------------------------
(***************************************************************************)
(* The self-updater (common/n02_update.cpp): the check that kailleraInit   *)
(* makes, the package of the TIERES RetroArch and the plain update of the  *)
(* DLL, the renaming of files that are in use, and the helpers that start  *)
(* RetroArch or Kaillera again.                                            *)
(*                                                                         *)
(* Every call of the file system is a step of its own, may be refused      *)
(* (another program has the file open) and may be the last one: the        *)
(* process can be killed between any two.  What is on disk survives, what  *)
(* the process knows does not.                                             *)
(***************************************************************************)
EXTENDS Integers, Sequences, FiniteSets, FiniteSetsExt, SequencesExt

CONSTANTS
  Files,       \* the files of the package
  Manifest,    \* their order in the manifest
  Self, Exe,   \* kailleraclient.dll and retroarch.exe
  Tags,        \* the releases, oldest first: [parts, suffixRank] of their tags
  BuiltIn,     \* BuiltIn[f][r]: the release in which the f of release r was built
  OldNames,    \* ".old", ".old2", ...: where the code puts a file aside
  MaxKills, MaxFaults   \* bounds: killed processes, refused calls

Releases == 1..Len(Tags)
None == 0      \* no such file
Part == -1     \* a file that was not written to its end
OldSlots == {OldNames[n] : n \in DOMAIN OldNames}
Slots == {"full", "new"} \cup OldSlots

\* The order of two tags: the first part that differs, or the suffix of those past the same tag.
Part0(v, i) == IF i \in DOMAIN v.parts THEN v.parts[i] ELSE 0
Older(a, b) ==
  LET places == DOMAIN a.parts \cup DOMAIN b.parts
      Same(I) == \A i \in I : Part0(a, i) = Part0(b, i)
  IN \/ \E i \in places : Part0(a, i) < Part0(b, i) /\ Same({j \in places : j < i})
     \/ Same(places) /\ a.suffixRank < b.suffixRank

\* ParseManifest refuses a manifest that names a file twice.
ASSUME UpdaterAssumption ==
  /\ Manifest \in Seq(Files) /\ IsInjective(Manifest) /\ ToSet(Manifest) = Files
  /\ Self \in Files /\ Exe \in Files /\ Self # Exe
  /\ Tags \in Seq([parts : Seq(Nat), suffixRank : Int])
  /\ \A r, s \in Releases : r < s => Older(Tags[r], Tags[s])
  /\ BuiltIn \in [Files -> [Releases -> Releases]]
  /\ \A r \in Releases : BuiltIn[Self][r] = r
  /\ \A f \in Files : \A r, s \in Releases : r < s => BuiltIn[f][r] <= BuiltIn[f][s]
  /\ OldNames \in Seq(STRING) /\ OldNames # <<>> /\ OldSlots \cap {"full", "new", "none"} = {}
  /\ MaxKills \in Nat /\ MaxFaults \in Nat

VARIABLES
  disk,       \* disk[f][s]: what is at that name
  held,       \* held[f]: the name under which the process has f open, or "none"
  emu,        \* whether the emulator runs
  version,    \* N02_VERSION of the DLL it has loaded, 0 when none is
  pc,         \* where kailleraInit is
  resume,     \* what follows SwapInPendingUpdate
  pkg,        \* the release the manifest or the version line told of
  want,       \* the files whose download flag is set
  at,         \* where DownloadThread or SwapPackage is in the manifest
  steps,      \* SwapPackage's steps[]: what was swapped, and where the old file went
  pending,    \* g_restart_pending
  helpers,    \* the rundll32 processes: "relaunch", "reopen"
  published,  \* external: the newest release on the server
  told,       \* the last message box of the update
  before,     \* history: the installed files when the package was checked
  kills, faults, undoFailed   \* history

diskVars == <<disk, held>>
procVars == <<emu, version, pc, resume, pkg, want, at, steps, pending, told>>
envVars == <<helpers, published, before>>
faultVars == <<kills, faults, undoFailed>>
uvars == <<diskVars, procVars, envVars, faultVars>>
-----------------------------------------------------------------------------
\* Versions

\* CompareVersions: the first part that differs decides, then the suffix.
CompareIgnoringSuffix(a, b) ==        \* mutant: a commit past the tag counts as the tag
  LET Parts(v, i) == IF i <= Len(v.parts) THEN v.parts[i] ELSE 0
      differ == {i \in 1..Max({Len(a.parts), Len(b.parts)}) : Parts(a, i) # Parts(b, i)}
  IN IF differ = {} THEN 0
     ELSE IF Parts(a, Min(differ)) < Parts(b, Min(differ)) THEN -1 ELSE 1

CompareVersions(a, b) ==
  LET Parts(v, i) == IF i <= Len(v.parts) THEN v.parts[i] ELSE 0
      differ == {i \in 1..Max({Len(a.parts), Len(b.parts)}) : Parts(a, i) # Parts(b, i)}
      Sign(x, y) == IF x < y THEN -1 ELSE IF x > y THEN 1 ELSE 0
  IN IF differ = {} THEN Sign(a.suffixRank, b.suffixRank)
     ELSE Sign(Parts(a, Min(differ)), Parts(b, Min(differ)))

\* The release just read about against the running one.
Cmp == CompareVersions(Tags[pkg'], Tags[version])

\* ParseManifest: the content the package has for f.
PackageFile(f) == BuiltIn[f][pkg]
-----------------------------------------------------------------------------
\* The file system

\* A call may be refused for a reason outside the program, MaxFaults times.
Refused == faults < MaxFaults /\ faults' = faults + 1
Granted == UNCHANGED faults

\* A file that is open can be renamed, not removed or replaced.
Removable(f, s) == disk[f][s] # None /\ held[f] # s

\* MoveFileEx, with and without MOVEFILE_REPLACE_EXISTING.
CanMove(f, from, to, replace) ==
  /\ disk[f][from] # None
  /\ disk[f][to] = None \/ (replace /\ held[f] # to)

Move(f, from, to) ==
  /\ disk' = [disk EXCEPT ![f][to] = disk[f][from], ![f][from] = None]
  /\ held' = [held EXCEPT ![f] = IF @ = from THEN to ELSE @]

\* A move that may be refused: whether it was done.
TryMove(f, from, to, replace, done) ==
  IF done THEN CanMove(f, from, to, replace) /\ Move(f, from, to) /\ Granted
  ELSE /\ UNCHANGED diskVars
       /\ IF CanMove(f, from, to, replace) THEN Refused ELSE Granted

Delete(names) == disk' = [f \in Files |-> [s \in Slots |->
                   IF <<f, s>> \in names THEN None ELSE disk[f][s]]]

\* OldFilePath, DeleteOldFiles, DeleteNewFiles: the names they go through.
OldFiles == {name \in Files \X OldSlots : Removable(name[1], name[2])}
NewFiles == {<<f, "new">> : f \in Files}

\* The first name SwapPackage can clear for the old file: none when all are still open.
FreeOld(f) ==
  LET open(n) == disk[f][OldNames[n]] # None /\ held[f] = OldNames[n]
  IN {n \in DOMAIN OldNames : ~open(n) /\ \A m \in 1 .. n - 1 : open(m)}

\* What a download can end as: complete with the right digest, or broken, missing on
\* the server, corrupted, not written or cancelled.
Downloads == {"ok", "failed"}
-----------------------------------------------------------------------------
\* RetroArch and the player

Goto(p) == pc' = p

\* The emulator is started.  It opens its executable and its core.
Launch ==
  /\ ~emu /\ disk[Exe]["full"] \in Releases
  /\ emu' = TRUE
  /\ held' = [f \in Files |-> IF f # Self /\ disk[f]["full"] # None THEN "full" ELSE "none"]
  /\ UNCHANGED <<disk, version, pkg, pc, resume, want, at, steps, pending, told, published,
                 before, faultVars>>

PlayerLaunches == "relaunch" \notin helpers /\ Launch /\ UNCHANGED helpers

\* LoadKaillera: the DLL is loaded from disk and kailleraInit begins.
LoadKaillera ==
  /\ emu /\ version = 0 /\ disk[Self]["full"] \in Releases
  /\ version' = disk[Self]["full"]
  /\ held' = [held EXCEPT ![Self] = "full"]
  /\ told' = "none"
  /\ resume' = "check" /\ want' = {} /\ at' = 1 /\ steps' = <<>>
  /\ Goto("pending")
  /\ UNCHANGED <<disk, emu, pkg, pending, published, before, faultVars>>

PlayerOpensKaillera == LoadKaillera /\ UNCHANGED helpers

\* kailleraInit has returned.  The dialog ends when the player closes it, and at once when
\* g_restart_pending is set; then the emulator unloads the DLL.
CloseKaillera ==
  /\ pc = "done"
  /\ version' = 0 /\ pending' = FALSE
  /\ held' = [held EXCEPT ![Self] = "none"]
  /\ Goto("idle")
  /\ UNCHANGED <<disk, emu, pkg, resume, want, at, steps, told, envVars, faultVars>>

\* RetroArch refuses to close while Kaillera is loaded.
ExitEmulator ==
  /\ emu /\ version = 0
  /\ emu' = FALSE
  /\ held' = [f \in Files |-> "none"]
  /\ UNCHANGED <<disk, version, pkg, pc, resume, want, at, steps, pending, told, envVars,
                 faultVars>>

\* The process dies: the files stay as they are.
Kill ==
  /\ emu /\ kills < MaxKills
  /\ kills' = kills + 1
  /\ emu' = FALSE /\ version' = 0 /\ pending' = FALSE /\ told' = "none"
  /\ held' = [f \in Files |-> "none"]
  /\ want' = {} /\ steps' = <<>> /\ at' = 1 /\ resume' = "check" /\ pkg' = 1
  /\ Goto("idle")
  /\ UNCHANGED <<disk, envVars, faults, undoFailed>>

Publish ==
  /\ published < Len(Tags)
  /\ published' = published + 1
  /\ UNCHANGED <<diskVars, procVars, helpers, before, faultVars>>
-----------------------------------------------------------------------------
\* SwapInPendingUpdate: at the start of every check, and after a download of the DLL

FirstOld == OldNames[1]

\* Nothing staged, or the old name is cleared as far as it can be.
PendingClear ==
  /\ pc = "pending"
  /\ IF disk[Self]["new"] = None
     THEN Goto(resume) /\ UNCHANGED <<disk, faults>>
     ELSE /\ Goto("pendingAside")
          /\ \/ Granted /\ Delete({<<Self, FirstOld>>} \cap OldFiles)
             \/ Refused /\ Removable(Self, FirstOld) /\ UNCHANGED disk
  /\ UNCHANGED <<held, emu, version, pkg, resume, want, at, steps, pending, told, envVars, kills,
                 undoFailed>>

PendingAside ==
  /\ pc = "pendingAside"
  /\ \E done \in BOOLEAN :
       /\ TryMove(Self, "full", FirstOld, TRUE, done)
       /\ Goto(IF done THEN "pendingIn" ELSE resume)
  /\ UNCHANGED <<emu, version, pkg, resume, want, at, steps, pending, told, envVars, kills,
                 undoFailed>>

PendingIn ==
  /\ pc = "pendingIn"
  /\ \E done \in BOOLEAN :
       /\ TryMove(Self, "new", "full", TRUE, done)
       /\ Goto(IF done THEN IF resume = "report" THEN "reportSwapped" ELSE resume
                       ELSE "pendingBack")
  /\ UNCHANGED <<emu, version, pkg, resume, want, at, steps, pending, told, envVars, kills,
                 undoFailed>>

PendingBack ==
  /\ pc = "pendingBack"
  /\ \E done \in BOOLEAN :
       /\ TryMove(Self, FirstOld, "full", TRUE, done)
       /\ undoFailed' = (undoFailed \/ ~done)
  /\ Goto(resume)
  /\ UNCHANGED <<emu, version, pkg, resume, want, at, steps, pending, told, envVars, kills>>
-----------------------------------------------------------------------------
\* CheckPackageUpdate

\* The manifest is read and compared with the files; the old ones of the last update go.
\* The executable has to be there: it says whether this is the TIERES build.
CheckPackage ==
  /\ pc = "check"
  /\ pkg' = published
  /\ before' = [f \in Files |-> disk[f]["full"]]
  /\ \/ Goto("dllCheck") /\ UNCHANGED <<disk, want>>   \* offline, or another emulator
     \/ /\ disk[Exe]["full"] # None /\ Cmp >= 0
        /\ want' = {f \in Files : disk[f]["full"] # PackageFile(f)' /\ ~(Cmp = 0 /\ f = Self)}
        /\ Delete(OldFiles)
        /\ Goto(IF want' = {} THEN "dllCheck" ELSE "ask")
  /\ UNCHANGED <<held, emu, version, resume, at, steps, pending, told, helpers,
                 published, faultVars>>

\* The loops over the manifest skip the files whose flag is not set: the first one from n on.
ToNextWanted(n) ==
  at' \in {i \in n .. Len(Manifest) + 1 : /\ i <= Len(Manifest) => Manifest[i] \in want
                                         /\ \A j \in n .. i - 1 : Manifest[j] \notin want}

AskPackageUpdate ==
  /\ pc = "ask"
  /\ ToNextWanted(1) /\ steps' = <<>>
  /\ Goto("download") \/ Goto("done")
  /\ UNCHANGED <<diskVars, emu, version, pkg, resume, want, pending, told, envVars, faultVars>>

\* DownloadThread: "<file>.new" is created empty ...
DownloadOpen ==
  /\ pc = "download" /\ at <= Len(Manifest)
  /\ \/ /\ disk' = [disk EXCEPT ![Manifest[at]]["new"] = Part]
        /\ Granted /\ Goto("receive")
     \/ Refused /\ UNCHANGED disk /\ Goto("failed")
  /\ UNCHANGED <<held, emu, version, pkg, resume, want, at, steps, pending, told, envVars, kills,
                 undoFailed>>

\* ... and is what the manifest says, or the download has failed.
DownloadReceive ==
  /\ pc = "receive"
  /\ \E end \in Downloads :
       IF end = "ok"
       THEN /\ disk' = [disk EXCEPT ![Manifest[at]]["new"] = PackageFile(Manifest[at])]
            /\ ToNextWanted(at + 1) /\ Goto("download")
       ELSE Goto("failed") /\ UNCHANGED <<disk, at>>
  /\ UNCHANGED <<held, emu, version, pkg, resume, want, steps, pending, told, envVars, faultVars>>

\* "Nada foi alterado": whatever was downloaded is removed.
PackageFailed ==
  /\ pc = "failed"
  /\ Delete(NewFiles)
  /\ told' = "unchanged" /\ Goto("done")
  /\ UNCHANGED <<held, emu, version, pkg, resume, want, at, steps, pending, envVars, faultVars>>

DownloadsDone ==
  /\ pc = "download" /\ at > Len(Manifest)
  /\ ToNextWanted(1) /\ Goto("swap")
  /\ UNCHANGED <<diskVars, emu, version, pkg, resume, want, steps, pending, told, envVars, faultVars>>
-----------------------------------------------------------------------------
\* SwapPackage

\* The file that is there goes to the first old name that can be cleared.
SwapAside ==
  /\ pc = "swap" /\ at <= Len(Manifest)
  /\ LET f == Manifest[at] IN
     IF disk[f]["full"] = None
     THEN /\ steps' = Append(steps, [file |-> f, old |-> "none"])
          /\ Goto("swapIn") /\ UNCHANGED <<diskVars, faults>>
     ELSE \/ \E n \in FreeOld(f) :
               /\ Move(f, "full", OldNames[n])
               /\ steps' = Append(steps, [file |-> f, old |-> OldNames[n]])
               /\ Granted /\ Goto("swapIn")
          \/ /\ IF FreeOld(f) = {} THEN Granted ELSE Refused
             /\ Goto("undo") /\ UNCHANGED <<diskVars, steps>>
  /\ UNCHANGED <<emu, version, pkg, resume, want, at, pending, told, envVars, kills, undoFailed>>

\* The downloaded one takes its place; a failure puts the old one back and undoes the rest.
SwapIn ==
  /\ pc = "swapIn"
  /\ \E done \in BOOLEAN :
       /\ TryMove(Manifest[at], "new", "full", FALSE, done)
       /\ IF done THEN ToNextWanted(at + 1) /\ Goto("swap") ELSE UNCHANGED at /\ Goto("undoBack")
  /\ UNCHANGED <<emu, version, pkg, resume, want, steps, pending, told, envVars, kills, undoFailed>>

\* The last file swapped goes back to "<file>.new" ...
UndoOut ==
  /\ pc = "undo"
  /\ IF steps = <<>> THEN Goto("failed") /\ UNCHANGED <<diskVars, faults, undoFailed>>
     ELSE /\ \E done \in BOOLEAN :
               /\ TryMove(Last(steps).file, "full", "new", TRUE, done)
               /\ undoFailed' = (undoFailed \/ ~done)
          /\ Goto("undoBack")
  /\ UNCHANGED <<emu, version, pkg, resume, want, at, steps, pending, told, envVars, kills>>

\* ... and the one it replaced comes back.
UndoBackForgetting ==                 \* mutant: only the file that failed comes back
  /\ pc = "undoBack"
  /\ LET last == Last(steps) IN
     IF last.old = "none" THEN UNCHANGED <<diskVars, faults, undoFailed>>
     ELSE \E done \in BOOLEAN : /\ TryMove(last.file, last.old, "full", FALSE, done)
                                /\ undoFailed' = (undoFailed \/ ~done)
  /\ steps' = <<>> /\ Goto("undo")
  /\ UNCHANGED <<emu, version, pkg, resume, want, at, pending, told, envVars, kills>>

UndoBack ==
  /\ pc = "undoBack"
  /\ LET last == Last(steps) IN
     IF last.old = "none" THEN UNCHANGED <<diskVars, faults, undoFailed>>
     ELSE \E done \in BOOLEAN : /\ TryMove(last.file, last.old, "full", FALSE, done)
                                /\ undoFailed' = (undoFailed \/ ~done)
  /\ steps' = Front(steps) /\ Goto("undo")
  /\ UNCHANGED <<emu, version, pkg, resume, want, at, pending, told, envVars, kills>>

\* All of it is in place.  The helper runs from the new DLL; if it does not start, the
\* player is told to start RetroArch again.
PackageInstalled ==
  /\ pc = "swap" /\ at > Len(Manifest)
  /\ told' = "package" /\ Goto("done")
  /\ \/ Granted /\ helpers' = helpers \cup {"relaunch"} /\ pending' = TRUE
     \/ Refused /\ UNCHANGED <<helpers, pending>>
  /\ UNCHANGED <<diskVars, emu, version, pkg, resume, want, at, steps, published, before, kills,
                 undoFailed>>
-----------------------------------------------------------------------------
\* The update of the DLL alone

\* The server's version line, the question and the download, which is kept in memory.
DllCheck ==
  /\ pc = "dllCheck"
  /\ pkg' = published
  /\ \/ Goto("done") /\ told' = told            \* offline, nothing newer, declined
     \/ Cmp > 0 /\ \E end \in Downloads : IF end = "ok"
                                          THEN Goto("dllOpen") /\ UNCHANGED told
                                          ELSE Goto("done") /\ told' = "unchanged"
  /\ UNCHANGED <<diskVars, emu, version, resume, want, at, steps, pending, envVars, faultVars>>

DllOpen ==
  /\ pc = "dllOpen"
  /\ \/ Granted /\ disk' = [disk EXCEPT ![Self]["new"] = Part] /\ Goto("dllWrite")
     \/ Refused /\ UNCHANGED disk /\ Goto("done")
  /\ UNCHANGED <<held, emu, version, pkg, resume, want, at, steps, pending, told, envVars, kills,
                 undoFailed>>

\* A disk that is full leaves nothing staged.
DllWrite ==
  /\ pc = "dllWrite"
  /\ \/ /\ Granted /\ disk' = [disk EXCEPT ![Self]["new"] = pkg]
        /\ resume' = "report" /\ Goto("pending")
     \/ /\ Refused /\ disk' = [disk EXCEPT ![Self]["new"] = None]
        /\ Goto("done") /\ UNCHANGED resume
  /\ UNCHANGED <<held, emu, version, pkg, want, at, steps, pending, told, envVars, kills, undoFailed>>

\* Swapped at once, or staged for the next start.
ReportSwapped ==
  /\ pc = "reportSwapped"
  /\ Goto("done")
  /\ \/ helpers' = helpers \cup {"reopen"} /\ pending' = TRUE /\ UNCHANGED told
     \/ told' = "installed" /\ UNCHANGED <<helpers, pending>>       \* not RetroArch
  /\ UNCHANGED <<diskVars, emu, version, pkg, resume, want, at, steps, published, before,
                 faultVars>>

ReportStaged ==
  /\ pc = "report"
  /\ told' = "staged" /\ Goto("done")
  /\ UNCHANGED <<diskVars, emu, version, pkg, resume, want, at, steps, pending, envVars, faultVars>>
-----------------------------------------------------------------------------
\* The helpers

\* kailleraUpdateRelaunchW: when that RetroArch has ended it is started again; after five
\* minutes the helper gives up.
Relaunch == "relaunch" \in helpers /\ Launch /\ helpers' = helpers \ {"relaunch"}

\* kailleraUpdateReopenW: when the old DLL is unloaded the menu item loads the new one; it
\* gives up if RetroArch ends or does not react.
Reopen == "reopen" \in helpers /\ LoadKaillera /\ helpers' = helpers \ {"reopen"}

HelperGivesUp ==
  /\ \E h \in helpers : helpers' = helpers \ {h}
  /\ UNCHANGED <<diskVars, procVars, published, before, faultVars>>
-----------------------------------------------------------------------------
\* An installed release, the server at the same one or another; a tester may be ahead.
UInit ==
  /\ \E r \in Releases : disk = [f \in Files |-> [s \in Slots |->
                            IF s = "full" THEN BuiltIn[f][r] ELSE None]]
  /\ published \in Releases
  /\ held = [f \in Files |-> "none"]
  /\ emu = FALSE /\ version = 0 /\ pc = "idle" /\ resume = "check" /\ pkg = 1
  /\ want = {} /\ at = 1 /\ steps = <<>> /\ pending = FALSE /\ helpers = {} /\ told = "none"
  /\ before = [f \in Files |-> disk[f]["full"]]
  /\ kills = 0 /\ faults = 0 /\ undoFailed = FALSE

UNext ==
  \/ PlayerLaunches \/ PlayerOpensKaillera \/ CloseKaillera \/ ExitEmulator \/ Kill \/ Publish
  \/ PendingClear \/ PendingAside \/ PendingIn \/ PendingBack
  \/ CheckPackage \/ AskPackageUpdate \/ DownloadOpen \/ DownloadReceive \/ DownloadsDone
  \/ PackageFailed \/ SwapAside \/ SwapIn \/ UndoOut \/ UndoBack \/ PackageInstalled
  \/ DllCheck \/ DllOpen \/ DllWrite \/ ReportSwapped \/ ReportStaged
  \/ Relaunch \/ Reopen \/ HelperGivesUp

USpec == UInit /\ [][UNext]_uvars
=============================================================================

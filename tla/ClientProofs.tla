---------------------------- MODULE ClientProofs ----------------------------
(***************************************************************************)
(* Proofs about four parts of the client around its games.                 *)
(*                                                                         *)
(* The shutdown of the core: kaillera_core_cleanup keeps its hands off the *)
(* connection kaillera_step works with, for any number of connections.     *)
(* The argument is the one of two flags: the step raises                   *)
(* kaillera_step_active before it reads the pointer again, the cleanup     *)
(* clears the pointer before it looks at the flag.                         *)
(*                                                                         *)
(* The updater: whichever calls of the file system are refused, and        *)
(* whenever a process is killed, an update is all there or not at all, and *)
(* nothing is taken back to an older release, for every package of files   *)
(* and every history of releases.                                          *)
(*                                                                         *)
(* The account: a WE Camp login ends for a reason only, for any number of  *)
(* windows, accounts, tokens and requests.  The argument: the site gives a *)
(* token out once, so that one it refused stays refused, and what a window *)
(* forgets is the very token its request was refused for; so is what it    *)
(* takes from n02.ini, unless that changed since the window read it.       *)
(*                                                                         *)
(* The memory card of a match: every card a PC's match ended with reaches  *)
(* WE Camp, or WE Camp had a version that PC did not know, for any number  *)
(* of PCs, matches, saves and faults and any length of the list of known   *)
(* versions.  The argument: the list is the first and the latest versions  *)
(* the PC saw, each part of what it sends, so that WE Camp's card grows.   *)
(***************************************************************************)
EXTENDS Teardown, UpdaterProps, Account, MatchCards, SequenceTheorems, TLAPS
-----------------------------------------------------------------------------
\* The shutdown of the core.

\* Where kaillera_step has raised the flag.
Raised == {"recheck", "use", "while", "timer", "send", "sent", "leave"}

\* While it is in one of these the window's thread has a connection.
Open == {"dialog", "noPort", "disconnect", "cleanup"}

TypeInv ==
  /\ stepping \in {"out", "first", "flag"} \cup Raised
  /\ connecting \in {"list", "open", "wait", "delete"} \cup Open
  /\ stepActive \in BOOLEAN
  /\ opened \in Nat

\* The flag is up while the step may hold the pointer.
FlagUp == stepping \in Raised => stepActive

\* The pointer and the object it points to.
PointerInv ==
  /\ connection # 0 <=> connecting \in Open
  /\ connection # 0 => connection \in allocated
  /\ connecting = "wait" => toDelete \in allocated

\* What the step works with is what the pointer points to, or what the cleanup is about to
\* delete but waits with.
UseInv ==
  stepping \in {"use", "sent"} =>
    \/ inUse \in unbound
    \/ connection # 0 /\ inUse = connection
    \/ connecting = "wait" /\ inUse = toDelete

IInv == TypeInv /\ FlagUp /\ PointerInv /\ UseInv

\* It holds before the first connection.
LEMMA InitIInv == TeardownInit => IInv
<1> SUFFICES ASSUME TeardownInit PROVE IInv
  OBVIOUS
<1> USE DEF TeardownInit
<1>1. TypeInv     BY DEF TypeInv
<1>2. FlagUp      BY DEF FlagUp, Raised
<1>3. PointerInv  BY DEF PointerInv, Open
<1>4. UseInv      BY DEF UseInv
<1> QED
  BY <1>1, <1>2, <1>3, <1>4 DEF IInv

\* Every access of either thread keeps it.
LEMMA StepIInv == IInv /\ [TeardownNext]_teardownVars => IInv'
<1> SUFFICES ASSUME IInv, [TeardownNext]_teardownVars PROVE IInv'
  OBVIOUS
<1> USE DEF IInv, TypeInv, FlagUp, PointerInv, UseInv, Raised, Open, Window, Step
<1>1. CASE StepEnters       BY <1>1 DEF StepEnters
<1>2. CASE StepTests        BY <1>2 DEF StepTests
<1>3. CASE StepActivates    BY <1>3 DEF StepActivates
<1>4. CASE StepRechecks     BY <1>4 DEF StepRechecks, StepTestsAndUses
<1>5. CASE StepLoops        BY <1>5 DEF StepLoops, StepTestsAndUses
<1>6. CASE StepReceives     BY <1>6 DEF StepReceives
<1>7. CASE StepTimer        BY <1>7 DEF StepTimer
<1>8. CASE StepSends        BY <1>8 DEF StepSends
<1>9. CASE StepFaults       BY <1>9 DEF StepFaults
<1>10. CASE StepLeaves      BY <1>10 DEF StepLeaves
<1>11. CASE ConnectOpens    BY <1>11 DEF ConnectOpens
<1>12. CASE InitializeCore  BY <1>12 DEF InitializeCore
<1>13. CASE NoPort          BY <1>13 DEF NoPort
<1>14. CASE DialogCloses    BY <1>14 DEF DialogCloses
<1>15. CASE Disconnect      BY <1>15 DEF Disconnect
<1>16. CASE CleanupNulls    BY <1>16 DEF CleanupNulls
<1>17. CASE CleanupWaits    BY <1>17 DEF CleanupWaits
<1>18. CASE CleanupDeletes  BY <1>18 DEF CleanupDeletes
<1>19. CASE UNCHANGED teardownVars
  BY <1>19 DEF teardownVars
<1> QED
  BY <1>1, <1>2, <1>3, <1>4, <1>5, <1>6, <1>7, <1>8, <1>9, <1>10, <1>11, <1>12, <1>13, <1>14,
     <1>15, <1>16, <1>17, <1>18, <1>19 DEF TeardownNext

\* Whatever the step works with has not been deleted by the cleanup.
LEMMA IInvKeepsConnection == IInv => StepKeepsConnection
BY DEF IInv, PointerInv, UseInv, StepKeepsConnection

\* Between the window's thread that deletes a connection and the loop that steps it, no
\* interleaving of their accesses leaves kaillera_step with a k_message that kaillera_core_cleanup
\* has deleted, however many connections were made and dropped.
THEOREM SpecStepKeepsConnection == TeardownSpec => []StepKeepsConnection
<1>1. TeardownSpec => []IInv
  BY InitIInv, StepIInv, PTL DEF TeardownSpec
<1> QED
  BY <1>1, IInvKeepsConnection, PTL
-----------------------------------------------------------------------------
\* The updater: its constants, and the order of the releases.

\* What is known of the constants.
LEMMA UpdaterNumbers ==
  /\ \A r \in Releases : r \in Int /\ r \in Nat /\ r > 0
  /\ None \in Int /\ Part \in Int /\ None = 0 /\ Part = -1
  /\ None \notin Releases /\ Part \notin Releases
<1>1. PICK n \in Nat : n = Len(Tags) /\ Releases = 1 .. n
  BY UpdaterAssumption, LenProperties DEF Releases
<1> QED
  BY <1>1 DEF None, Part

\* The releases, and the names of files.
LEMMA UpdaterConstants ==
  /\ \A f \in Files, r \in Releases : BuiltIn[f][r] \in Releases
  /\ \A f \in Files, r \in Releases, s \in Releases : r <= s => BuiltIn[f][r] <= BuiltIn[f][s]
  /\ \A r \in Releases : BuiltIn[Self][r] = r
  /\ Self \in Files /\ Exe \in Files
  /\ FirstOld \in OldSlots
  /\ "full" \notin OldSlots /\ "new" \notin OldSlots /\ "none" \notin OldSlots
  /\ "full" \in Slots /\ "new" \in Slots /\ OldSlots \subseteq Slots
  /\ \A s \in Slots : s = "full" \/ s = "new" \/ s \in OldSlots
<1>1. \A r \in Releases : r \in Nat /\ r > 0
  BY UpdaterNumbers
<1>2. \A f \in Files, r \in Releases : BuiltIn[f][r] \in Releases
  BY UpdaterAssumption
<1>3. \A f \in Files, r \in Releases, s \in Releases : r <= s => BuiltIn[f][r] <= BuiltIn[f][s]
  <2> SUFFICES ASSUME NEW f \in Files, NEW r \in Releases, NEW s \in Releases, r <= s
               PROVE  BuiltIn[f][r] <= BuiltIn[f][s]
    OBVIOUS
  <2>1. CASE r = s
    BY <2>1, <1>1, <1>2
  <2>2. CASE r < s
    BY <2>2, UpdaterAssumption
  <2> QED
    BY <2>1, <2>2, <1>1
<1>4. FirstOld \in OldSlots
  <2>1. 1 \in DOMAIN OldNames
    <3>1. OldNames \in Seq(STRING) /\ OldNames # <<>>
      BY UpdaterAssumption
    <3>2. Len(OldNames) \in Nat /\ DOMAIN OldNames = 1 .. Len(OldNames) /\ Len(OldNames) # 0
      BY <3>1, EmptySeq, LenProperties
    <3> QED
      BY <3>2
  <2> QED
    BY <2>1 DEF FirstOld, OldSlots
<1>5. /\ Self \in Files /\ Exe \in Files /\ OldSlots \cap {"full", "new", "none"} = {}
      /\ \A r \in Releases : BuiltIn[Self][r] = r
  BY UpdaterAssumption
<1>6. /\ "full" \notin OldSlots /\ "new" \notin OldSlots /\ "none" \notin OldSlots
      /\ "full" \in Slots /\ "new" \in Slots /\ OldSlots \subseteq Slots
      /\ \A s \in Slots : s = "full" \/ s = "new" \/ s \in OldSlots
  BY <1>5 DEF Slots
<1> QED
  BY <1>2, <1>3, <1>4, <1>5, <1>6

\* CompareVersions orders tags by the first part that differs, then by their suffix.
LEMMA CompareOlder ==
  ASSUME NEW a \in [parts : Seq(Nat), suffixRank : Int], NEW b \in [parts : Seq(Nat), suffixRank : Int],
         Older(a, b)
  PROVE  CompareVersions(a, b) = -1 /\ CompareVersions(b, a) = 1
<1>1. PICK la \in Nat, lb \in Nat : /\ la = Len(a.parts) /\ lb = Len(b.parts)
                                    /\ DOMAIN a.parts = 1 .. la /\ DOMAIN b.parts = 1 .. lb
  BY LenProperties
<1>2. PICK m \in Nat : m = Max({la, lb}) /\ m = Max({lb, la}) /\ la <= m /\ lb <= m /\ (m = la \/ m = lb)
  <2>1. {la, lb} = {lb, la}
    OBVIOUS
  <2>2. \E m \in {la, lb} : \A y \in {la, lb} : m >= y
    OBVIOUS
  <2>3. Max({la, lb}) \in {la, lb} /\ \A y \in {la, lb} : Max({la, lb}) >= y
    BY <2>2 DEF Max
  <2> QED
    BY <2>1, <2>3
<1> DEFINE P(v, i) == IF i <= Len(v.parts) THEN v.parts[i] ELSE 0
<1>3. \A i \in 1 .. m : P(a, i) = Part0(a, i) /\ P(b, i) = Part0(b, i) /\ P(a, i) \in Nat /\ P(b, i) \in Nat
  BY <1>1, <1>2 DEF Part0
<1>4. DOMAIN a.parts \cup DOMAIN b.parts = 1 .. m
  BY <1>1, <1>2
<1> DEFINE D == {i \in 1 .. m : P(a, i) # P(b, i)}
<1>5. {i \in 1 .. m : P(b, i) # P(a, i)} = D
  OBVIOUS
<1> HIDE DEF P
<1>6. CASE \E i \in 1 .. m : Part0(a, i) < Part0(b, i) /\ \A j \in {k \in 1 .. m : k < i} : Part0(a, j) = Part0(b, j)
  <2>1. PICK i \in 1 .. m : P(a, i) < P(b, i) /\ \A j \in 1 .. m : j < i => P(a, j) = P(b, j)
    BY <1>3, <1>6
  <2>2. i \in D /\ \A j \in D : i <= j
    BY <2>1, <1>3
  <2>3. Min(D) \in D /\ \A j \in D : Min(D) <= j
    BY <2>2 DEF Min
  <2>4. Min(D) = i
    <3>1. PICK x : x = Min(D)
      OBVIOUS
    <3>2. x \in 1 .. m /\ x <= i /\ i <= x
      BY <2>2, <2>3, <3>1
    <3> QED
      BY <3>1, <3>2
  <2>5. D # {} /\ P(a, Min(D)) < P(b, Min(D)) /\ P(a, Min(D)) \in Nat /\ P(b, Min(D)) \in Nat
    BY <2>1, <2>2, <2>4, <1>3
  <2> HIDE DEF D
  <2>6. CompareVersions(a, b) = IF P(a, Min(D)) < P(b, Min(D)) THEN -1 ELSE IF P(a, Min(D)) > P(b, Min(D)) THEN 1 ELSE 0
    BY <2>5, <1>1, <1>2 DEF CompareVersions, P, D
  <2>7. CompareVersions(b, a) = IF P(b, Min(D)) < P(a, Min(D)) THEN -1 ELSE IF P(b, Min(D)) > P(a, Min(D)) THEN 1 ELSE 0
    BY <2>5, <1>1, <1>2, <1>5 DEF CompareVersions, P, D
  <2> QED
    BY <2>5, <2>6, <2>7
<1>7. CASE (\A j \in 1 .. m : Part0(a, j) = Part0(b, j)) /\ a.suffixRank < b.suffixRank
  <2>1. D = {}
    BY <1>3, <1>7
  <2> HIDE DEF D
  <2>2. CompareVersions(a, b) = IF a.suffixRank < b.suffixRank THEN -1 ELSE IF a.suffixRank > b.suffixRank THEN 1 ELSE 0
    BY <2>1, <1>1, <1>2 DEF CompareVersions, P, D
  <2>3. CompareVersions(b, a) = IF b.suffixRank < a.suffixRank THEN -1 ELSE IF b.suffixRank > a.suffixRank THEN 1 ELSE 0
    BY <2>1, <1>1, <1>2, <1>5 DEF CompareVersions, P, D
  <2> QED
    BY <2>2, <2>3, <1>7
<1>8. \/ \E i \in 1 .. m : Part0(a, i) < Part0(b, i) /\ \A j \in {k \in 1 .. m : k < i} : Part0(a, j) = Part0(b, j)
      \/ (\A j \in 1 .. m : Part0(a, j) = Part0(b, j)) /\ a.suffixRank < b.suffixRank
  <2> HIDE DEF D
  <2>1. \/ \E i \in DOMAIN a.parts \cup DOMAIN b.parts :
             /\ Part0(a, i) < Part0(b, i)
             /\ \A j \in {k \in DOMAIN a.parts \cup DOMAIN b.parts : k < i} : Part0(a, j) = Part0(b, j)
        \/ (\A j \in DOMAIN a.parts \cup DOMAIN b.parts : Part0(a, j) = Part0(b, j)) /\ a.suffixRank < b.suffixRank
    BY DEF Older
  <2>2. ASSUME NEW i \in DOMAIN a.parts \cup DOMAIN b.parts, Part0(a, i) < Part0(b, i),
               \A j \in {k \in DOMAIN a.parts \cup DOMAIN b.parts : k < i} : Part0(a, j) = Part0(b, j)
        PROVE  \E l \in 1 .. m : Part0(a, l) < Part0(b, l) /\ \A j \in {k \in 1 .. m : k < l} : Part0(a, j) = Part0(b, j)
    <3>1. i \in 1 .. m
      BY <1>4
    <3>2. ASSUME NEW j \in {k \in 1 .. m : k < i} PROVE Part0(a, j) = Part0(b, j)
      <4>1. j \in {k \in DOMAIN a.parts \cup DOMAIN b.parts : k < i}
        BY <1>4
      <4> QED
        BY <4>1, <2>2
    <3> QED
      BY <2>2, <3>1, <3>2, Zenon
  <2>3. ASSUME \A j \in DOMAIN a.parts \cup DOMAIN b.parts : Part0(a, j) = Part0(b, j)
        PROVE  \A j \in 1 .. m : Part0(a, j) = Part0(b, j)
    BY <1>4, <2>3
  <2> QED
    BY <2>1, <2>2, <2>3, Zenon
<1> QED
  BY <1>6, <1>7, <1>8

\* What the comparison of the site's release with the running one means.
LEMMA CompareReleases ==
  ASSUME NEW r \in Releases, NEW s \in Releases
  PROVE  /\ CompareVersions(Tags[r], Tags[s]) >= 0 => s <= r
         /\ CompareVersions(Tags[r], Tags[s]) > 0 => s <= r
         /\ CompareVersions(Tags[r], Tags[s]) = 0 => r = s
<1>1. Tags[r] \in [parts : Seq(Nat), suffixRank : Int] /\ Tags[s] \in [parts : Seq(Nat), suffixRank : Int]
  <2>1. Tags \in Seq([parts : Seq(Nat), suffixRank : Int]) /\ r \in 1 .. Len(Tags) /\ s \in 1 .. Len(Tags)
    BY UpdaterAssumption DEF Releases
  <2> QED
    BY <2>1, ElementOfSeq
<1>2. r \in Int /\ s \in Int
  BY UpdaterNumbers
<1>3. CASE r < s
  <2>1. CompareVersions(Tags[r], Tags[s]) = -1
    BY <1>1, <1>3, CompareOlder, UpdaterAssumption
  <2> QED
    BY <2>1, <1>3
<1>4. CASE s < r
  <2>1. CompareVersions(Tags[r], Tags[s]) = 1
    BY <1>1, <1>4, CompareOlder, UpdaterAssumption
  <2> QED
    BY <2>1, <1>4, <1>2
<1>5. CASE s = r
  BY <1>5, <1>2
<1> QED
  BY <1>2, <1>3, <1>4, <1>5
-----------------------------------------------------------------------------
\* The invariant.

Content == Releases \cup {None, Part}
Loading == {"ask", "download", "receive"}
Undoing == {"undo", "undoBack"}
Swapping == {"swap", "swapIn"} \cup Undoing
Packing == Loading \cup Swapping \cup {"failed"}
Aside == {"pendingIn", "pendingBack"}
Places == {"idle", "pending", "pendingAside", "check", "done", "dllCheck", "dllOpen", "dllWrite",
           "reportSwapped", "report"} \cup Aside \cup Packing

Full(f) == disk[f]["full"]
New(f) == disk[f]["new"]
Old == disk[Self][FirstOld]

UTypeInv ==
  /\ disk \in [Files -> [Slots -> Content]]
  /\ version \in Releases \cup {0} /\ pkg \in Releases /\ published \in Releases
  /\ pc \in Places /\ resume \in {"check", "report"}
  /\ want \in SUBSET Files /\ at \in Nat /\ at > 0
  /\ steps \in Seq([file : Files, old : OldSlots \cup {"none"}])
  /\ before \in [Files -> Content]
  /\ undoFailed \in BOOLEAN /\ kills \in Nat

\* The process.
Running ==
  /\ version = 0 <=> pc = "idle"
  /\ pc = "check" => resume = "check"
  /\ told \in {"unchanged", "package"} => pc \in {"done", "idle"}

\* No file is newer than those of r, the release that was installed first, and of the site's.
Dated(r) ==
  /\ \A s \in Slots : disk[Self][s] \in Releases => r <= disk[Self][s]
  /\ version # 0 => r <= version
  /\ \A f \in Files, s \in Slots : disk[f][s] <= BuiltIn[f][r] \/ disk[f][s] <= BuiltIn[f][published]

\* What is staged is not older than what is installed, nor this than what runs.
Newer ==
  /\ New(Self) \in Releases =>
       /\ New(Self) <= published /\ (version # 0 => version <= New(Self))
       /\ Full(Self) \in Releases => Full(Self) <= New(Self)
       /\ pc \in Aside /\ Old \in Releases => Old <= New(Self)
  /\ version # 0 /\ Full(Self) \in Releases => version <= Full(Self)
  /\ pc \in Aside /\ Old \in Releases => version <= Old

\* The package is not older than what it replaces; the files it leaves alone are its own.
PkgInv ==
  /\ pc \in Packing \cup {"dllOpen", "dllWrite"} =>
       version <= pkg /\ pkg <= published /\ Full(Self) <= pkg
  /\ pc \in Packing =>
       /\ \A f \in Files : before[f] <= BuiltIn[f][pkg]
       /\ before[Self] \in Releases => version <= before[Self]
       /\ \A f \in Files \ want : Full(f) = before[f]
       /\ kills = 0 /\ ~undoFailed => \A f \in Files \ want : Full(f) = BuiltIn[f][pkg]

\* The files of the download that a loop has passed when it is at n + 1.
PassedBy(n) == {f \in want : \E i \in 1 .. n : i <= Len(Manifest) /\ Manifest[i] = f}

\* Nothing is changed before all of it is there.
LoadInv ==
  /\ pc \in Loading \cup {"dllCheck"} => \A f \in Files : Full(f) = before[f]
  /\ pc \in {"download", "receive", "swap", "swapIn"} /\ at <= Len(Manifest) => Manifest[at] \in want
  /\ pc \in {"receive", "swapIn"} => at <= Len(Manifest)
  /\ pc \in {"download", "receive"} => \A f \in PassedBy(at - 1) : New(f) = BuiltIn[f][pkg]
  /\ pc = "failed" /\ ~undoFailed => \A f \in Files : Full(f) = before[f]
  /\ pc \in {"download", "receive"} => steps = <<>>

\* A step of the swap has put aside what was there before.
Kept(step) ==
  /\ step.file \in want
  /\ step.old = "none" => before[step.file] = None
  /\ step.old # "none" => disk[step.file][step.old] = before[step.file] /\ before[step.file] # None

Swapped == {steps[i].file : i \in DOMAIN steps}

SwapInv ==
  pc \in Swapping =>
  /\ \A i \in DOMAIN steps : Kept(steps[i])
  /\ \A i, j \in DOMAIN steps : steps[i].file = steps[j].file => i = j
  /\ \A i \in DOMAIN steps : (i < Len(steps) \/ pc \in {"swap", "undo"}) =>
         Full(steps[i].file) = BuiltIn[steps[i].file][pkg]
  /\ pc \in {"swapIn", "undoBack"} => steps # <<>>
  /\ pc = "swap" => Swapped = PassedBy(at - 1)
  /\ pc = "swapIn" => Swapped = PassedBy(at) /\ steps[Len(steps)].file = Manifest[at]
  /\ pc = "swapIn" \/ (pc = "undoBack" /\ ~undoFailed) => Full(steps[Len(steps)].file) = None
  /\ pc \notin Undoing \/ ~undoFailed => \A f \in want \ Swapped : Full(f) = before[f]
  /\ pc = "swap" => \A f \in want \ PassedBy(at - 1) : New(f) = BuiltIn[f][pkg]
  /\ pc = "swapIn" => \A f \in want \ PassedBy(at - 1) : New(f) = BuiltIn[f][pkg]
  /\ Self \in want /\ New(Self) \in Releases => New(Self) = pkg

\* As long as no process was killed.
WholeInv ==
  kills = 0 =>
  /\ \A f \in Files : Full(f) # Part /\ \A s \in OldSlots : disk[f][s] # Part
  /\ \A f \in Files : New(f) = Part =>
       pc = "failed" \/ (pc = "receive" /\ f = Manifest[at]) \/ (pc = "dllWrite" /\ f = Self)
  /\ resume = "check" /\ ~undoFailed =>
       /\ pc \in {"pending", "check"} => Full(Self) = version \/ version < published
       /\ pc \in {"pending", "pendingAside"} \cup Aside /\ New(Self) # None => New(Self) = version \/ version < published
       /\ pc = "pendingAside" => Full(Self) = version \/ version < published
       /\ pc \in Aside => Old = version \/ version < published

ToldInv ==
  /\ told = "unchanged" /\ ~undoFailed => \A f \in Files : Full(f) = before[f]
  /\ pc = "done" /\ told = "package" /\ kills = 0 /\ ~undoFailed =>
       \E r \in Releases : \A f \in Files : Full(f) = BuiltIn[f][r]

UInv ==
  /\ UTypeInv /\ Running /\ Newer /\ PkgInv /\ LoadInv /\ SwapInv /\ WholeInv /\ ToldInv
  /\ \E r \in Releases : Dated(r)

\* The names and the numbers in them.
LEMMA UpdaterTypes ==
  ASSUME UTypeInv
  PROVE  /\ \A f \in Files, s \in Slots : disk[f][s] \in Content /\ disk[f][s] \in Int
         /\ \A f \in Files : Full(f) \in Content /\ Full(f) \in Int /\ New(f) \in Content /\ New(f) \in Int
         /\ \A f \in Files : before[f] \in Content /\ before[f] \in Int
         /\ Old \in Content /\ Old \in Int /\ Full(Self) \in Int /\ New(Self) \in Int /\ before[Self] \in Int
         /\ version \in Nat /\ (version # 0 => version \in Releases) /\ pkg \in Int /\ published \in Int
<1>1. \A x \in Content : x \in Int
  <2>1. (\A r \in Releases : r \in Int) /\ None \in Int /\ Part \in Int
    BY UpdaterNumbers
  <2> QED
    BY <2>1 DEF Content
<1>2. \A f \in Files, s \in Slots : disk[f][s] \in Content
  BY DEF UTypeInv
<1>3. \A f \in Files : before[f] \in Content
  BY DEF UTypeInv
<1>4. Self \in Files /\ "full" \in Slots /\ "new" \in Slots /\ FirstOld \in Slots
  BY UpdaterConstants
<1>5. \A r \in Releases : r \in Nat
  BY UpdaterNumbers
<1>6. version \in Nat /\ (version # 0 => version \in Releases) /\ pkg \in Int /\ published \in Int
  <2>1. version \in Releases \cup {0} /\ pkg \in Releases /\ published \in Releases
    BY DEF UTypeInv
  <2> QED
    BY <2>1, <1>5
<1> QED
  BY <1>1, <1>2, <1>3, <1>4, <1>6 DEF Full, New, Old

\* What the emulator and the helpers do leaves all of it alone.
LEMMA UpdaterRest ==
  ASSUME UInv, UNCHANGED <<disk, version, pc, resume, pkg, want, at, steps, told, published, before,
                           kills, undoFailed>>
  PROVE  UInv'
<1>1. UTypeInv'
  BY DEF UInv, UTypeInv
<1>2. Running'
  BY DEF UInv, Running
<1>3. Newer'
  BY DEF UInv, Newer, Full, New, Old
<1>4. PkgInv'
  BY DEF UInv, PkgInv, Full
<1>5. LoadInv'
  BY DEF UInv, LoadInv, Full, New, PassedBy
<1>6. SwapInv'
  <2>1. Swapped' = Swapped /\ PassedBy(at - 1)' = PassedBy(at - 1) /\ PassedBy(at)' = PassedBy(at)
    BY DEF Swapped, PassedBy
  <2>2. \A i \in DOMAIN steps : Kept(steps[i])' <=> Kept(steps[i])
    BY DEF Kept
  <2> QED
    BY <2>1, <2>2 DEF UInv, SwapInv, Full, New
<1>7. WholeInv'
  BY DEF UInv, WholeInv, Full, New, Old
<1>8. ToldInv'
  BY DEF UInv, ToldInv, Full
<1>9. \E r \in Releases : Dated(r)'
  BY DEF UInv, Dated
<1> QED
  BY <1>1, <1>2, <1>3, <1>4, <1>5, <1>6, <1>7, <1>8, <1>9 DEF UInv

\* A file that was renamed.
LEMMA MoveAt ==
  ASSUME UTypeInv, NEW f \in Files, NEW from \in Slots, NEW to \in Slots, from # to, Move(f, from, to)
  PROVE  /\ disk' \in [Files -> [Slots -> Content]]
         /\ disk'[f][to] = disk[f][from] /\ disk'[f][from] = None
         /\ \A s \in Slots : s # to /\ s # from => disk'[f][s] = disk[f][s]
         /\ \A g \in Files, s \in Slots : g # f => disk'[g][s] = disk[g][s]
<1>1. disk \in [Files -> [Slots -> Content]] /\ None \in Content
  BY DEF UTypeInv, Content
<1>2. disk' = [disk EXCEPT ![f] = [[disk[f] EXCEPT ![to] = disk[f][from]] EXCEPT ![from] = None]]
  BY <1>1 DEF Move
<1> QED
  BY <1>1, <1>2

\* What a move does to the disk, and that it may be refused: it changes two names of one file, or none.
LEMMA TryMoveAt ==
  ASSUME UTypeInv, NEW f \in Files, NEW from \in Slots, NEW to \in Slots, from # to,
         NEW replace \in BOOLEAN, NEW done \in BOOLEAN, TryMove(f, from, to, replace, done)
  PROVE  /\ disk' \in [Files -> [Slots -> Content]]
         /\ done => /\ disk[f][from] # None /\ (~replace => disk[f][to] = None)
                    /\ disk'[f][to] = disk[f][from] /\ disk'[f][from] = None
                    /\ \A s \in Slots : s # to /\ s # from => disk'[f][s] = disk[f][s]
                    /\ \A g \in Files, s \in Slots : g # f => disk'[g][s] = disk[g][s]
         /\ ~done => disk' = disk
<1>1. CASE done
  <2>1. CanMove(f, from, to, replace) /\ Move(f, from, to)
    BY <1>1 DEF TryMove
  <2> QED
    BY <1>1, <2>1, MoveAt DEF CanMove
<1>2. CASE ~done
  BY <1>2 DEF TryMove, diskVars, UTypeInv
<1> QED
  BY <1>1, <1>2

\* No step of a swap yet.
LEMMA EmptySteps == <<>> \in Seq([file : Files, old : OldSlots \cup {"none"}])
<1>1. \A S : <<>> \in Seq(S)
  BY EmptySeq
<1> QED
  BY <1>1, Zenon

\* Loading the DLL: it runs what is installed.
LEMMA LoadStep == ASSUME UInv, LoadKaillera PROVE UInv'
<1>1. /\ version = 0 /\ Full(Self) \in Releases /\ version' = Full(Self) /\ pc' = "pending"
      /\ told' = "none" /\ resume' = "check" /\ want' = {} /\ at' = 1 /\ steps' = <<>>
      /\ UNCHANGED <<disk, pkg, published, before, kills, undoFailed>>
  BY DEF LoadKaillera, Goto, Full, faultVars
<1>2. UTypeInv
  BY DEF UInv
<1>3. version' # 0
  BY <1>1, UpdaterNumbers
<1>4. UTypeInv'
  <2>1. steps' \in Seq([file : Files, old : OldSlots \cup {"none"}]) /\ at' \in Nat /\ at' > 0
    <3>1. steps' \in Seq([file : Files, old : OldSlots \cup {"none"}])
      BY <1>1, EmptySteps, Zenon
    <3>2. at' = 1
      BY <1>1, Zenon
    <3>3. at' \in Nat /\ at' > 0
      BY <3>2
    <3> QED
      BY <3>1, <3>3, Zenon
  <2>2. version' \in Releases \cup {0} /\ pc' \in Places /\ want' \in SUBSET Files /\ resume' \in {"check", "report"}
    BY <1>1 DEF Places
  <2> QED
    BY <1>1, <1>2, <2>1, <2>2 DEF UTypeInv
<1>5. Running'
  BY <1>1, <1>3 DEF Running
<1>6. Newer'
  <2>1. Full(Self) \in Int /\ New(Self) \in Int /\ Full(Self)' = Full(Self) /\ New(Self)' = New(Self)
    BY <1>1, <1>2, UpdaterTypes DEF Full, New
  <2>2. New(Self) \in Releases => New(Self) <= published /\ Full(Self) <= New(Self)
    BY <1>1 DEF UInv, Newer
  <2>3. pc' \notin Aside
    BY <1>1 DEF Aside
  <2> QED
    <3>1. published' = published /\ version' = Full(Self) /\ version' = Full(Self)'
      BY <1>1, <2>1
    <3>2. New(Self)' \in Releases => New(Self)' <= published' /\ version' <= New(Self)' /\ Full(Self)' <= New(Self)'
      BY <2>1, <2>2, <3>1
    <3>3. version' <= Full(Self)'
      BY <2>1, <3>1
    <3> QED
      BY <2>3, <3>2, <3>3 DEF Newer
<1>7. PkgInv' /\ LoadInv' /\ SwapInv' /\ ToldInv'
  BY <1>1 DEF PkgInv, LoadInv, SwapInv, ToldInv, Packing, Loading, Swapping, Undoing
<1>8. WholeInv'
  <2>1. New(Self) # None /\ New(Self) # Part => New(Self) \in Releases
    BY <1>2, UpdaterConstants, UpdaterTypes DEF Content
  <2>2. kills = 0 => \A f \in Files : New(f) # Part
    BY <1>1 DEF UInv, WholeInv, Running
  <2>3. New(Self) \in Releases => Full(Self) <= New(Self) /\ New(Self) <= published
    BY <1>1 DEF UInv, Newer
  <2>4. Full(Self) \in Int /\ New(Self) \in Int /\ published \in Int
    BY <1>2, UpdaterConstants, UpdaterTypes
  <2>5. kills = 0 /\ New(Self) # None => New(Self) = Full(Self) \/ Full(Self) < published
    <3>1. Self \in Files
      BY UpdaterConstants
    <3> QED
      BY <2>1, <2>2, <2>3, <2>4, <3>1
  <2> QED
    BY <1>1, <2>2, <2>5 DEF UInv, WholeInv, Full, New, Old, Aside
<1>9. \E r \in Releases : Dated(r)'
  <2>1. PICK r \in Releases : Dated(r)
    BY DEF UInv
  <2>2. r <= version'
    BY <1>1, <2>1, UpdaterConstants DEF Dated, Full
  <2>3. Dated(r)'
    BY <1>1, <2>1, <2>2 DEF Dated
  <2> QED
    BY <2>3
<1> QED
  BY <1>4, <1>5, <1>6, <1>7, <1>8, <1>9 DEF UInv

\* It is unloaded, or the process dies.
LEMMA UnloadStep ==
  ASSUME UInv, CloseKaillera \/ Kill
  PROVE  UInv'
<1>1. /\ version' = 0 /\ pc' = "idle" /\ kills' \in Nat /\ (kills' = 0 => kills = 0)
      /\ UNCHANGED <<disk, published, before, undoFailed>>
      /\ (told' = told /\ pc = "done") \/ told' = "none"
      /\ pkg' \in {pkg, 1} /\ want' \in {want, {}} /\ at' \in {at, 1} /\ steps' \in {steps, <<>>}
      /\ resume' \in {resume, "check"}
      /\ kills' = 0 => pc = "done"
  <2>1. kills \in Nat
    BY DEF UInv, UTypeInv
  <2>2. CASE CloseKaillera
    BY <2>1, <2>2 DEF CloseKaillera, Goto, envVars, faultVars
  <2>3. CASE Kill
    <3>1. kills' = kills + 1 /\ kills' # 0
      <4>1. kills' = kills + 1
        BY <2>3, Zenon DEF Kill
      <4> QED
        BY <2>1, <4>1
    <3>2. /\ version' = 0 /\ pc' = "idle" /\ UNCHANGED <<disk, published, before, undoFailed>>
          /\ told' = "none" /\ pkg' = 1 /\ want' = {} /\ at' = 1 /\ steps' = <<>> /\ resume' = "check"
      BY <2>3, Zenon DEF Kill, Goto, envVars
    <3>3. kills' \in Nat
      BY <2>1, <3>1
    <3> QED
      BY <3>1, <3>2, <3>3, Zenon
  <2> QED
    BY <2>2, <2>3
<1>2. UTypeInv
  BY DEF UInv
<1>3. UTypeInv'
  <2>1. 1 \in Releases
    <3>1. PICK n \in Nat : n = Len(Tags) /\ Releases = 1 .. n
      BY UpdaterAssumption, LenProperties DEF Releases
    <3>2. pkg \in 1 .. n
      BY <1>2, <3>1 DEF UTypeInv
    <3> QED
      BY <3>1, <3>2
  <2>2. steps' \in Seq([file : Files, old : OldSlots \cup {"none"}])
    <3>1. steps \in Seq([file : Files, old : OldSlots \cup {"none"}]) /\ (steps' = steps \/ steps' = <<>>)
      BY <1>1, <1>2 DEF UTypeInv
    <3> QED
      BY <3>1, EmptySteps
  <2>3. pkg' \in Releases /\ want' \in SUBSET Files /\ at' \in Nat /\ at' > 0 /\ resume' \in {"check", "report"} /\ kills' \in Nat
    <3>1. pkg \in Releases /\ want \in SUBSET Files /\ at \in Nat /\ at > 0 /\ resume \in {"check", "report"}
      BY <1>2 DEF UTypeInv
    <3>2. /\ pkg' = pkg \/ pkg' = 1
          /\ want' = want \/ want' = {}
          /\ at' = at \/ at' = 1
          /\ resume' = resume \/ resume' = "check"
      BY <1>1
    <3>3. pkg' \in Releases
      BY <2>1, <3>1, <3>2
    <3>4. want' \in SUBSET Files
      BY <3>1, <3>2
    <3>5. at' \in Nat /\ at' > 0 /\ resume' \in {"check", "report"}
      BY <3>1, <3>2
    <3> QED
      BY <1>1, <3>3, <3>4, <3>5
  <2>4. disk' = disk /\ version' = 0 /\ published' = published /\ pc' = "idle" /\ before' = before /\ undoFailed' = undoFailed
    BY <1>1
  <2> QED
    BY <1>2, <2>2, <2>3, <2>4 DEF UTypeInv, Places
<1>4. Running' /\ PkgInv' /\ LoadInv' /\ SwapInv'
  BY <1>1 DEF Running, PkgInv, LoadInv, SwapInv, Packing, Loading, Swapping, Undoing
<1>5. Newer'
  BY <1>1 DEF UInv, Newer, Full, New, Aside
<1>6. WholeInv'
  BY <1>1 DEF UInv, WholeInv, Full, New, Aside
<1>7. ToldInv'
  BY <1>1 DEF UInv, ToldInv, Full
<1>8. \E r \in Releases : Dated(r)'
  BY <1>1 DEF UInv, Dated
<1> QED
  BY <1>3, <1>4, <1>5, <1>6, <1>7, <1>8 DEF UInv

\* A release appears on the site.
LEMMA PublishStep == ASSUME UInv, Publish PROVE UInv'
<1>1. /\ published' = published + 1 /\ published < Len(Tags)
      /\ UNCHANGED <<disk, version, pc, resume, pkg, want, at, steps, told, before, kills, undoFailed>>
  BY DEF Publish, diskVars, procVars, faultVars
<1>2. UTypeInv
  BY DEF UInv
<1>3. published' \in Releases /\ published < published'
  <2>1. PICK n \in Nat : n = Len(Tags) /\ Releases = 1 .. n
    BY UpdaterAssumption, LenProperties DEF Releases
  <2>2. published \in 1 .. n
    BY <1>2, <2>1 DEF UTypeInv
  <2> QED
    BY <1>1, <2>1, <2>2
<1>4. published \in Releases /\ published \in Int /\ published' \in Int /\ version \in Int /\ pkg \in Int
  BY <1>2, <1>3, UpdaterTypes, UpdaterNumbers DEF UTypeInv
<1>5. UTypeInv'
  BY <1>1, <1>2, <1>3 DEF UTypeInv
<1>6. Running' /\ LoadInv' /\ ToldInv'
  BY <1>1 DEF UInv, Running, LoadInv, ToldInv, Full, New, PassedBy
<1>7. Newer'
  <2>1. New(Self) \in Int
    BY <1>2, UpdaterTypes
  <2> QED
    BY <1>1, <1>3, <1>4, <2>1 DEF UInv, Newer, Full, New, Old
<1>8. PkgInv'
  BY <1>1, <1>3, <1>4 DEF UInv, PkgInv, Full
<1>9. SwapInv'
  <2>1. Swapped' = Swapped /\ PassedBy(at - 1)' = PassedBy(at - 1) /\ PassedBy(at)' = PassedBy(at)
    BY <1>1 DEF Swapped, PassedBy
  <2>2. \A i \in DOMAIN steps : Kept(steps[i])' <=> Kept(steps[i])
    BY <1>1 DEF Kept
  <2> QED
    BY <1>1, <2>1, <2>2 DEF UInv, SwapInv, Full, New
<1>10. WholeInv'
  BY <1>1, <1>3, <1>4 DEF UInv, WholeInv, Full, New, Old
<1>11. \E r \in Releases : Dated(r)'
  <2>1. PICK r \in Releases : Dated(r)
    BY DEF UInv
  <2>2. ASSUME NEW f \in Files, NEW s \in Slots
        PROVE  disk[f][s] <= BuiltIn[f][r] \/ disk[f][s] <= BuiltIn[f][published']
    <3>1. disk[f][s] \in Int /\ BuiltIn[f][r] \in Int /\ BuiltIn[f][published] \in Int /\ BuiltIn[f][published'] \in Int
      BY <1>2, <1>3, <1>4, UpdaterTypes, UpdaterConstants, UpdaterNumbers
    <3>2. BuiltIn[f][published] <= BuiltIn[f][published']
      <4>1. published \in Releases /\ published' \in Releases /\ published <= published'
        BY <1>3, <1>4
      <4> QED
        BY <4>1, UpdaterConstants
    <3> QED
      BY <2>1, <3>1, <3>2 DEF Dated
  <2>3. Dated(r)'
    BY <1>1, <2>1, <2>2 DEF Dated
  <2> QED
    BY <2>3
<1> QED
  BY <1>5, <1>6, <1>7, <1>8, <1>9, <1>10, <1>11 DEF UInv
\* The parts of the invariant that speak of a package, once it is done with.
LEMMA Outside ==
  ASSUME pc' \notin Packing, pc' \notin {"dllOpen", "dllWrite", "dllCheck"}, told' \notin {"unchanged", "package"}
  PROVE  PkgInv' /\ LoadInv' /\ SwapInv' /\ ToldInv'
<1>1. pc' \notin Loading /\ pc' \notin Swapping /\ pc' \notin {"download", "receive", "swap", "swapIn", "failed"}
  BY DEF Packing, Loading, Swapping
<1> QED
  BY <1>1 DEF PkgInv, LoadInv, SwapInv, ToldInv

\* While kailleraInit is at work nothing was told yet.
LEMMA NothingTold ==
  ASSUME UInv, pc # "done", pc # "idle"
  PROVE  told # "unchanged" /\ told # "package" /\ version # 0 /\ version \in Releases
BY DEF UInv, Running, UTypeInv

\* The types of what a step of kailleraInit leaves alone.
LEMMA StillTyped ==
  ASSUME UTypeInv, disk' \in [Files -> [Slots -> Content]], pc' \in Places, undoFailed' \in BOOLEAN,
         at' \in Nat, at' > 0, steps' \in Seq([file : Files, old : OldSlots \cup {"none"}]),
         resume' \in {"check", "report"}, UNCHANGED <<version, pkg, want, published, before, kills>>
  PROVE  UTypeInv'
BY DEF UTypeInv

\* The same, where only the files change.
LEMMA PendingTypes ==
  ASSUME UTypeInv, disk' \in [Files -> [Slots -> Content]], pc' \in Places, undoFailed' \in BOOLEAN,
         UNCHANGED <<version, pkg, resume, want, at, steps, published, before, kills>>
  PROVE  UTypeInv'
BY DEF UTypeInv

\* No name gets an older file by a rename, by a removal or by a download.
LEMMA StillDated ==
  ASSUME UInv, UNCHANGED <<version, published>>,
         \A f \in Files, s \in Slots :
             \/ disk'[f][s] = None \/ disk'[f][s] = Part \/ \E t \in Slots : disk'[f][s] = disk[f][t]
             \/ version # 0 /\ version <= pkg /\ pkg <= published /\ disk'[f][s] = BuiltIn[f][pkg]
  PROVE  \E r \in Releases : Dated(r)'
<1>1. PICK r \in Releases : Dated(r)
  BY DEF UInv
<1>2. UTypeInv
  BY DEF UInv
<1>3. pkg \in Releases /\ published \in Releases /\ version \in Nat /\ pkg \in Int /\ published \in Int /\ r \in Int
  BY <1>2, UpdaterTypes, UpdaterNumbers DEF UTypeInv
<1>4. None = 0 /\ Part = -1 /\ None \notin Releases /\ Part \notin Releases
  BY UpdaterNumbers
<1>5. ASSUME NEW f \in Files, NEW s \in Slots
      PROVE  disk'[f][s] <= BuiltIn[f][r] \/ disk'[f][s] <= BuiltIn[f][published]
  <2>1. BuiltIn[f][r] \in Releases /\ BuiltIn[f][published] \in Releases /\ BuiltIn[f][pkg] \in Releases
    BY <1>3, UpdaterConstants
  <2>2. BuiltIn[f][r] \in Int /\ BuiltIn[f][published] \in Int /\ BuiltIn[f][pkg] \in Int /\ BuiltIn[f][r] > 0
    BY <2>1, UpdaterNumbers
  <2>3. CASE disk'[f][s] = None \/ disk'[f][s] = Part
    BY <1>4, <2>2, <2>3
  <2>4. CASE \E t \in Slots : disk'[f][s] = disk[f][t]
    BY <1>1, <2>4 DEF Dated
  <2>5. CASE pkg <= published /\ disk'[f][s] = BuiltIn[f][pkg]
    <3>1. \A q \in Releases, p \in Releases : q <= p => BuiltIn[f][q] <= BuiltIn[f][p]
      BY UpdaterConstants
    <3>2. BuiltIn[f][pkg] <= BuiltIn[f][published]
      BY <1>3, <2>5, <3>1
    <3> QED
      BY <2>2, <2>5, <3>2
  <2> QED
    BY <2>3, <2>4, <2>5
<1>6. ASSUME NEW s \in Slots, disk'[Self][s] \in Releases PROVE r <= disk'[Self][s]
  <2>1. Self \in Files
    BY UpdaterConstants
  <2>2. CASE \E t \in Slots : disk'[Self][s] = disk[Self][t]
    BY <1>1, <1>6, <2>2 DEF Dated
  <2>3. CASE version # 0 /\ version <= pkg /\ disk'[Self][s] = BuiltIn[Self][pkg]
    <3>1. BuiltIn[Self][pkg] = pkg
      BY <1>3, UpdaterConstants
    <3>2. r <= version
      BY <1>1, <2>3 DEF Dated
    <3> QED
      BY <1>3, <2>3, <3>1, <3>2
  <2> QED
    BY <1>4, <1>6, <2>1, <2>2, <2>3
<1>7. Dated(r)'
  <2>1. version' # 0 => r <= version'
    BY <1>1 DEF Dated
  <2>2. published' = published
    OBVIOUS
  <2> QED
    BY <1>5, <1>6, <2>1, <2>2 DEF Dated
<1> QED
  BY <1>7

\* The names of one file are three.
LEMMA Names ==
  /\ Self \in Files /\ FirstOld \in Slots /\ FirstOld \in OldSlots /\ "full" \in Slots /\ "new" \in Slots
  /\ "full" # FirstOld /\ "new" # FirstOld /\ "full" # "new" /\ OldSlots \subseteq Slots
  /\ "full" \notin OldSlots /\ "new" \notin OldSlots /\ "none" \notin OldSlots
  /\ None # Part /\ None \notin Releases /\ Part \notin Releases
  /\ None \in Content /\ Part \in Content /\ Releases \subseteq Content
<1>1. Self \in Files /\ FirstOld \in OldSlots /\ OldSlots \subseteq Slots
  BY UpdaterConstants
<1>2. "full" \notin OldSlots /\ "new" \notin OldSlots /\ "none" \notin OldSlots /\ "full" \in Slots /\ "new" \in Slots
  BY UpdaterConstants
<1>3. None # Part /\ None \notin Releases /\ Part \notin Releases
  BY UpdaterNumbers
<1> QED
  BY <1>1, <1>2, <1>3 DEF Content

\* Where a loop over the manifest goes on.
LEMMA NextWanted ==
  ASSUME NEW n \in Nat, n > 0, ToNextWanted(n), want' = want
  PROVE  /\ at' \in Nat /\ at' > 0 /\ (at' <= Len(Manifest) => Manifest[at'] \in want)
         /\ PassedBy(at - 1)' = PassedBy(n - 1)
<1>1. Len(Manifest) \in Nat
  BY UpdaterAssumption, LenProperties
<1>2. PICK m : m = at'
  OBVIOUS
<1>3. /\ m \in n .. Len(Manifest) + 1 /\ (m <= Len(Manifest) => Manifest[m] \in want)
      /\ \A j \in n .. m - 1 : Manifest[j] \notin want
  BY <1>2 DEF ToNextWanted
<1>4. m \in Nat /\ m > 0 /\ m >= n
  BY <1>1, <1>3
<1>5. PassedBy(at - 1)' = {f \in want : \E i \in 1 .. m - 1 : i <= Len(Manifest) /\ Manifest[i] = f}
  BY <1>2 DEF PassedBy
<1>6. ASSUME NEW f \in want, NEW i \in 1 .. m - 1, Manifest[i] = f PROVE i \in 1 .. n - 1
  <2>1. i \notin n .. m - 1
    BY <1>3, <1>6
  <2> QED
    BY <1>4, <2>1
<1>7. \A i \in 1 .. n - 1 : i \in 1 .. m - 1
  BY <1>4
<1> QED
  BY <1>2, <1>3, <1>4, <1>5, <1>6, <1>7 DEF PassedBy

\* The files passed by: none at first, one more past each file, and at the end all.
LEMMA Passing ==
  ASSUME UTypeInv
  PROVE  /\ PassedBy(0) = {}
         /\ at <= Len(Manifest) /\ Manifest[at] \in want =>
              /\ Manifest[at] \in Files /\ Manifest[at] \notin PassedBy(at - 1)
              /\ PassedBy(at) = PassedBy(at - 1) \cup {Manifest[at]}
         /\ at > Len(Manifest) => PassedBy(at - 1) = want
         /\ \A n \in Nat : PassedBy(n) \subseteq want
<1>1. at \in Nat /\ at > 0 /\ want \subseteq Files
  <2>1. at \in Nat /\ at > 0 /\ want \in SUBSET Files
    BY DEF UTypeInv
  <2> QED
    BY <2>1
<1>2. /\ Len(Manifest) \in Nat /\ DOMAIN Manifest = 1 .. Len(Manifest)
      /\ \A i \in 1 .. Len(Manifest) : Manifest[i] \in Files
  <2>1. Manifest \in Seq(Files)
    BY UpdaterAssumption
  <2> QED
    BY <2>1, LenProperties, ElementOfSeq
<1>3. \A i \in 1 .. Len(Manifest), j \in 1 .. Len(Manifest) : Manifest[i] = Manifest[j] => i = j
  <2>1. IsInjective(Manifest)
    BY UpdaterAssumption
  <2> QED
    BY <1>2, <2>1 DEF IsInjective
<1>4. PassedBy(0) = {}
  BY DEF PassedBy
<1>5. ASSUME at <= Len(Manifest), Manifest[at] \in want
      PROVE  /\ Manifest[at] \in Files /\ Manifest[at] \notin PassedBy(at - 1)
             /\ PassedBy(at) = PassedBy(at - 1) \cup {Manifest[at]}
  <2>1. at \in 1 .. Len(Manifest) /\ at \notin 1 .. at - 1 /\ 1 .. at = (1 .. at - 1) \cup {at}
    BY <1>1, <1>2, <1>5
  <2>2. Manifest[at] \notin PassedBy(at - 1)
    <3> SUFFICES ASSUME NEW i \in 1 .. at - 1, i <= Len(Manifest), Manifest[i] = Manifest[at] PROVE FALSE
      BY DEF PassedBy
    <3>1. i \in 1 .. Len(Manifest)
      BY <1>1, <1>2
    <3> QED
      BY <1>3, <2>1, <3>1
  <2> QED
    BY <1>2, <1>5, <2>1, <2>2 DEF PassedBy
<1>6. ASSUME at > Len(Manifest) PROVE PassedBy(at - 1) = want
  <2>1. 1 .. Len(Manifest) \subseteq 1 .. at - 1
    BY <1>1, <1>2, <1>6
  <2>2. \A f \in want : \E i \in 1 .. Len(Manifest) : Manifest[i] = f
    <3>1. ToSet(Manifest) = Files
      BY UpdaterAssumption
    <3> QED
      BY <1>1, <1>2, <3>1 DEF ToSet
  <2>3. \A i \in 1 .. Len(Manifest) : i <= Len(Manifest)
    BY <1>2
  <2> QED
    BY <2>1, <2>2, <2>3 DEF PassedBy
<1> QED
  BY <1>4, <1>5, <1>6 DEF PassedBy
-----------------------------------------------------------------------------
\* SwapInPendingUpdate.

\* The old name is cleared.
LEMMA PendingClearStep == ASSUME UInv, PendingClear PROVE UInv'
<1>1. /\ pc = "pending"
      /\ UNCHANGED <<held, version, pkg, resume, want, at, steps, told, published, before, kills, undoFailed>>
      /\ \/ pc' = resume /\ disk' = disk /\ disk[Self]["new"] = None
         \/ pc' = "pendingAside" /\ disk[Self]["new"] # None /\ disk' = disk
         \/ pc' = "pendingAside" /\ disk[Self]["new"] # None /\ Delete({<<Self, FirstOld>>} \cap OldFiles)
  BY DEF PendingClear, Goto, envVars
<1>2. UTypeInv
  BY DEF UInv
<1>3. told' # "unchanged" /\ told' # "package" /\ version # 0
  BY <1>1, NothingTold
<1>4. /\ disk' \in [Files -> [Slots -> Content]]
      /\ \A f \in Files, s \in Slots : disk'[f][s] = disk[f][s] \/ disk'[f][s] = None
      /\ \A f \in Files : disk'[f]["full"] = disk[f]["full"] /\ disk'[f]["new"] = disk[f]["new"]
  <2>1. CASE disk' = disk
    BY <2>1, <1>2 DEF UTypeInv
  <2>2. CASE Delete({<<Self, FirstOld>>} \cap OldFiles)
    <3>1. disk' = [f \in Files |-> [s \in Slots |-> IF <<f, s>> \in {<<Self, FirstOld>>} \cap OldFiles THEN None ELSE disk[f][s]]]
      BY <2>2 DEF Delete
    <3>2. disk \in [Files -> [Slots -> Content]]
      BY <1>2 DEF UTypeInv
    <3> QED
      BY <3>1, <3>2, Names
  <2> QED
    BY <1>1, <2>1, <2>2
<1>5. pc' \in Places /\ pc' \in {"check", "report", "pendingAside"} /\ (pc' = "check" => resume = "check")
  BY <1>1, <1>2 DEF UTypeInv, Places
<1>6. UTypeInv'
  <2>1. undoFailed' \in BOOLEAN
    BY <1>1, <1>2, Zenon DEF UTypeInv
  <2> QED
    BY <1>1, <1>2, <1>4, <1>5, <2>1, PendingTypes
<1>7. PkgInv' /\ LoadInv' /\ SwapInv' /\ ToldInv'
  BY <1>3, <1>5, Outside DEF Packing, Loading, Swapping, Undoing
<1>8. Running'
  BY <1>1, <1>3, <1>5 DEF UInv, Running
<1>9. \A f \in Files : Full(f)' = Full(f) /\ New(f)' = New(f)
  BY <1>4 DEF Full, New
<1>10. Newer'
  BY <1>1, <1>5, <1>9, Names DEF UInv, Newer, Aside
<1>11. WholeInv'
  <2>1. ASSUME kills = 0
        PROVE  /\ \A f \in Files : Full(f)' # Part /\ \A s \in OldSlots : disk'[f][s] # Part
               /\ \A f \in Files : New(f)' # Part
    <3>1. \A f \in Files : Full(f) # Part /\ New(f) # Part /\ \A s \in OldSlots : disk[f][s] # Part
      BY <1>1, <2>1 DEF UInv, WholeInv
    <3> QED
      BY <1>4, <1>9, <3>1, Names
  <2>2. pc' = "pendingAside" \/ (pc' = resume /\ New(Self) = None)
    BY <1>1 DEF New
  <2> QED
    BY <1>1, <1>5, <1>9, <2>1, <2>2, Names DEF UInv, WholeInv, Aside
<1>12. \E r \in Releases : Dated(r)'
  <2>1. version' = version /\ published' = published
    BY <1>1
  <2> QED
    BY <1>4, <2>1, StillDated
<1> QED
  BY <1>6, <1>7, <1>8, <1>10, <1>11, <1>12 DEF UInv

\* What a rename of the DLL leaves: the types, the dates and the package.
LEMMA PendingMove ==
  ASSUME UInv, NEW from \in Slots, NEW to \in Slots, from # to, NEW done \in BOOLEAN,
         TryMove(Self, from, to, TRUE, done),
         pc # "done", pc # "idle", pc' \in {"check", "report", "reportSwapped", "pendingIn", "pendingBack"},
         pc' = "check" => resume = "check", undoFailed' \in BOOLEAN,
         UNCHANGED <<version, pkg, resume, want, at, steps, told, published, before, kills>>
  PROVE  /\ UTypeInv' /\ Running' /\ PkgInv' /\ LoadInv' /\ SwapInv' /\ ToldInv'
         /\ \E r \in Releases : Dated(r)'
         /\ done => /\ disk[Self][from] # None /\ disk'[Self][to] = disk[Self][from] /\ disk'[Self][from] = None
                    /\ \A s \in Slots : s # to /\ s # from => disk'[Self][s] = disk[Self][s]
                    /\ \A g \in Files, s \in Slots : g # Self => disk'[g][s] = disk[g][s]
         /\ ~done => disk' = disk
<1>1. UTypeInv /\ Self \in Files
  BY UpdaterConstants DEF UInv
<1>2. told' # "unchanged" /\ told' # "package" /\ version # 0
  BY NothingTold
<1>3. /\ disk' \in [Files -> [Slots -> Content]]
      /\ done => /\ disk[Self][from] # None /\ disk'[Self][to] = disk[Self][from] /\ disk'[Self][from] = None
                 /\ \A s \in Slots : s # to /\ s # from => disk'[Self][s] = disk[Self][s]
                 /\ \A g \in Files, s \in Slots : g # Self => disk'[g][s] = disk[g][s]
      /\ ~done => disk' = disk
  <2>1. PICK replace \in BOOLEAN : TryMove(Self, from, to, replace, done)
    OBVIOUS
  <2> QED
    BY <1>1, <2>1, TryMoveAt
<1>4. UTypeInv'
  <2>1. pc' \in Places
    BY DEF Places, Aside
  <2> QED
    BY <1>1, <1>3, <2>1, PendingTypes
<1>5. PkgInv' /\ LoadInv' /\ SwapInv' /\ ToldInv'
  BY <1>2, Outside DEF Packing, Loading, Swapping, Undoing
<1>6. Running'
  <2>1. told' \notin {"unchanged", "package"} /\ version' # 0 /\ pc' # "idle" /\ (pc' = "check" => resume' = "check")
    BY <1>2
  <2> QED
    BY <2>1 DEF Running
<1>7. \E r \in Releases : Dated(r)'
  <2>1. ASSUME NEW f \in Files, NEW s \in Slots
        PROVE  disk'[f][s] = None \/ \E t \in Slots : disk'[f][s] = disk[f][t]
    BY <1>3
  <2>2. version' = version /\ published' = published
    OBVIOUS
  <2> QED
    BY <2>1, <2>2, StillDated
<1> QED
  BY <1>3, <1>4, <1>5, <1>6, <1>7

\* As long as no process was killed, a rename of the DLL leaves no part of a file.
LEMMA PendingWhole ==
  ASSUME UInv, NEW from \in Slots, NEW to \in Slots, from # to, kills = 0,
         pc \in {"pendingAside", "pendingIn", "pendingBack"},
         \/ disk' = disk
         \/ /\ disk'[Self][to] = disk[Self][from] /\ disk'[Self][from] = None
            /\ \A s \in Slots : s # to /\ s # from => disk'[Self][s] = disk[Self][s]
            /\ \A g \in Files, s \in Slots : g # Self => disk'[g][s] = disk[g][s]
  PROVE  /\ \A f \in Files : Full(f)' # Part /\ \A s \in OldSlots : disk'[f][s] # Part
         /\ \A f \in Files : New(f)' # Part
<1>1. ASSUME NEW f \in Files, NEW s \in Slots PROVE disk[f][s] # Part
  <2>1. Full(f) # Part /\ New(f) # Part /\ \A t \in OldSlots : disk[f][t] # Part
    BY DEF UInv, WholeInv
  <2>2. s = "full" \/ s = "new" \/ s \in OldSlots
    BY UpdaterConstants
  <2> QED
    BY <2>1, <2>2 DEF Full, New
<1>2. Self \in Files /\ None # Part
  BY Names
<1>3. ASSUME NEW f \in Files, NEW s \in Slots PROVE disk'[f][s] # Part
  BY <1>1, <1>2
<1> QED
  BY <1>3, Names DEF Full, New

\* The installed DLL goes aside.
LEMMA PendingAsideStep == ASSUME UInv, PendingAside PROVE UInv'
<1>1. PICK done \in BOOLEAN : TryMove(Self, "full", FirstOld, TRUE, done) /\ pc' = IF done THEN "pendingIn" ELSE resume
  BY DEF PendingAside, Goto
<1>2. /\ pc = "pendingAside"
      /\ UNCHANGED <<version, pkg, resume, want, at, steps, told, published, before, kills, undoFailed>>
  BY DEF PendingAside, envVars
<1>3. resume \in {"check", "report"} /\ undoFailed' \in BOOLEAN
  <2>1. UTypeInv
    BY DEF UInv
  <2> QED
    BY <1>2, <2>1, Zenon DEF UTypeInv
<1>4. /\ pc' \in {"check", "report", "reportSwapped", "pendingIn", "pendingBack"} /\ (pc' = "check" => resume = "check")
      /\ (done => pc' = "pendingIn") /\ (~done => pc' = resume)
  BY <1>1, <1>3
<1>5. /\ UTypeInv' /\ Running' /\ PkgInv' /\ LoadInv' /\ SwapInv' /\ ToldInv'
      /\ \E r \in Releases : Dated(r)'
      /\ done => /\ disk[Self]["full"] # None /\ disk'[Self][FirstOld] = disk[Self]["full"] /\ disk'[Self]["full"] = None
                 /\ \A s \in Slots : s # FirstOld /\ s # "full" => disk'[Self][s] = disk[Self][s]
                 /\ \A g \in Files, s \in Slots : g # Self => disk'[g][s] = disk[g][s]
      /\ ~done => disk' = disk
  <2>1. TryMove(Self, "full", FirstOld, TRUE, done) /\ "full" \in Slots /\ FirstOld \in Slots /\ "full" # FirstOld
    BY <1>1, Names
  <2>2. pc # "done" /\ pc # "idle"
    BY <1>2
  <2> QED
    BY <1>2, <1>3, <1>4, <2>1, <2>2, PendingMove
<1>6. kills = 0 => /\ \A f \in Files : Full(f)' # Part /\ \A s \in OldSlots : disk'[f][s] # Part
                   /\ \A f \in Files : New(f)' # Part
  <2>1. "full" \in Slots /\ FirstOld \in Slots /\ "full" # FirstOld
    BY Names
  <2> QED
    BY <1>2, <1>5, <2>1, PendingWhole
<1>7. CASE ~done
  <2>1. pc' \in {"check", "report"} /\ disk' = disk
    BY <1>3, <1>4, <1>5, <1>7
  <2>2. Newer'
    BY <1>2, <2>1 DEF UInv, Newer, Full, New, Aside
  <2>3. WholeInv'
    BY <1>2, <1>4, <1>6, <2>1 DEF UInv, WholeInv, Full, New, Aside
  <2> QED
    BY <1>5, <2>2, <2>3 DEF UInv
<1>8. CASE done
  <2>1. New(Self)' = New(Self) /\ Full(Self)' = None /\ Old' = Full(Self) /\ pc' = "pendingIn"
    BY <1>4, <1>5, <1>8, Names DEF New, Full, Old
  <2>2. Newer'
    <3>1. None \notin Releases /\ version # 0 /\ pc' \in Aside
      BY <1>2, <2>1, Names, NothingTold DEF Aside
    <3>2. New(Self) \in Releases =>
            New(Self) <= published /\ version <= New(Self) /\ (Full(Self) \in Releases => Full(Self) <= New(Self))
      BY <3>1 DEF UInv, Newer
    <3>3. Full(Self) \in Releases => version <= Full(Self)
      BY <3>1 DEF UInv, Newer
    <3> QED
      BY <1>2, <2>1, <3>1, <3>2, <3>3 DEF Newer
  <2>3. WholeInv'
    <3>1. kills = 0 /\ resume = "check" /\ ~undoFailed =>
            /\ New(Self) # None => New(Self) = version \/ version < published
            /\ Full(Self) = version \/ version < published
      BY <1>2 DEF UInv, WholeInv
    <3>2. pc' \notin {"pending", "check", "pendingAside"} /\ pc' \in Aside
      BY <2>1 DEF Aside
    <3> QED
      BY <1>2, <1>6, <2>1, <3>1, <3>2 DEF WholeInv
  <2> QED
    BY <1>5, <2>2, <2>3 DEF UInv
<1> QED
  BY <1>7, <1>8

\* The new one takes its place.
LEMMA PendingInStep == ASSUME UInv, PendingIn PROVE UInv'
<1>1. PICK done \in BOOLEAN : /\ TryMove(Self, "new", "full", TRUE, done)
                              /\ pc' = IF done THEN IF resume = "report" THEN "reportSwapped" ELSE resume ELSE "pendingBack"
  BY DEF PendingIn, Goto
<1>2. /\ pc = "pendingIn"
      /\ UNCHANGED <<version, pkg, resume, want, at, steps, told, published, before, kills, undoFailed>>
  BY DEF PendingIn, envVars
<1>3. resume \in {"check", "report"} /\ undoFailed' \in BOOLEAN
  <2>1. UTypeInv
    BY DEF UInv
  <2> QED
    BY <1>2, <2>1, Zenon DEF UTypeInv
<1>4. /\ pc' \in {"check", "report", "reportSwapped", "pendingIn", "pendingBack"} /\ (pc' = "check" => resume = "check")
      /\ (done => pc' \in {"check", "reportSwapped"}) /\ (~done => pc' = "pendingBack")
  BY <1>1, <1>3
<1>5. /\ UTypeInv' /\ Running' /\ PkgInv' /\ LoadInv' /\ SwapInv' /\ ToldInv'
      /\ \E r \in Releases : Dated(r)'
      /\ done => /\ disk[Self]["new"] # None /\ disk'[Self]["full"] = disk[Self]["new"] /\ disk'[Self]["new"] = None
                 /\ \A s \in Slots : s # "full" /\ s # "new" => disk'[Self][s] = disk[Self][s]
                 /\ \A g \in Files, s \in Slots : g # Self => disk'[g][s] = disk[g][s]
      /\ ~done => disk' = disk
  <2>1. TryMove(Self, "new", "full", TRUE, done) /\ "full" \in Slots /\ "new" \in Slots /\ "new" # "full"
    BY <1>1, Names
  <2>2. pc # "done" /\ pc # "idle"
    BY <1>2
  <2> QED
    BY <1>2, <1>3, <1>4, <2>1, <2>2, PendingMove
<1>6. kills = 0 => /\ \A f \in Files : Full(f)' # Part /\ \A s \in OldSlots : disk'[f][s] # Part
                   /\ \A f \in Files : New(f)' # Part
  <2>1. "full" \in Slots /\ "new" \in Slots /\ "new" # "full"
    BY Names
  <2> QED
    BY <1>2, <1>5, <2>1, PendingWhole
<1>7. CASE ~done
  <2>1. pc' = "pendingBack" /\ disk' = disk
    BY <1>4, <1>5, <1>7
  <2>2. Newer'
    BY <1>2, <2>1 DEF UInv, Newer, Full, New, Old, Aside
  <2>3. WholeInv'
    BY <1>2, <1>6, <2>1 DEF UInv, WholeInv, Full, New, Old, Aside
  <2> QED
    BY <1>5, <2>2, <2>3 DEF UInv
<1>8. CASE done
  <2>1. /\ New(Self)' = None /\ Full(Self)' = New(Self) /\ New(Self) # None /\ pc' \in {"check", "reportSwapped"}
    BY <1>4, <1>5, <1>8 DEF New, Full
  <2>2. Newer'
    <3>1. None \notin Releases /\ version # 0 /\ pc' \notin Aside
      BY <1>2, <2>1, Names, NothingTold DEF Aside
    <3>2. New(Self) \in Releases => version <= New(Self)
      BY <3>1 DEF UInv, Newer
    <3> QED
      BY <1>2, <2>1, <3>1, <3>2 DEF Newer
  <2>3. WholeInv'
    <3>1. kills = 0 /\ resume = "check" /\ ~undoFailed => (New(Self) # None => New(Self) = version \/ version < published)
      BY <1>2 DEF UInv, WholeInv, Aside
    <3>2. pc' \notin {"pending", "pendingAside"} /\ pc' \notin Aside
      BY <2>1 DEF Aside
    <3> QED
      BY <1>2, <1>6, <2>1, <3>1, <3>2 DEF WholeInv
  <2> QED
    BY <1>5, <2>2, <2>3 DEF UInv
<1> QED
  BY <1>7, <1>8

\* The old one comes back.
LEMMA PendingBackStep == ASSUME UInv, PendingBack PROVE UInv'
<1>1. PICK done \in BOOLEAN : /\ TryMove(Self, FirstOld, "full", TRUE, done)
                              /\ undoFailed' = (undoFailed \/ ~done)
  BY DEF PendingBack
<1>2. /\ pc = "pendingBack" /\ pc' = resume
      /\ UNCHANGED <<version, pkg, resume, want, at, steps, told, published, before, kills>>
  BY DEF PendingBack, envVars, Goto
<1>3. resume \in {"check", "report"} /\ undoFailed' \in BOOLEAN
  <2>1. UTypeInv
    BY DEF UInv
  <2>2. undoFailed' \in BOOLEAN
    BY <1>1
  <2> QED
    BY <2>1, <2>2, Zenon DEF UTypeInv
<1>4. pc' \in {"check", "report", "reportSwapped", "pendingIn", "pendingBack"} /\ pc' \in {"check", "report"}
  BY <1>2, <1>3
<1>5. /\ UTypeInv' /\ Running' /\ PkgInv' /\ LoadInv' /\ SwapInv' /\ ToldInv'
      /\ \E r \in Releases : Dated(r)'
      /\ done => /\ disk[Self][FirstOld] # None /\ disk'[Self]["full"] = disk[Self][FirstOld] /\ disk'[Self][FirstOld] = None
                 /\ \A s \in Slots : s # "full" /\ s # FirstOld => disk'[Self][s] = disk[Self][s]
                 /\ \A g \in Files, s \in Slots : g # Self => disk'[g][s] = disk[g][s]
      /\ ~done => disk' = disk
  <2>1. TryMove(Self, FirstOld, "full", TRUE, done) /\ "full" \in Slots /\ FirstOld \in Slots /\ FirstOld # "full"
    BY <1>1, Names
  <2>2. pc # "done" /\ pc # "idle" /\ (pc' = "check" => resume = "check")
    BY <1>2
  <2> QED
    BY <1>2, <1>3, <1>4, <2>1, <2>2, PendingMove
<1>6. kills = 0 => /\ \A f \in Files : Full(f)' # Part /\ \A s \in OldSlots : disk'[f][s] # Part
                   /\ \A f \in Files : New(f)' # Part
  <2>1. "full" \in Slots /\ FirstOld \in Slots /\ FirstOld # "full"
    BY Names
  <2> QED
    BY <1>2, <1>5, <2>1, PendingWhole
<1>7. pc' \notin Aside /\ pc' \notin {"pending", "pendingAside"} /\ pc \in Aside
  BY <1>2, <1>4 DEF Aside
<1>8. CASE ~done
  <2>1. disk' = disk
    BY <1>5, <1>8
  <2>2. Newer'
    BY <1>2, <1>7, <2>1 DEF UInv, Newer, Full, New
  <2>3. undoFailed'
    BY <1>1, <1>8
  <2>4. WholeInv'
    BY <1>2, <1>6, <2>3 DEF WholeInv
  <2> QED
    BY <1>5, <2>2, <2>4 DEF UInv
<1>9. CASE done
  <2>1. New(Self)' = New(Self) /\ Full(Self)' = Old
    BY <1>5, <1>9, Names DEF New, Full, Old
  <2>2. Newer'
    <3>1. version # 0
      BY <1>2, NothingTold
    <3>2. /\ New(Self) \in Releases => New(Self) <= published /\ version <= New(Self) /\ (Old \in Releases => Old <= New(Self))
          /\ Old \in Releases => version <= Old
      BY <1>7, <3>1 DEF UInv, Newer
    <3> QED
      BY <1>2, <1>7, <2>1, <3>1, <3>2 DEF Newer
  <2>3. WholeInv'
    <3>1. undoFailed' => undoFailed' /\ (undoFailed => undoFailed')
      OBVIOUS
    <3>2. ~undoFailed' => ~undoFailed
      BY <1>1
    <3>3. kills = 0 /\ resume = "check" /\ ~undoFailed => Old = version \/ version < published
      BY <1>7 DEF UInv, WholeInv
    <3> QED
      BY <1>2, <1>6, <1>7, <2>1, <3>2, <3>3 DEF WholeInv
  <2> QED
    BY <1>5, <2>2, <2>3 DEF UInv
<1> QED
  BY <1>8, <1>9
-----------------------------------------------------------------------------
\* The check of the package.

\* What a release of the site that is not older than the running one may replace.
LEMMA SiteNotOlder ==
  ASSUME UInv, version # 0, version <= published
  PROVE  /\ \A f \in Files : Full(f) <= BuiltIn[f][published]
         /\ Full(Self) <= published
         /\ Full(Self) \in Releases => version <= Full(Self)
<1>1. PICK r \in Releases : Dated(r)
  BY DEF UInv
<1>2. UTypeInv
  BY DEF UInv
<1>3. published \in Releases /\ version \in Nat /\ r \in Int /\ published \in Int /\ Self \in Files /\ "full" \in Slots
  BY <1>2, UpdaterTypes, UpdaterNumbers, Names DEF UTypeInv
<1>4. r <= published
  <2>1. r <= version
    BY <1>1 DEF Dated
  <2> QED
    BY <1>3, <2>1
<1>5. ASSUME NEW f \in Files PROVE Full(f) <= BuiltIn[f][published]
  <2>1. Full(f) <= BuiltIn[f][r] \/ Full(f) <= BuiltIn[f][published]
    BY <1>1, <1>3 DEF Dated, Full
  <2>2. BuiltIn[f][r] <= BuiltIn[f][published]
    <3>1. \A q \in Releases, p \in Releases : q <= p => BuiltIn[f][q] <= BuiltIn[f][p]
      BY UpdaterConstants
    <3> QED
      BY <1>3, <1>4, <3>1
  <2>3. BuiltIn[f][r] \in Int /\ BuiltIn[f][published] \in Int
    <3>1. BuiltIn[f][r] \in Releases /\ BuiltIn[f][published] \in Releases
      BY <1>3, UpdaterConstants
    <3> QED
      BY <3>1, UpdaterNumbers
  <2>4. Full(f) \in Int
    BY <1>2, UpdaterTypes
  <2> QED
    BY <2>1, <2>2, <2>3, <2>4
<1>6. Full(Self) <= published
  <2>1. BuiltIn[Self][published] = published
    BY <1>3, UpdaterConstants
  <2> QED
    BY <1>3, <1>5, <2>1
<1>7. Full(Self) \in Releases => version <= Full(Self)
  BY DEF UInv, Newer
<1> QED
  BY <1>5, <1>6, <1>7

\* Cmp is not negative: the site's release is not older than the running one.
LEMMA CmpMeans ==
  ASSUME UTypeInv, version # 0, pkg' = published
  PROVE  /\ Cmp >= 0 => version <= published
         /\ Cmp > 0 => version <= published
         /\ Cmp = 0 => version = published
<1>1. version \in Releases /\ published \in Releases
  BY DEF UTypeInv
<1>2. Cmp = CompareVersions(Tags[published], Tags[version])
  BY DEF Cmp
<1> QED
  BY <1>1, <1>2, CompareReleases

\* The manifest is compared with the files: what is installed is remembered, and only old files go.
LEMMA CheckPackageStep == ASSUME UInv, CheckPackage PROVE UInv'
<1>1. /\ pc = "check" /\ pkg' = published /\ before' = [f \in Files |-> Full(f)]
      /\ UNCHANGED <<version, resume, at, steps, told, published, kills, undoFailed>>
      /\ \/ pc' = "dllCheck" /\ UNCHANGED <<disk, want>>
         \/ /\ Cmp >= 0
            /\ want' = {f \in Files : Full(f) # BuiltIn[f][published] /\ ~(Cmp = 0 /\ f = Self)}
            /\ Delete(OldFiles) /\ pc' \in {"dllCheck", "ask"}
  BY DEF CheckPackage, Goto, faultVars, PackageFile, Full
<1>2. UTypeInv
  BY DEF UInv
<1>3. /\ told # "unchanged" /\ told # "package" /\ version # 0 /\ version \in Nat
      /\ published \in Releases /\ published \in Int /\ resume = "check"
  <2>1. resume = "check"
    BY <1>1 DEF UInv, Running
  <2> QED
    BY <1>1, <1>2, <2>1, NothingTold, UpdaterTypes DEF UTypeInv
<1>4. /\ disk' \in [Files -> [Slots -> Content]]
      /\ \A f \in Files, s \in Slots : disk'[f][s] = disk[f][s] \/ disk'[f][s] = None
      /\ \A f \in Files : disk'[f]["full"] = disk[f]["full"] /\ disk'[f]["new"] = disk[f]["new"]
  <2>1. CASE disk' = disk
    BY <2>1, <1>2 DEF UTypeInv
  <2>2. CASE Delete(OldFiles)
    <3>1. disk' = [f \in Files |-> [s \in Slots |-> IF <<f, s>> \in OldFiles THEN None ELSE disk[f][s]]]
      BY <2>2 DEF Delete
    <3>2. \A f \in Files : <<f, "full">> \notin OldFiles /\ <<f, "new">> \notin OldFiles
      BY Names DEF OldFiles
    <3>3. disk \in [Files -> [Slots -> Content]]
      BY <1>2 DEF UTypeInv
    <3> QED
      BY <3>1, <3>2, <3>3, Names
  <2> QED
    BY <1>1, <2>1, <2>2
<1>5. \A f \in Files : Full(f)' = Full(f) /\ New(f)' = New(f) /\ before'[f] = Full(f)
  BY <1>1, <1>4 DEF Full, New
<1>6. pc' \in {"dllCheck", "ask"} /\ pc' \in Places /\ pc' \notin Aside /\ pc' # "check" /\ pc' # "idle"
  BY <1>1 DEF Places, Packing, Loading, Aside
<1>7. UTypeInv'
  <2>1. before' \in [Files -> Content]
    <3>1. \A f \in Files : Full(f) \in Content
      BY <1>2, UpdaterTypes
    <3> QED
      BY <1>1, <3>1
  <2>2. want' \in SUBSET Files
    <3>1. want \in SUBSET Files
      BY <1>2 DEF UTypeInv
    <3> QED
      BY <1>1, <3>1
  <2>3. undoFailed' \in BOOLEAN
    BY <1>1, <1>2, Zenon DEF UTypeInv
  <2>4. /\ version' \in Releases \cup {0} /\ pkg' \in Releases /\ published' \in Releases /\ resume' \in {"check", "report"}
        /\ at' \in Nat /\ at' > 0 /\ steps' \in Seq([file : Files, old : OldSlots \cup {"none"}]) /\ kills' \in Nat
    BY <1>1, <1>2 DEF UTypeInv
  <2> QED
    BY <1>4, <1>6, <2>1, <2>2, <2>3, <2>4 DEF UTypeInv
<1>8. Running'
  BY <1>1, <1>3, <1>6 DEF Running
<1>9. Newer'
  BY <1>1, <1>5, <1>6, Names DEF UInv, Newer
<1>10. \E r \in Releases : Dated(r)'
  <2>1. version' = version /\ published' = published
    BY <1>1
  <2> QED
    BY <1>4, <2>1, StillDated
<1>11. WholeInv'
  <2>1. ASSUME kills = 0
        PROVE  /\ \A f \in Files : Full(f)' # Part /\ \A s \in OldSlots : disk'[f][s] # Part
               /\ \A f \in Files : New(f)' # Part
    <3>1. \A f \in Files : Full(f) # Part /\ New(f) # Part /\ \A s \in OldSlots : disk[f][s] # Part
      BY <1>1, <2>1 DEF UInv, WholeInv
    <3> QED
      BY <1>4, <1>5, <3>1, Names
  <2>2. pc' \notin {"pending", "check", "pendingAside"}
    BY <1>6
  <2> QED
    BY <1>1, <1>6, <2>1, <2>2 DEF WholeInv
<1>12. LoadInv'
  BY <1>5, <1>6 DEF LoadInv
<1>13. SwapInv' /\ ToldInv'
  BY <1>1, <1>3, <1>6 DEF SwapInv, Swapping, Undoing, ToldInv
<1>14. PkgInv'
  <2>1. CASE pc' = "dllCheck"
    BY <2>1 DEF PkgInv, Packing, Loading, Swapping, Undoing
  <2>2. CASE pc' = "ask"
    <3>1. /\ Cmp >= 0
          /\ want' = {f \in Files : Full(f) # BuiltIn[f][published] /\ ~(Cmp = 0 /\ f = Self)}
      BY <1>1, <2>2
    <3>2. version <= published
      BY <1>1, <1>2, <1>3, <3>1, CmpMeans
    <3>3. /\ \A f \in Files : Full(f) <= BuiltIn[f][published]
          /\ Full(Self) <= published
          /\ Full(Self) \in Releases => version <= Full(Self)
      BY <1>3, <3>2, SiteNotOlder
    <3>4. ASSUME kills = 0, ~undoFailed, NEW f \in Files \ want' PROVE Full(f) = BuiltIn[f][published]
      <4>1. CASE Cmp = 0 /\ f = Self
        <5>1. version = published
          BY <1>1, <1>2, <1>3, <4>1, CmpMeans
        <5>2. Full(Self) = version
          <6>1. Full(Self) = version \/ version < published
            BY <1>1, <1>3, <3>4 DEF UInv, WholeInv
          <6> QED
            BY <1>3, <5>1, <6>1
        <5>3. BuiltIn[Self][published] = published
          BY <1>3, UpdaterConstants
        <5> QED
          BY <4>1, <5>1, <5>2, <5>3
      <4>2. CASE ~(Cmp = 0 /\ f = Self)
        BY <3>1, <4>2
      <4> QED
        BY <4>1, <4>2
    <3>5. version' <= pkg' /\ pkg' <= published' /\ Full(Self)' <= pkg'
      <4>1. Full(Self)' = Full(Self)
        BY <1>5, Names
      <4>2. published <= published
        BY <1>3
      <4> QED
        BY <1>1, <3>2, <3>3, <4>1, <4>2
    <3>6. /\ \A f \in Files : before'[f] <= BuiltIn[f][pkg']
          /\ before'[Self] \in Releases => version' <= before'[Self]
          /\ \A f \in Files \ want' : Full(f)' = before'[f]
      BY <1>1, <1>5, <3>3, Names
    <3>7. kills' = 0 /\ ~undoFailed' => \A f \in Files \ want' : Full(f)' = BuiltIn[f][pkg']
      <4>1. kills' = kills /\ pkg' = published
        BY <1>1
      <4>2. ~undoFailed' => ~undoFailed
        BY <1>1
      <4> QED
        BY <1>5, <3>4, <4>1, <4>2
    <3> QED
      BY <3>5, <3>6, <3>7 DEF PkgInv
  <2> QED
    BY <1>6, <2>1, <2>2
<1> QED
  BY <1>7, <1>8, <1>9, <1>10, <1>11, <1>12, <1>13, <1>14 DEF UInv

\* The version line is read: the DLL on the site may be newer.
LEMMA DllCheckStep == ASSUME UInv, DllCheck PROVE UInv'
<1>1. /\ pc = "dllCheck" /\ pkg' = published
      /\ UNCHANGED <<disk, version, resume, want, at, steps, published, before, kills, undoFailed>>
      /\ \/ pc' = "done" /\ told' = told
         \/ pc' = "dllOpen" /\ Cmp > 0 /\ told' = told
         \/ pc' = "done" /\ told' = "unchanged"
  BY DEF DllCheck, Goto, diskVars, envVars, faultVars
<1>2. UTypeInv
  BY DEF UInv
<1>3. told # "unchanged" /\ told # "package" /\ version # 0 /\ published \in Releases
  BY <1>1, <1>2, NothingTold DEF UTypeInv
<1>4. pc' \in {"done", "dllOpen"} /\ pc' \in Places /\ pc' \notin Aside /\ pc' \notin Packing /\ pc' # "check" /\ pc' # "idle"
  BY <1>1 DEF Places, Packing, Loading, Swapping, Undoing, Aside
<1>5. UTypeInv'
  BY <1>1, <1>2, <1>3, <1>4 DEF UTypeInv
<1>6. Running'
  BY <1>1, <1>3, <1>4 DEF Running
<1>7. Newer'
  BY <1>1, <1>4 DEF UInv, Newer, Full, New
<1>8. \E r \in Releases : Dated(r)'
  BY <1>1 DEF UInv, Dated
<1>9. WholeInv'
  <2>1. kills = 0 => \A f \in Files : Full(f) # Part /\ New(f) # Part /\ \A s \in OldSlots : disk[f][s] # Part
    BY <1>1 DEF UInv, WholeInv
  <2> QED
    BY <1>1, <1>4, <2>1 DEF WholeInv, Full, New
<1>10. LoadInv' /\ SwapInv'
  BY <1>4 DEF LoadInv, SwapInv, Packing, Loading, Swapping
<1>11. ToldInv'
  <2>1. \A f \in Files : Full(f)' = Full(f) /\ before'[f] = before[f] /\ Full(f) = before[f]
    BY <1>1 DEF UInv, LoadInv, Full
  <2> QED
    BY <1>1, <1>3, <2>1 DEF ToldInv
<1>12. PkgInv'
  <2>1. ASSUME pc' = "dllOpen" PROVE version' <= pkg' /\ pkg' <= published' /\ Full(Self)' <= pkg'
    <3>1. version <= published
      BY <1>1, <1>2, <1>3, <2>1, CmpMeans
    <3>2. Full(Self) <= published
      BY <1>3, <3>1, SiteNotOlder
    <3>3. published <= published
      BY <1>3, UpdaterNumbers
    <3> QED
      BY <1>1, <3>1, <3>2, <3>3 DEF Full
  <2> QED
    BY <1>4, <2>1 DEF PkgInv
<1> QED
  BY <1>5, <1>6, <1>7, <1>8, <1>9, <1>10, <1>11, <1>12 DEF UInv
-----------------------------------------------------------------------------
\* The download.

\* A package that is being loaded stays one as long as nothing is installed.
LEMMA PackageKept ==
  ASSUME UInv, pc \in Packing, \A f \in Files : Full(f)' = Full(f),
         UNCHANGED <<version, pkg, want, published, before, kills, undoFailed>>
  PROVE  PkgInv'
<1>1. Full(Self)' = Full(Self) /\ want \subseteq Files
  BY Names DEF UInv, UTypeInv
<1>2. /\ version <= pkg /\ pkg <= published /\ Full(Self) <= pkg
      /\ \A f \in Files : before[f] <= BuiltIn[f][pkg]
      /\ before[Self] \in Releases => version <= before[Self]
      /\ \A f \in Files \ want : Full(f) = before[f]
      /\ kills = 0 /\ ~undoFailed => \A f \in Files \ want : Full(f) = BuiltIn[f][pkg]
  BY DEF UInv, PkgInv
<1>3. version' <= pkg' /\ pkg' <= published' /\ Full(Self)' <= pkg'
  BY <1>1, <1>2
<1>4. \A f \in Files : before'[f] <= BuiltIn[f][pkg']
  BY <1>2
<1>5. before'[Self] \in Releases => version' <= before'[Self]
  BY <1>2
<1>6. \A f \in Files \ want' : Full(f)' = before'[f]
  BY <1>2
<1>7. kills' = 0 /\ ~undoFailed' => \A f \in Files \ want' : Full(f)' = BuiltIn[f][pkg']
  BY <1>2
<1> QED
  BY <1>3, <1>4, <1>5, <1>6, <1>7 DEF PkgInv

\* A step of kailleraInit in which nothing is reported.
LEMMA Silent ==
  ASSUME UInv, pc # "done", pc # "idle", pc' # "idle", pc' # "check", UNCHANGED <<version, told>>
  PROVE  Running' /\ ToldInv'
<1>1. told # "unchanged" /\ told # "package" /\ version # 0
  BY NothingTold
<1> QED
  BY <1>1 DEF Running, ToldInv

\* The player is asked.
LEMMA AskPackageUpdateStep == ASSUME UInv, AskPackageUpdate PROVE UInv'
<1>1. /\ pc = "ask" /\ ToNextWanted(1) /\ steps' = <<>> /\ (pc' = "download" \/ pc' = "done")
      /\ UNCHANGED <<disk, version, pkg, resume, want, told, published, before, kills, undoFailed>>
  BY DEF AskPackageUpdate, Goto, diskVars, envVars, faultVars
<1>2. UTypeInv
  BY DEF UInv
<1>3. at' \in Nat /\ at' > 0 /\ (at' <= Len(Manifest) => Manifest[at'] \in want) /\ PassedBy(at - 1)' = PassedBy(0)
  <2>1. PICK n \in Nat : n = 1 /\ n > 0 /\ ToNextWanted(n) /\ n - 1 = 0
    BY <1>1
  <2> QED
    BY <1>1, <2>1, NextWanted
<1>4. /\ pc \in Packing /\ pc' \in Places /\ pc' \notin Aside /\ pc' # "check" /\ pc' # "idle"
      /\ pc' \notin Swapping /\ pc # "done" /\ pc # "idle" /\ pc \in Loading
  BY <1>1 DEF Places, Packing, Loading, Swapping, Undoing, Aside
<1>5. UTypeInv'
  <2>1. disk' \in [Files -> [Slots -> Content]] /\ resume' \in {"check", "report"}
    BY <1>1, <1>2 DEF UTypeInv
  <2>2. steps' \in Seq([file : Files, old : OldSlots \cup {"none"}])
    BY <1>1, EmptySteps, Zenon
  <2>3. undoFailed' \in BOOLEAN
    BY <1>1, <1>2, Zenon DEF UTypeInv
  <2> QED
    BY <1>1, <1>2, <1>3, <1>4, <2>1, <2>2, <2>3, StillTyped
<1>6. Running' /\ ToldInv'
  BY <1>1, <1>4, Silent
<1>7. Newer'
  BY <1>1, <1>4 DEF UInv, Newer, Full, New
<1>8. \E r \in Releases : Dated(r)'
  BY <1>1 DEF UInv, Dated
<1>9. \A f \in Files : Full(f)' = Full(f) /\ New(f)' = New(f) /\ before'[f] = before[f]
  BY <1>1 DEF Full, New
<1>10. WholeInv'
  <2>1. kills = 0 => \A f \in Files : Full(f) # Part /\ New(f) # Part /\ \A s \in OldSlots : disk[f][s] # Part
    BY <1>1 DEF UInv, WholeInv
  <2>2. pc' \notin {"pending", "check", "pendingAside"}
    BY <1>1
  <2> QED
    BY <1>1, <1>4, <1>9, <2>1, <2>2 DEF WholeInv
<1>11. PkgInv' /\ SwapInv'
  BY <1>1, <1>4, <1>9, PackageKept DEF SwapInv
<1>12. LoadInv'
  <2>1. \A f \in Files : Full(f) = before[f]
    BY <1>4 DEF UInv, LoadInv
  <2>2. PassedBy(at - 1)' = {}
    BY <1>2, <1>3, Passing
  <2>3. pc' # "receive" /\ pc' # "swapIn" /\ want' = want /\ steps' = <<>>
    BY <1>1
  <2> QED
    BY <1>3, <1>9, <2>1, <2>2, <2>3 DEF LoadInv
<1> QED
  BY <1>5, <1>6, <1>7, <1>8, <1>10, <1>11, <1>12 DEF UInv

\* "<file>.new" is created.
LEMMA DownloadOpenStep == ASSUME UInv, DownloadOpen PROVE UInv'
<1>1. PICK f : f = Manifest[at]
  OBVIOUS
<1>2. /\ pc = "download" /\ at <= Len(Manifest)
      /\ \/ disk' = [disk EXCEPT ![f]["new"] = Part] /\ pc' = "receive"
         \/ disk' = disk /\ pc' = "failed"
      /\ UNCHANGED <<version, pkg, resume, want, at, steps, told, published, before, kills, undoFailed>>
  BY <1>1 DEF DownloadOpen, Goto, envVars
<1>3. UTypeInv
  BY DEF UInv
<1>4. f \in want /\ f \in Files /\ f \notin PassedBy(at - 1) /\ PassedBy(at - 1)' = PassedBy(at - 1)
  <2>1. Manifest[at] \in want
    BY <1>2 DEF UInv, LoadInv
  <2>2. PassedBy(at - 1)' = PassedBy(at - 1)
    BY <1>2 DEF PassedBy
  <2> QED
    BY <1>1, <1>2, <1>3, <2>1, <2>2, Passing
<1>5. /\ pc \in Packing /\ pc' \in Places /\ pc' \notin Aside /\ pc' # "check" /\ pc' # "idle"
      /\ pc' \notin Swapping /\ pc # "done" /\ pc # "idle" /\ pc \in Loading
  BY <1>2 DEF Places, Packing, Loading, Swapping, Undoing, Aside
<1>6. /\ disk' \in [Files -> [Slots -> Content]]
      /\ pc' = "receive" => disk'[f]["new"] = Part
      /\ \A g \in Files, s \in Slots : (g # f \/ s # "new" \/ pc' = "failed") => disk'[g][s] = disk[g][s]
  <2>1. CASE disk' = [disk EXCEPT ![f]["new"] = Part] /\ pc' = "receive"
    <3>1. "new" \in Slots /\ Part \in Content
      BY Names
    <3>2. /\ disk' \in [Files -> [Slots -> Content]] /\ disk'[f]["new"] = Part
          /\ \A t \in Slots : t # "new" => disk'[f][t] = disk[f][t]
          /\ \A g \in Files, t \in Slots : g # f => disk'[g][t] = disk[g][t]
      <4>1. PICK v \in Content : v = Part
        BY <3>1
      <4>2. disk' = [disk EXCEPT ![f]["new"] = v]
        BY <2>1, <4>1
      <4>3. /\ disk' \in [Files -> [Slots -> Content]] /\ disk'[f]["new"] = v
            /\ \A t \in Slots : t # "new" => disk'[f][t] = disk[f][t]
            /\ \A g \in Files, t \in Slots : g # f => disk'[g][t] = disk[g][t]
        <5>1. disk \in [Files -> [Slots -> Content]] /\ f \in Files
          BY <1>3, <1>4 DEF UTypeInv
        <5>2. disk' = [disk EXCEPT ![f] = [disk[f] EXCEPT !["new"] = v]]
          BY <4>2, <5>1
        <5> QED
          BY <3>1, <4>1, <5>1, <5>2
      <4> QED
        BY <4>1, <4>3
    <3> QED
      BY <2>1, <3>2
  <2>2. CASE disk' = disk /\ pc' = "failed"
    BY <1>3, <2>2 DEF UTypeInv
  <2> QED
    BY <1>2, <2>1, <2>2
<1>7. \A g \in Files : Full(g)' = Full(g) /\ before'[g] = before[g] /\ (g # f \/ pc' = "failed" => New(g)' = New(g))
  BY <1>2, <1>6, Names DEF Full, New
<1>8. UTypeInv'
  <2>1. undoFailed' \in BOOLEAN
    BY <1>2, <1>3, Zenon DEF UTypeInv
  <2> QED
    BY <1>2, <1>3, <1>5, <1>6, <2>1, PendingTypes
<1>9. Running' /\ ToldInv'
  BY <1>2, <1>5, Silent
<1>10. Newer'
  <2>1. Full(Self)' = Full(Self) /\ (New(Self)' = New(Self) \/ New(Self)' \notin Releases)
    BY <1>2, <1>6, <1>7, Names DEF New
  <2> QED
    BY <1>2, <1>5, <2>1 DEF UInv, Newer
<1>11. \E r \in Releases : Dated(r)'
  <2>1. \A g \in Files, s \in Slots : disk'[g][s] = Part \/ disk'[g][s] = disk[g][s]
    BY <1>2, <1>6
  <2>2. version' = version /\ published' = published
    BY <1>2
  <2> QED
    BY <2>1, <2>2, StillDated
<1>12. WholeInv'
  <2>1. kills = 0 => \A g \in Files : Full(g) # Part /\ New(g) # Part /\ \A s \in OldSlots : disk[g][s] # Part
    BY <1>2 DEF UInv, WholeInv
  <2>2. \A g \in Files, s \in OldSlots : disk'[g][s] = disk[g][s]
    BY <1>6, Names
  <2>3. kills = 0 => \A g \in Files : New(g)' = Part => pc' = "failed" \/ (pc' = "receive" /\ g = Manifest[at'])
    BY <1>1, <1>2, <1>7, <2>1
  <2>4. pc' \notin {"pending", "check", "pendingAside"}
    BY <1>2
  <2> QED
    BY <1>2, <1>5, <1>7, <2>1, <2>2, <2>3, <2>4 DEF WholeInv
<1>13. PkgInv' /\ SwapInv'
  BY <1>2, <1>5, <1>7, PackageKept DEF SwapInv
<1>14. LoadInv'
  <2>1. /\ \A g \in Files : Full(g) = before[g]
        /\ \A g \in PassedBy(at - 1) : New(g) = BuiltIn[g][pkg]
        /\ steps = <<>>
    BY <1>2, <1>5 DEF UInv, LoadInv
  <2>2. \A g \in PassedBy(at - 1)' : New(g)' = BuiltIn[g][pkg']
    <3>1. PassedBy(at - 1) \subseteq Files
      BY <1>3 DEF PassedBy, UTypeInv
    <3> QED
      BY <1>2, <1>4, <1>7, <2>1, <3>1
  <2>3. Manifest[at'] \in want' /\ at' <= Len(Manifest) /\ steps' = <<>>
    BY <1>1, <1>2, <1>4, <2>1
  <2> QED
    BY <1>7, <2>1, <2>2, <2>3 DEF LoadInv
<1> QED
  BY <1>8, <1>9, <1>10, <1>11, <1>12, <1>13, <1>14 DEF UInv

\* It is what the manifest says, or the download has failed.
LEMMA DownloadReceiveStep == ASSUME UInv, DownloadReceive PROVE UInv'
<1>1. PICK f : f = Manifest[at]
  OBVIOUS
<1>2. /\ pc = "receive"
      /\ \/ disk' = [disk EXCEPT ![f]["new"] = BuiltIn[f][pkg]] /\ ToNextWanted(at + 1) /\ pc' = "download"
         \/ disk' = disk /\ at' = at /\ pc' = "failed"
      /\ UNCHANGED <<version, pkg, resume, want, steps, told, published, before, kills, undoFailed>>
  BY <1>1 DEF DownloadReceive, Goto, envVars, PackageFile, faultVars
<1>3. UTypeInv
  BY DEF UInv
<1>4. f \in want /\ f \in Files /\ f \notin PassedBy(at - 1) /\ PassedBy(at) = PassedBy(at - 1) \cup {f}
  <2>1. Manifest[at] \in want /\ at <= Len(Manifest)
    BY <1>2 DEF UInv, LoadInv
  <2> QED
    BY <1>1, <1>3, <2>1, Passing
<1>5. /\ at' \in Nat /\ at' > 0
      /\ pc' = "download" => (at' <= Len(Manifest) => Manifest[at'] \in want) /\ PassedBy(at - 1)' = PassedBy(at)
  <2>1. at \in Nat /\ at > 0
    BY <1>3 DEF UTypeInv
  <2>2. CASE ToNextWanted(at + 1)
    <3>1. PICK n \in Nat : n = at + 1 /\ n > 0 /\ ToNextWanted(n) /\ n - 1 = at
      BY <2>1, <2>2
    <3> QED
      BY <1>2, <3>1, NextWanted
  <2> QED
    BY <1>2, <2>1, <2>2
<1>6. /\ pc \in Packing /\ pc' \in Places /\ pc' \notin Aside /\ pc' # "check" /\ pc' # "idle"
      /\ pc' \notin Swapping /\ pc # "done" /\ pc # "idle" /\ pc \in Loading
  BY <1>2 DEF Places, Packing, Loading, Swapping, Undoing, Aside
<1>7. pkg \in Releases /\ BuiltIn[f][pkg] \in Releases /\ BuiltIn[f][pkg] \in Content /\ BuiltIn[f][pkg] # Part
  <2>1. pkg \in Releases
    BY <1>3 DEF UTypeInv
  <2>2. BuiltIn[f][pkg] \in Releases
    BY <1>4, <2>1, UpdaterConstants
  <2> QED
    BY <2>1, <2>2, Names
<1>8. /\ disk' \in [Files -> [Slots -> Content]]
      /\ pc' = "download" => disk'[f]["new"] = BuiltIn[f][pkg]
      /\ \A g \in Files, s \in Slots : (g # f \/ s # "new" \/ pc' = "failed") => disk'[g][s] = disk[g][s]
  <2>1. CASE disk' = [disk EXCEPT ![f]["new"] = BuiltIn[f][pkg]] /\ pc' = "download"
    <3>1. "new" \in Slots
      BY Names
    <3>2. /\ disk' \in [Files -> [Slots -> Content]] /\ disk'[f]["new"] = BuiltIn[f][pkg]
          /\ \A t \in Slots : t # "new" => disk'[f][t] = disk[f][t]
          /\ \A g \in Files, t \in Slots : g # f => disk'[g][t] = disk[g][t]
      <4>1. PICK v \in Content : v = BuiltIn[f][pkg]
        BY <1>7
      <4>2. disk' = [disk EXCEPT ![f]["new"] = v]
        BY <2>1, <4>1
      <4>3. /\ disk' \in [Files -> [Slots -> Content]] /\ disk'[f]["new"] = v
            /\ \A t \in Slots : t # "new" => disk'[f][t] = disk[f][t]
            /\ \A g \in Files, t \in Slots : g # f => disk'[g][t] = disk[g][t]
        <5>1. disk \in [Files -> [Slots -> Content]] /\ f \in Files
          BY <1>3, <1>4 DEF UTypeInv
        <5>2. disk' = [disk EXCEPT ![f] = [disk[f] EXCEPT !["new"] = v]]
          BY <4>2, <5>1
        <5> QED
          BY <3>1, <4>1, <5>1, <5>2
      <4> QED
        BY <4>1, <4>3
    <3> QED
      BY <2>1, <3>2
  <2>2. CASE disk' = disk /\ pc' = "failed"
    BY <1>3, <2>2 DEF UTypeInv
  <2> QED
    BY <1>2, <2>1, <2>2
<1>9. /\ \A g \in Files : Full(g)' = Full(g) /\ before'[g] = before[g] /\ (g # f \/ pc' = "failed" => New(g)' = New(g))
      /\ pc' = "download" => New(f)' = BuiltIn[f][pkg]
  <2>1. "full" \in Slots /\ "new" \in Slots /\ "full" # "new"
    BY Names
  <2>2. \A g \in Files : Full(g)' = Full(g) /\ before'[g] = before[g] /\ (g # f \/ pc' = "failed" => New(g)' = New(g))
    BY <1>2, <1>8, <2>1 DEF Full, New
  <2> QED
    BY <1>4, <1>8, <2>2 DEF New
<1>10. UTypeInv'
  <2>1. undoFailed' \in BOOLEAN
    BY <1>2, <1>3, Zenon DEF UTypeInv
  <2>2. steps' \in Seq([file : Files, old : OldSlots \cup {"none"}]) /\ resume' \in {"check", "report"}
    BY <1>2, <1>3 DEF UTypeInv
  <2> QED
    BY <1>2, <1>3, <1>5, <1>6, <1>8, <2>1, <2>2, StillTyped
<1>11. Running' /\ ToldInv'
  BY <1>2, <1>6, Silent
<1>12. /\ version \in Nat /\ version # 0 /\ version <= pkg /\ pkg <= published /\ Full(Self) <= pkg
  BY <1>3, <1>6, UpdaterTypes, NothingTold DEF UInv, PkgInv
<1>13. Newer'
  <2>1. Full(Self)' = Full(Self) /\ Self \in Files
    BY <1>9, Names
  <2>2. New(Self)' = New(Self) \/ New(Self)' = pkg
    <3>1. CASE f = Self /\ pc' = "download"
      <4>1. BuiltIn[Self][pkg] = pkg
        BY <1>7, UpdaterConstants
      <4> QED
        BY <1>9, <3>1, <4>1
    <3>2. CASE f # Self \/ pc' = "failed"
      BY <1>9, <2>1, <3>2
    <3> QED
      BY <1>2, <3>1, <3>2
  <2>3. Full(Self) \in Releases => version <= Full(Self)
    BY <1>12 DEF UInv, Newer
  <2>4. New(Self)' \in Releases =>
          New(Self)' <= published /\ version <= New(Self)' /\ (Full(Self) \in Releases => Full(Self) <= New(Self)')
    <3>1. New(Self) \in Releases =>
            New(Self) <= published /\ version <= New(Self) /\ (Full(Self) \in Releases => Full(Self) <= New(Self))
      BY <1>12 DEF UInv, Newer
    <3> QED
      BY <1>12, <2>2, <3>1
  <2> QED
    BY <1>2, <1>6, <2>1, <2>3, <2>4 DEF Newer
<1>14. \E r \in Releases : Dated(r)'
  <2>1. \A g \in Files, s \in Slots : disk'[g][s] = disk[g][s] \/ disk'[g][s] = BuiltIn[g][pkg]
    BY <1>2, <1>8
  <2>2. version' = version /\ published' = published
    BY <1>2
  <2> QED
    BY <1>12, <2>1, <2>2, StillDated
<1>15. WholeInv'
  <2>1. ASSUME kills = 0
        PROVE  /\ \A g \in Files : Full(g)' # Part /\ \A s \in OldSlots : disk'[g][s] # Part
               /\ \A g \in Files : New(g)' = Part => pc' = "failed"
    <3>1. \A g \in Files : Full(g) # Part /\ \A s \in OldSlots : disk[g][s] # Part
      BY <2>1 DEF UInv, WholeInv
    <3>2. \A g \in Files : New(g) = Part => g = f
      BY <1>1, <1>2, <2>1 DEF UInv, WholeInv
    <3>3. \A g \in Files, s \in OldSlots : disk'[g][s] = disk[g][s]
      BY <1>8, Names
    <3>4. ASSUME NEW g \in Files, New(g)' = Part PROVE pc' = "failed"
      BY <1>2, <1>7, <1>9, <3>2, <3>4
    <3> QED
      BY <1>9, <3>1, <3>3, <3>4
  <2>2. pc' \notin {"pending", "check", "pendingAside"}
    BY <1>2
  <2> QED
    BY <1>2, <1>6, <2>1, <2>2 DEF WholeInv
<1>16. PkgInv' /\ SwapInv'
  BY <1>2, <1>6, <1>9, PackageKept DEF SwapInv
<1>17. LoadInv'
  <2>1. /\ \A g \in Files : Full(g) = before[g]
        /\ \A g \in PassedBy(at - 1) : New(g) = BuiltIn[g][pkg]
        /\ steps = <<>>
    BY <1>2, <1>6 DEF UInv, LoadInv
  <2>2. pc' = "download" => \A g \in PassedBy(at - 1)' : New(g)' = BuiltIn[g][pkg']
    <3>1. PassedBy(at - 1) \subseteq Files
      BY <1>3 DEF PassedBy, UTypeInv
    <3> QED
      BY <1>2, <1>4, <1>5, <1>9, <2>1, <3>1
  <2>3. /\ pc' = "download" => (at' <= Len(Manifest) => Manifest[at'] \in want')
        /\ steps' = <<>> /\ pc' \notin {"receive", "swap", "swapIn"}
    BY <1>2, <1>5, <2>1
  <2> QED
    BY <1>9, <2>1, <2>2, <2>3 DEF LoadInv
<1> QED
  BY <1>10, <1>11, <1>13, <1>14, <1>15, <1>16, <1>17 DEF UInv

\* All of it is there.
LEMMA DownloadsDoneStep == ASSUME UInv, DownloadsDone PROVE UInv'
<1>1. /\ pc = "download" /\ at > Len(Manifest) /\ ToNextWanted(1) /\ pc' = "swap"
      /\ UNCHANGED <<disk, version, pkg, resume, want, steps, told, published, before, kills, undoFailed>>
  BY DEF DownloadsDone, Goto, diskVars, envVars, faultVars
<1>2. UTypeInv
  BY DEF UInv
<1>3. at' \in Nat /\ at' > 0 /\ (at' <= Len(Manifest) => Manifest[at'] \in want) /\ PassedBy(at - 1)' = PassedBy(0)
  <2>1. PICK n \in Nat : n = 1 /\ n > 0 /\ ToNextWanted(n) /\ n - 1 = 0
    BY <1>1
  <2> QED
    BY <1>1, <2>1, NextWanted
<1>4. /\ pc \in Packing /\ pc' \in Places /\ pc' \notin Aside /\ pc' # "check" /\ pc' # "idle"
      /\ pc' \notin Loading /\ pc # "done" /\ pc # "idle" /\ pc \in Loading
  BY <1>1 DEF Places, Packing, Loading, Swapping, Undoing, Aside
<1>5. UTypeInv'
  <2>1. disk' \in [Files -> [Slots -> Content]] /\ resume' \in {"check", "report"}
    BY <1>1, <1>2 DEF UTypeInv
  <2>2. steps' \in Seq([file : Files, old : OldSlots \cup {"none"}])
    BY <1>1, <1>2 DEF UTypeInv
  <2>3. undoFailed' \in BOOLEAN
    BY <1>1, <1>2, Zenon DEF UTypeInv
  <2> QED
    BY <1>1, <1>2, <1>3, <1>4, <2>1, <2>2, <2>3, StillTyped
<1>6. Running' /\ ToldInv'
  BY <1>1, <1>4, Silent
<1>7. Newer'
  BY <1>1, <1>4 DEF UInv, Newer, Full, New
<1>8. \E r \in Releases : Dated(r)'
  BY <1>1 DEF UInv, Dated
<1>9. \A f \in Files : Full(f)' = Full(f) /\ New(f)' = New(f) /\ before'[f] = before[f]
  BY <1>1 DEF Full, New
<1>10. WholeInv'
  <2>1. kills = 0 => \A f \in Files : Full(f) # Part /\ New(f) # Part /\ \A s \in OldSlots : disk[f][s] # Part
    BY <1>1 DEF UInv, WholeInv
  <2>2. pc' \notin {"pending", "check", "pendingAside"}
    BY <1>1
  <2> QED
    BY <1>1, <1>4, <1>9, <2>1, <2>2 DEF WholeInv
<1>11. PkgInv'
  BY <1>1, <1>4, <1>9, PackageKept
<1>12. /\ \A f \in Files : Full(f) = before[f]
       /\ \A f \in want : New(f) = BuiltIn[f][pkg]
       /\ steps = <<>> /\ want \subseteq Files /\ pkg \in Releases
  <2>1. PassedBy(at - 1) = want
    BY <1>1, <1>2, Passing
  <2> QED
    BY <1>1, <1>2, <1>4, <2>1 DEF UInv, LoadInv, UTypeInv
<1>13. LoadInv'
  <2>1. pc' \notin {"receive", "download", "failed", "dllCheck", "swapIn"}
    BY <1>1
  <2> QED
    BY <1>1, <1>3, <1>4, <2>1 DEF LoadInv
<1>14. SwapInv'
  <2>1. steps' = <<>> /\ DOMAIN steps' = {} /\ PassedBy(at - 1)' = {}
    BY <1>1, <1>2, <1>3, <1>12, Passing
  <2>2. Swapped' = {}
    BY <2>1 DEF Swapped
  <2>3. pc' \notin {"swapIn", "undoBack"}
    BY <1>1
  <2>4. \A f \in want : Full(f)' = before'[f] /\ New(f)' = BuiltIn[f][pkg']
    BY <1>1, <1>9, <1>12
  <2>5. Self \in want' => New(Self)' = pkg'
    <3>1. BuiltIn[Self][pkg] = pkg
      BY <1>12, UpdaterConstants
    <3> QED
      BY <1>1, <2>4, <3>1
  <2>6. want' = want
    BY <1>1
  <2> QED
    BY <2>1, <2>2, <2>3, <2>4, <2>5, <2>6 DEF SwapInv
<1> QED
  BY <1>5, <1>6, <1>7, <1>8, <1>10, <1>11, <1>13, <1>14 DEF UInv

\* What was downloaded is removed.
LEMMA PackageFailedStep == ASSUME UInv, PackageFailed PROVE UInv'
<1>1. /\ pc = "failed" /\ Delete(NewFiles) /\ told' = "unchanged" /\ pc' = "done"
      /\ UNCHANGED <<version, pkg, resume, want, at, steps, published, before, kills, undoFailed>>
  BY DEF PackageFailed, Goto, envVars, faultVars
<1>2. UTypeInv
  BY DEF UInv
<1>3. /\ disk' \in [Files -> [Slots -> Content]]
      /\ \A f \in Files, s \in Slots : disk'[f][s] = disk[f][s] \/ disk'[f][s] = None
      /\ \A f \in Files : disk'[f]["full"] = disk[f]["full"] /\ disk'[f]["new"] = None
  <2>1. disk' = [f \in Files |-> [s \in Slots |-> IF <<f, s>> \in NewFiles THEN None ELSE disk[f][s]]]
    BY <1>1 DEF Delete
  <2>2. \A f \in Files : <<f, "full">> \notin NewFiles /\ <<f, "new">> \in NewFiles
    BY Names DEF NewFiles
  <2>3. disk \in [Files -> [Slots -> Content]]
    BY <1>2 DEF UTypeInv
  <2> QED
    BY <2>1, <2>2, <2>3, Names
<1>4. \A f \in Files : Full(f)' = Full(f) /\ New(f)' = None
  BY <1>3 DEF Full, New
<1>5. pc' \in Places /\ pc' \notin Aside /\ pc' \notin Packing
  BY <1>1 DEF Places, Packing, Loading, Swapping, Undoing, Aside
<1>6. UTypeInv'
  <2>1. undoFailed' \in BOOLEAN
    BY <1>1, <1>2, Zenon DEF UTypeInv
  <2> QED
    BY <1>1, <1>2, <1>3, <1>5, <2>1, PendingTypes
<1>7. version # 0
  BY <1>1, NothingTold
<1>8. Running'
  BY <1>1, <1>7 DEF Running
<1>9. Newer'
  BY <1>1, <1>4, <1>5, Names DEF UInv, Newer
<1>10. \E r \in Releases : Dated(r)'
  <2>1. version' = version /\ published' = published
    BY <1>1
  <2> QED
    BY <1>3, <2>1, StillDated
<1>11. WholeInv'
  <2>1. kills = 0 => \A f \in Files : Full(f) # Part /\ \A s \in OldSlots : disk[f][s] # Part
    BY DEF UInv, WholeInv
  <2>2. kills = 0 => \A f \in Files : Full(f)' # Part /\ New(f)' # Part /\ \A s \in OldSlots : disk'[f][s] # Part
    BY <1>3, <1>4, <2>1, Names
  <2> QED
    BY <1>1, <1>5, <2>2 DEF WholeInv
<1>12. PkgInv' /\ LoadInv' /\ SwapInv'
  BY <1>1, <1>5 DEF PkgInv, LoadInv, SwapInv, Packing
<1>13. ToldInv'
  <2>1. ~undoFailed => \A f \in Files : Full(f) = before[f]
    BY <1>1 DEF UInv, LoadInv
  <2>2. ~undoFailed' => \A f \in Files : Full(f)' = before'[f]
    BY <1>1, <1>4, <2>1
  <2> QED
    BY <1>1, <2>2 DEF ToldInv
<1> QED
  BY <1>6, <1>8, <1>9, <1>10, <1>11, <1>12, <1>13 DEF UInv
-----------------------------------------------------------------------------
\* The swap of the files and its undoing.

\* What every step of the swap leaves, whatever becomes of the file it is at.
LEMMA SwapRest ==
  ASSUME UInv, pc \in Swapping, pc' \in Swapping \cup {"failed"},
         UNCHANGED <<version, pkg, resume, want, told, published, before, kills>>,
         undoFailed' \in BOOLEAN, ~undoFailed' => ~undoFailed,
         disk' \in [Files -> [Slots -> Content]], at' \in Nat, at' > 0,
         steps' \in Seq([file : Files, old : OldSlots \cup {"none"}]),
         \A f \in Files, s \in Slots : disk'[f][s] = None \/ \E t \in Slots : disk'[f][s] = disk[f][t],
         \A f \in Files \ want : Full(f)' = Full(f),
         Self \notin want => New(Self)' = New(Self),
         Self \in want => /\ New(Self)' \in Releases => New(Self)' = pkg
                          /\ \/ Full(Self)' = Full(Self) \/ Full(Self)' = None
                             \/ Full(Self)' = pkg \/ Full(Self)' = before[Self]
  PROVE  UTypeInv' /\ Running' /\ ToldInv' /\ (\E r \in Releases : Dated(r)') /\ WholeInv' /\ Newer' /\ PkgInv'
<1>1. UTypeInv
  BY DEF UInv
<1>2. /\ pc \in Packing /\ pc' \in Packing /\ pc' \in Places /\ pc' \notin Aside /\ pc # "done" /\ pc # "idle"
      /\ pc' # "check" /\ pc' # "idle" /\ pc' # "pending" /\ pc' # "pendingAside" /\ pc' \notin Loading
      /\ pc \notin Loading /\ pc # "failed" /\ pc # "dllWrite"
  BY DEF Places, Packing, Loading, Swapping, Undoing, Aside
<1>3. UTypeInv'
  <2>1. resume' \in {"check", "report"}
    BY <1>1 DEF UTypeInv
  <2> QED
    BY <1>1, <1>2, <2>1, StillTyped
<1>4. Running' /\ ToldInv'
  BY <1>2, Silent
<1>5. \E r \in Releases : Dated(r)'
  <2>1. version' = version /\ published' = published
    OBVIOUS
  <2> QED
    BY <2>1, StillDated
<1>6. WholeInv'
  <2>1. ASSUME kills = 0, NEW f \in Files, NEW s \in Slots PROVE disk'[f][s] # Part
    <3>1. ASSUME NEW t \in Slots PROVE disk[f][t] # Part
      <4>1. Full(f) # Part /\ New(f) # Part /\ \A o \in OldSlots : disk[f][o] # Part
        BY <1>2, <2>1 DEF UInv, WholeInv, Loading
      <4>2. t = "full" \/ t = "new" \/ t \in OldSlots
        BY UpdaterConstants
      <4> QED
        BY <4>1, <4>2 DEF Full, New
    <3> QED
      BY <3>1, Names
  <2>2. kills = 0 => \A f \in Files : Full(f)' # Part /\ New(f)' # Part /\ \A s \in OldSlots : disk'[f][s] # Part
    BY <2>1, Names DEF Full, New
  <2>3. kills' = kills
    OBVIOUS
  <2> QED
    BY <1>2, <2>2, <2>3 DEF WholeInv
<1>7. /\ version <= pkg /\ pkg <= published /\ Full(Self) <= pkg
      /\ \A f \in Files : before[f] <= BuiltIn[f][pkg]
      /\ before[Self] \in Releases => version <= before[Self]
      /\ \A f \in Files \ want : Full(f) = before[f]
      /\ kills = 0 /\ ~undoFailed => \A f \in Files \ want : Full(f) = BuiltIn[f][pkg]
  BY <1>2 DEF UInv, PkgInv
<1>8. version # 0 /\ version \in Nat /\ pkg \in Releases /\ pkg \in Int /\ published \in Int /\ pkg > 0 /\ Self \in Files
  <2>1. pkg \in Releases
    BY <1>1 DEF UTypeInv
  <2>2. version # 0
    BY <1>2, NothingTold
  <2>3. version \in Nat /\ published \in Int
    BY <1>1, UpdaterTypes
  <2>4. pkg \in Int /\ pkg > 0
    BY <2>1, UpdaterNumbers
  <2> QED
    BY <2>1, <2>2, <2>3, <2>4, Names
<1>9. Full(Self) \in Int /\ before[Self] \in Int /\ before[Self] <= pkg
  <2>1. BuiltIn[Self][pkg] = pkg
    BY <1>8, UpdaterConstants
  <2> QED
    BY <1>1, <1>7, <1>8, <2>1, UpdaterTypes
<1>10. Full(Self) \in Releases => version <= Full(Self)
  BY <1>8 DEF UInv, Newer
<1>11. Full(Self)' \in {Full(Self), None, pkg, before[Self]}
  BY <1>8
<1>12. Full(Self)' <= pkg /\ (Full(Self)' \in Releases => version <= Full(Self)')
  BY <1>7, <1>8, <1>9, <1>10, <1>11, UpdaterNumbers
<1>13. Newer'
  <2>1. CASE Self \in want
    <3>1. New(Self)' \in Releases => New(Self)' <= published /\ version <= New(Self)' /\ Full(Self)' <= New(Self)'
      BY <1>7, <1>12, <2>1
    <3> QED
      BY <1>2, <1>12, <3>1 DEF Newer
  <2>2. CASE Self \notin want
    <3>1. Full(Self)' = Full(Self) /\ New(Self)' = New(Self)
      BY <1>8, <2>2
    <3> QED
      BY <1>2, <3>1 DEF UInv, Newer
  <2> QED
    BY <2>1, <2>2
<1>14. PkgInv'
  <2>1. version' <= pkg' /\ pkg' <= published' /\ Full(Self)' <= pkg'
    BY <1>7, <1>12
  <2>2. \A f \in Files : before'[f] <= BuiltIn[f][pkg']
    BY <1>7
  <2>3. before'[Self] \in Releases => version' <= before'[Self]
    BY <1>7
  <2>4. \A f \in Files \ want' : Full(f)' = before'[f]
    BY <1>7
  <2>5. kills' = 0 /\ ~undoFailed' => \A f \in Files \ want' : Full(f)' = BuiltIn[f][pkg']
    BY <1>7
  <2> QED
    BY <2>1, <2>2, <2>3, <2>4, <2>5 DEF PkgInv
<1> QED
  BY <1>3, <1>4, <1>5, <1>6, <1>13, <1>14

\* The steps of a swap.
LEMMA StepsAre ==
  ASSUME UTypeInv
  PROVE  /\ Len(steps) \in Nat /\ DOMAIN steps = 1 .. Len(steps)
         /\ \A i \in DOMAIN steps : steps[i].file \in Files /\ steps[i].old \in OldSlots \cup {"none"}
         /\ steps # <<>> => Len(steps) > 0 /\ Len(steps) \in DOMAIN steps
<1>1. steps \in Seq([file : Files, old : OldSlots \cup {"none"}])
  BY DEF UTypeInv
<1>2. Len(steps) \in Nat /\ DOMAIN steps = 1 .. Len(steps) /\ (steps # <<>> => Len(steps) # 0)
  BY <1>1, LenProperties, EmptySeq
<1>3. \A i \in DOMAIN steps : steps[i] \in [file : Files, old : OldSlots \cup {"none"}]
  BY <1>1, <1>2, ElementOfSeq
<1> QED
  BY <1>2, <1>3

\* What was put aside of a file the step is not about, and what is still aside of the one it is about.
LEMMA KeptStays ==
  ASSUME UNCHANGED <<want, before>>, NEW step, Kept(step),
         step.old # "none" => disk'[step.file][step.old] = disk[step.file][step.old]
  PROVE  Kept(step)'
BY DEF Kept

\* The file that is there goes aside.
LEMMA GoesAside ==
  ASSUME UInv, pc = "swap", at <= Len(Manifest), NEW f, f = Manifest[at], NEW old \in OldSlots \cup {"none"},
         steps' = Append(steps, [file |-> f, old |-> old]), pc' = "swapIn",
         UNCHANGED <<version, pkg, resume, want, at, told, published, before, kills, undoFailed>>,
         disk' \in [Files -> [Slots -> Content]],
         old = "none" => Full(f) = None /\ disk' = disk,
         old # "none" => /\ Full(f) # None /\ disk'[f][old] = Full(f) /\ disk'[f]["full"] = None
                         /\ \A s \in Slots : s # old /\ s # "full" => disk'[f][s] = disk[f][s]
                         /\ \A g \in Files, s \in Slots : g # f => disk'[g][s] = disk[g][s]
  PROVE  UInv'
<1>1. UTypeInv
  BY DEF UInv
<1>2. PICK n \in Nat : n = Len(steps)
  BY <1>1, StepsAre
<1>3. DOMAIN steps = 1 .. n /\ \A i \in 1 .. n : steps[i].file \in Files /\ steps[i].old \in OldSlots \cup {"none"}
  BY <1>1, <1>2, StepsAre
<1>4. f \in want /\ f \in Files /\ f \notin PassedBy(at - 1) /\ PassedBy(at) = PassedBy(at - 1) \cup {f}
  <2>1. Manifest[at] \in want
    BY DEF UInv, LoadInv
  <2> QED
    BY <1>1, <2>1, Passing
<1>5. /\ \A i \in 1 .. n : Kept(steps[i])
      /\ \A i, j \in 1 .. n : steps[i].file = steps[j].file => i = j
      /\ \A i \in 1 .. n : Full(steps[i].file) = BuiltIn[steps[i].file][pkg]
      /\ Swapped = PassedBy(at - 1)
      /\ \A g \in want \ Swapped : Full(g) = before[g]
      /\ \A g \in want \ PassedBy(at - 1) : New(g) = BuiltIn[g][pkg]
      /\ Self \in want /\ New(Self) \in Releases => New(Self) = pkg
  BY <1>3 DEF UInv, SwapInv, Swapping, Undoing
<1>6. /\ \A g \in Files : New(g)' = New(g) /\ (g # f => Full(g)' = Full(g))
      /\ disk'[f]["full"] = None
      /\ \A g \in Files, s \in Slots : g # f => disk'[g][s] = disk[g][s]
      /\ \A g \in Files, s \in Slots : disk'[g][s] = None \/ \E t \in Slots : disk'[g][s] = disk[g][t]
  <2>1. "full" \in Slots /\ "new" \in Slots /\ "new" # "full" /\ \A s \in OldSlots : s # "new" /\ s # "full" /\ s \in Slots
    BY Names
  <2>2. CASE old = "none"
    BY <2>1, <2>2 DEF Full, New
  <2>3. CASE old # "none"
    BY <2>1, <2>3 DEF Full, New
  <2> QED
    BY <2>2, <2>3
<1>7. Full(f) = before[f] /\ \A i \in 1 .. n : steps[i].file # f
  <2>1. f \notin Swapped
    BY <1>4, <1>5
  <2> QED
    BY <1>3, <1>4, <1>5, <2>1 DEF Swapped
<1>8. PICK st : st = [file |-> f, old |-> old]
  OBVIOUS
<1>9. /\ steps' \in Seq([file : Files, old : OldSlots \cup {"none"}])
      /\ Len(steps') = n + 1 /\ DOMAIN steps' = 1 .. n + 1
      /\ steps'[n + 1] = st /\ \A i \in 1 .. n : steps'[i] = steps[i]
  <2>1. steps \in Seq([file : Files, old : OldSlots \cup {"none"}]) /\ st \in [file : Files, old : OldSlots \cup {"none"}]
    BY <1>1, <1>4, <1>8 DEF UTypeInv
  <2>2. steps' = Append(steps, st)
    BY <1>8
  <2>3. /\ Append(steps, st) \in Seq([file : Files, old : OldSlots \cup {"none"}])
        /\ Len(Append(steps, st)) = Len(steps) + 1
        /\ Append(steps, st)[Len(steps) + 1] = st
        /\ \A i \in 1 .. Len(steps) : Append(steps, st)[i] = steps[i]
    BY <2>1, AppendProperties
  <2>4. DOMAIN steps' = 1 .. Len(steps')
    BY <2>2, <2>3, LenProperties
  <2> QED
    BY <1>2, <2>2, <2>3, <2>4
<1>10. st.file = f /\ st.old = old
  BY <1>8
<1>11. \A i \in 1 .. n + 1 : i \in 1 .. n \/ i = n + 1
  BY <1>2
<1>12. UTypeInv' /\ Running' /\ ToldInv' /\ (\E r \in Releases : Dated(r)') /\ WholeInv' /\ Newer' /\ PkgInv'
  <2>1. undoFailed' \in BOOLEAN /\ (~undoFailed' => ~undoFailed)
    BY <1>1, Zenon DEF UTypeInv
  <2>2. at' \in Nat /\ at' > 0
    <3>1. at' = at
      OBVIOUS
    <3> QED
      BY <1>1, <3>1 DEF UTypeInv
  <2>3. Full(Self)' = Full(Self) \/ Full(Self)' = None
    BY <1>6, Names DEF Full
  <2>4. New(Self)' = New(Self) /\ \A g \in Files \ want : Full(g)' = Full(g)
    BY <1>4, <1>6, Names
  <2>5. Self \in want => (New(Self)' \in Releases => New(Self)' = pkg)
    BY <1>5, <2>4
  <2>6. pc \in Swapping /\ pc' \in Swapping \cup {"failed"}
    BY DEF Swapping
  <2> QED
    BY <1>6, <1>9, <2>1, <2>2, <2>3, <2>4, <2>5, <2>6, SwapRest
<1>13. LoadInv'
  BY <1>4 DEF LoadInv, Loading
<1>14. SwapInv'
  <2>1. ASSUME NEW i \in 1 .. n + 1 PROVE Kept(steps[i])'
    <3>1. CASE i \in 1 .. n
      <4>1. steps[i].old # "none" => disk'[steps[i].file][steps[i].old] = disk[steps[i].file][steps[i].old]
        BY <1>3, <1>6, <1>7, <3>1, Names
      <4>2. PICK step : step = steps[i]
        OBVIOUS
      <4>3. Kept(step)'
        BY <1>5, <3>1, <4>1, <4>2, KeptStays
      <4> QED
        BY <1>9, <3>1, <4>2, <4>3 DEF Kept
    <3>2. CASE i = n + 1
      <4>1. Kept(st)'
        BY <1>4, <1>7, <1>10 DEF Kept
      <4> QED
        BY <1>9, <3>2, <4>1 DEF Kept
    <3> QED
      BY <1>11, <3>1, <3>2
  <2>2. ASSUME NEW i \in 1 .. n + 1, NEW j \in 1 .. n + 1, steps'[i].file = steps'[j].file PROVE i = j
    BY <1>5, <1>7, <1>9, <1>10, <1>11, <2>2
  <2>3. ASSUME NEW i \in 1 .. n + 1, i < Len(steps') PROVE Full(steps[i].file)' = BuiltIn[steps'[i].file][pkg']
    <3>1. i \in 1 .. n /\ steps'[i] = steps[i]
      BY <1>2, <1>9, <2>3
    <3>2. PICK g : g = steps[i].file
      OBVIOUS
    <3>3. Full(g)' = Full(g)
      BY <1>3, <1>6, <1>7, <3>1, <3>2
    <3>4. Full(steps[i].file)' = Full(g)'
      BY <3>1, <3>2 DEF Full
    <3> QED
      BY <1>5, <3>1, <3>2, <3>3, <3>4
  <2>4. Swapped' = PassedBy(at)' /\ Swapped' = Swapped \cup {f}
    <3>1. Swapped' = {steps'[i].file : i \in 1 .. n + 1}
      BY <1>9 DEF Swapped
    <3>2. Swapped = {steps[i].file : i \in 1 .. n}
      BY <1>3 DEF Swapped
    <3>3. Swapped' = Swapped \cup {f}
      BY <1>2, <1>9, <1>10, <1>11, <3>1, <3>2
    <3>4. PassedBy(at)' = PassedBy(at)
      BY DEF PassedBy
    <3> QED
      BY <1>4, <1>5, <3>3, <3>4
  <2>5. steps' # <<>> /\ steps'[Len(steps')].file = Manifest[at']
    <3>1. 1 \in DOMAIN steps'
      BY <1>2, <1>9
    <3> QED
      BY <1>9, <1>10, <3>1
  <2>6. Full(steps[Len(steps)].file)' = None
    BY <1>6, <1>9, <1>10 DEF Full
  <2>7. \A g \in want' \ Swapped' : Full(g)' = before'[g]
    <3>1. want \subseteq Files
      BY <1>1 DEF UTypeInv
    <3> QED
      BY <1>5, <1>6, <2>4, <3>1
  <2>8. \A g \in want' \ PassedBy(at - 1)' : New(g)' = BuiltIn[g][pkg']
    <3>1. want \subseteq Files
      BY <1>1 DEF UTypeInv
    <3>2. PassedBy(at - 1)' = PassedBy(at - 1)
      BY DEF PassedBy
    <3> QED
      BY <1>5, <1>6, <3>1, <3>2
  <2>9. Self \in want' /\ New(Self)' \in Releases => New(Self)' = pkg'
    BY <1>5, <1>6, Names
  <2> QED
    BY <1>9, <2>1, <2>2, <2>3, <2>4, <2>5, <2>6, <2>7, <2>8, <2>9 DEF SwapInv
<1> QED
  BY <1>12, <1>13, <1>14 DEF UInv

\* SwapAside puts the file aside, or there is nothing to put aside, or it gives up.
LEMMA SwapAsideStep == ASSUME UInv, SwapAside PROVE UInv'
<1>1. PICK f : f = Manifest[at]
  OBVIOUS
<1>2. /\ pc = "swap" /\ at <= Len(Manifest)
      /\ UNCHANGED <<version, pkg, resume, want, at, told, published, before, kills, undoFailed>>
      /\ \/ /\ disk[f]["full"] = None /\ disk' = disk /\ pc' = "swapIn"
            /\ steps' = Append(steps, [file |-> f, old |-> "none"])
         \/ /\ disk[f]["full"] # None /\ pc' = "swapIn"
            /\ \E n \in FreeOld(f) : Move(f, "full", OldNames[n]) /\ steps' = Append(steps, [file |-> f, old |-> OldNames[n]])
         \/ disk[f]["full"] # None /\ pc' = "undo" /\ disk' = disk /\ steps' = steps
  BY <1>1 DEF SwapAside, Goto, diskVars, envVars
<1>3. UTypeInv
  BY DEF UInv
<1>4. f \in want /\ f \in Files
  <2>1. Manifest[at] \in want
    BY <1>2 DEF UInv, LoadInv
  <2> QED
    BY <1>1, <1>3, <2>1 DEF UTypeInv
<1>5. CASE /\ disk[f]["full"] = None /\ disk' = disk /\ pc' = "swapIn"
           /\ steps' = Append(steps, [file |-> f, old |-> "none"])
  <2>1. disk' \in [Files -> [Slots -> Content]] /\ Full(f) = None
    BY <1>3, <1>5 DEF UTypeInv, Full
  <2>2. PICK old \in OldSlots \cup {"none"} : old = "none"
    OBVIOUS
  <2> QED
    BY <1>1, <1>2, <1>5, <2>1, <2>2, GoesAside
<1>6. CASE /\ disk[f]["full"] # None /\ pc' = "swapIn"
           /\ \E n \in FreeOld(f) : Move(f, "full", OldNames[n]) /\ steps' = Append(steps, [file |-> f, old |-> OldNames[n]])
  <2>1. PICK n \in FreeOld(f) : Move(f, "full", OldNames[n]) /\ steps' = Append(steps, [file |-> f, old |-> OldNames[n]])
    BY <1>6
  <2>2. PICK old \in OldSlots \cup {"none"} : old = OldNames[n] /\ old \in OldSlots
    BY DEF FreeOld, OldSlots
  <2>3. old \in Slots /\ old # "full" /\ old # "none" /\ "full" \in Slots
    BY <2>2, Names
  <2>4. Move(f, "full", old) /\ steps' = Append(steps, [file |-> f, old |-> old])
    BY <2>1, <2>2
  <2>5. /\ disk' \in [Files -> [Slots -> Content]]
        /\ disk'[f][old] = disk[f]["full"] /\ disk'[f]["full"] = None
        /\ \A s \in Slots : s # old /\ s # "full" => disk'[f][s] = disk[f][s]
        /\ \A g \in Files, s \in Slots : g # f => disk'[g][s] = disk[g][s]
    BY <1>3, <1>4, <2>3, <2>4, MoveAt
  <2>6. Full(f) # None /\ disk'[f][old] = Full(f)
    BY <1>6, <2>5 DEF Full
  <2> QED
    BY <1>1, <1>2, <1>6, <2>2, <2>3, <2>4, <2>5, <2>6, GoesAside
<1>7. CASE pc' = "undo" /\ disk' = disk /\ steps' = steps
  <2>1. \A g \in Files : Full(g)' = Full(g) /\ New(g)' = New(g) /\ before'[g] = before[g]
    BY <1>2, <1>7 DEF Full, New
  <2>2. /\ \A i \in DOMAIN steps : Kept(steps[i])
        /\ \A i, j \in DOMAIN steps : steps[i].file = steps[j].file => i = j
        /\ \A i \in DOMAIN steps : Full(steps[i].file) = BuiltIn[steps[i].file][pkg]
        /\ \A g \in want \ Swapped : Full(g) = before[g]
        /\ Self \in want /\ New(Self) \in Releases => New(Self) = pkg
    BY <1>2 DEF UInv, SwapInv, Swapping, Undoing
  <2>3. UTypeInv' /\ Running' /\ ToldInv' /\ (\E r \in Releases : Dated(r)') /\ WholeInv' /\ Newer' /\ PkgInv'
    <3>1. undoFailed' \in BOOLEAN /\ (~undoFailed' => ~undoFailed)
      BY <1>2, <1>3, Zenon DEF UTypeInv
    <3>2. /\ at' \in Nat /\ at' > 0 /\ steps' \in Seq([file : Files, old : OldSlots \cup {"none"}])
          /\ disk' \in [Files -> [Slots -> Content]]
      <4>1. at' = at
        BY <1>2
      <4> QED
        BY <1>3, <1>7, <4>1 DEF UTypeInv
    <3>3. Full(Self)' = Full(Self) /\ New(Self)' = New(Self) /\ \A g \in Files \ want : Full(g)' = Full(g)
      BY <2>1, Names
    <3>4. \A g \in Files, s \in Slots : disk'[g][s] = disk[g][s]
      BY <1>7
    <3>5. Self \in want => (New(Self)' \in Releases => New(Self)' = pkg)
      BY <2>2, <3>3
    <3>6. pc \in Swapping /\ pc' \in Swapping \cup {"failed"}
      BY <1>2, <1>7 DEF Swapping, Undoing
    <3> QED
      BY <1>2, <3>1, <3>2, <3>3, <3>4, <3>5, <3>6, SwapRest
  <2>4. LoadInv'
    BY <1>7 DEF LoadInv, Loading
  <2>5. SwapInv'
    <3>1. \A i \in DOMAIN steps : Kept(steps[i])'
      BY <1>2, <1>7, <2>2 DEF Kept
    <3>2. \A i \in DOMAIN steps : Full(steps[i].file)' = BuiltIn[steps[i].file][pkg]
      BY <1>7, <2>2 DEF Full
    <3>3. \A g \in want' \ Swapped' : Full(g)' = before'[g]
      <4>1. Swapped' = Swapped /\ want' = want /\ want \subseteq Files
        BY <1>2, <1>3, <1>7 DEF Swapped, UTypeInv
      <4> QED
        BY <2>1, <2>2, <4>1
    <3>4. Self \in want' /\ New(Self)' \in Releases => New(Self)' = pkg'
      BY <1>2, <2>1, <2>2, Names
    <3> QED
      BY <1>2, <1>7, <2>2, <3>1, <3>2, <3>3, <3>4 DEF SwapInv
  <2> QED
    BY <2>3, <2>4, <2>5 DEF UInv
<1> QED
  BY <1>2, <1>5, <1>6, <1>7

\* The downloaded file takes its place.
LEMMA SwapInStep == ASSUME UInv, SwapIn PROVE UInv'
<1>1. PICK f : f = Manifest[at]
  OBVIOUS
<1>2. PICK done \in BOOLEAN :
        /\ TryMove(f, "new", "full", FALSE, done)
        /\ IF done THEN ToNextWanted(at + 1) /\ pc' = "swap" ELSE at' = at /\ pc' = "undoBack"
  BY <1>1 DEF SwapIn, Goto
<1>3. /\ pc = "swapIn"
      /\ UNCHANGED <<version, pkg, resume, want, steps, told, published, before, kills, undoFailed>>
  BY DEF SwapIn, envVars
<1>4. UTypeInv
  BY DEF UInv
<1>5. f \in want /\ f \in Files /\ f \notin PassedBy(at - 1) /\ PassedBy(at) = PassedBy(at - 1) \cup {f}
  <2>1. Manifest[at] \in want /\ at <= Len(Manifest)
    BY <1>3 DEF UInv, LoadInv
  <2> QED
    BY <1>1, <1>4, <2>1, Passing
<1>6. PICK n \in Nat : n = Len(steps)
  BY <1>4, StepsAre
<1>7. /\ \A i \in DOMAIN steps : Kept(steps[i])
      /\ \A i, j \in DOMAIN steps : steps[i].file = steps[j].file => i = j
      /\ \A i \in DOMAIN steps : i < n => Full(steps[i].file) = BuiltIn[steps[i].file][pkg]
      /\ steps # <<>> /\ Swapped = PassedBy(at) /\ steps[n].file = f
      /\ Full(steps[n].file) = None
      /\ \A g \in want \ Swapped : Full(g) = before[g]
      /\ \A g \in want \ PassedBy(at - 1) : New(g) = BuiltIn[g][pkg]
      /\ Self \in want /\ New(Self) \in Releases => New(Self) = pkg
  BY <1>1, <1>3, <1>6 DEF UInv, SwapInv, Swapping, Undoing
<1>8. DOMAIN steps = 1 .. n /\ n \in 1 .. n /\ \A i \in 1 .. n : steps[i].file \in Files /\ steps[i].old \in OldSlots \cup {"none"}
  <2>1. /\ DOMAIN steps = 1 .. n
        /\ \A i \in DOMAIN steps : steps[i].file \in Files /\ steps[i].old \in OldSlots \cup {"none"}
    BY <1>4, <1>6, StepsAre
  <2>2. n \in DOMAIN steps
    BY <1>4, <1>6, <1>7, StepsAre
  <2> QED
    BY <2>1, <2>2
<1>9. /\ disk' \in [Files -> [Slots -> Content]]
      /\ done => /\ disk'[f]["full"] = disk[f]["new"] /\ disk'[f]["new"] = None
                 /\ \A s \in Slots : s # "full" /\ s # "new" => disk'[f][s] = disk[f][s]
                 /\ \A g \in Files, s \in Slots : g # f => disk'[g][s] = disk[g][s]
      /\ ~done => disk' = disk
  <2>1. PICK replace \in BOOLEAN : TryMove(f, "new", "full", replace, done)
    BY <1>2
  <2>2. "new" \in Slots /\ "full" \in Slots /\ "new" # "full"
    BY Names
  <2> QED
    BY <1>4, <1>5, <2>1, <2>2, TryMoveAt
<1>10. /\ \A g \in Files : g # f \/ ~done => Full(g)' = Full(g) /\ New(g)' = New(g)
       /\ done => disk'[f]["full"] = BuiltIn[f][pkg] /\ disk'[f]["new"] = None
       /\ \A g \in Files, s \in OldSlots : disk'[g][s] = disk[g][s]
       /\ \A g \in Files, s \in Slots : disk'[g][s] = None \/ \E t \in Slots : disk'[g][s] = disk[g][t]
  <2>1. "full" \in Slots /\ "new" \in Slots /\ \A s \in OldSlots : s # "new" /\ s # "full" /\ s \in Slots
    BY Names
  <2>2. New(f) = BuiltIn[f][pkg]
    BY <1>5, <1>7
  <2>3. CASE done
    <3>1. \A g \in Files : g # f => Full(g)' = Full(g) /\ New(g)' = New(g)
      BY <1>9, <2>1, <2>3 DEF Full, New
    <3>2. disk'[f]["full"] = BuiltIn[f][pkg] /\ disk'[f]["new"] = None
      BY <1>9, <2>2, <2>3 DEF New
    <3>3. \A g \in Files, s \in OldSlots : disk'[g][s] = disk[g][s]
      BY <1>9, <2>1, <2>3
    <3>4. \A g \in Files, s \in Slots : disk'[g][s] = None \/ \E t \in Slots : disk'[g][s] = disk[g][t]
      BY <1>9, <2>1, <2>3
    <3> QED
      BY <2>3, <3>1, <3>2, <3>3, <3>4
  <2>4. CASE ~done
    BY <1>9, <2>1, <2>4 DEF Full, New
  <2> QED
    BY <2>3, <2>4
<1>11. at' \in Nat /\ at' > 0 /\ (done => (at' <= Len(Manifest) => Manifest[at'] \in want) /\ PassedBy(at - 1)' = PassedBy(at))
  <2>1. at \in Nat /\ at > 0
    BY <1>4 DEF UTypeInv
  <2>2. CASE done
    <3>1. PICK m \in Nat : m = at + 1 /\ m > 0 /\ ToNextWanted(m) /\ m - 1 = at
      BY <1>2, <2>1, <2>2
    <3> QED
      BY <1>3, <3>1, NextWanted
  <2>3. CASE ~done
    BY <1>2, <2>1, <2>3
  <2> QED
    BY <2>2, <2>3
<1>12. (done => pc' = "swap") /\ (~done => pc' = "undoBack")
  BY <1>2
<1>13. Self \in want => /\ New(Self)' \in Releases => New(Self)' = pkg
                        /\ Full(Self)' = Full(Self) \/ Full(Self)' = pkg
  <2>1. BuiltIn[Self][pkg] = pkg
    BY <1>4, UpdaterConstants DEF UTypeInv
  <2>2. CASE done /\ f = Self
    BY <1>10, <2>1, <2>2, Names DEF Full, New
  <2>3. CASE ~done \/ f # Self
    BY <1>7, <1>10, <2>3, Names
  <2> QED
    BY <2>2, <2>3
<1>14. UTypeInv' /\ Running' /\ ToldInv' /\ (\E r \in Releases : Dated(r)') /\ WholeInv' /\ Newer' /\ PkgInv'
  <2>1. undoFailed' \in BOOLEAN /\ (~undoFailed' => ~undoFailed)
    BY <1>3, <1>4, Zenon DEF UTypeInv
  <2>2. steps' \in Seq([file : Files, old : OldSlots \cup {"none"}])
    BY <1>3, <1>4 DEF UTypeInv
  <2>3. /\ \A g \in Files \ want : Full(g)' = Full(g)
        /\ Self \notin want => New(Self)' = New(Self)
    BY <1>5, <1>10, Names
  <2>4. pc \in Swapping /\ pc' \in Swapping \cup {"failed"}
    BY <1>3, <1>12 DEF Swapping, Undoing
  <2> QED
    BY <1>3, <1>9, <1>10, <1>11, <1>13, <2>1, <2>2, <2>3, <2>4, SwapRest
<1>15. LoadInv'
  BY <1>3, <1>11, <1>12 DEF LoadInv, Loading
<1>16. SwapInv'
  <2>1. want' = want /\ pkg' = pkg /\ steps' = steps /\ before' = before /\ want \subseteq Files /\ n = Len(steps')
    BY <1>3, <1>4, <1>6 DEF UTypeInv
  <2>2. ASSUME NEW i \in 1 .. n PROVE Kept(steps[i])'
    <3>1. PICK step : step = steps[i]
      OBVIOUS
    <3>2. step.old # "none" => disk'[step.file][step.old] = disk[step.file][step.old]
      BY <1>8, <1>10, <3>1
    <3>3. Kept(step)'
      BY <1>3, <1>7, <1>8, <3>1, <3>2, KeptStays
    <3> QED
      BY <2>1, <3>1, <3>3 DEF Kept
  <2>3. ASSUME NEW i \in 1 .. n PROVE (i < n \/ done) => Full(steps[i].file)' = BuiltIn[steps[i].file][pkg]
    <3>1. CASE i < n
      <4>1. steps[i].file # f /\ steps[i].file \in Files
        BY <1>6, <1>7, <1>8, <3>1
      <4>2. PICK g : g = steps[i].file
        OBVIOUS
      <4>3. Full(g)' = Full(g) /\ Full(g) = BuiltIn[g][pkg]
        BY <1>7, <1>8, <1>10, <3>1, <4>1, <4>2
      <4> QED
        BY <2>1, <4>2, <4>3 DEF Full
    <3>2. CASE i = n /\ done
      BY <1>7, <1>10, <2>1, <3>2 DEF Full
    <3> QED
      BY <1>6, <3>1, <3>2
  <2>4. Swapped' = Swapped
    BY <2>1 DEF Swapped
  <2>5. \A g \in want \ Swapped : Full(g)' = before[g]
    BY <1>5, <1>7, <1>10, <2>1
  <2>6. done => \A g \in want \ PassedBy(at) : New(g)' = BuiltIn[g][pkg]
    BY <1>5, <1>7, <1>10, <2>1
  <2>7. ~done => Full(steps[Len(steps)].file)' = None
    BY <1>5, <1>6, <1>7, <1>10, <2>1 DEF Full
  <2>8. \A i, j \in DOMAIN steps' : steps'[i].file = steps'[j].file => i = j
    BY <1>7, <2>1
  <2>9. CASE done
    <3>1. pc' = "swap"
      BY <1>12, <2>9
    <3>2. Swapped' = PassedBy(at - 1)'
      BY <1>7, <1>11, <2>4, <2>9
    <3>3. \A i \in DOMAIN steps' : Kept(steps[i])' /\ Full(steps[i].file)' = BuiltIn[steps'[i].file][pkg']
      BY <1>8, <2>1, <2>2, <2>3, <2>9
    <3>4. \A g \in want' \ Swapped' : Full(g)' = before'[g]
      BY <2>1, <2>4, <2>5
    <3>5. \A g \in want' \ PassedBy(at - 1)' : New(g)' = BuiltIn[g][pkg']
      BY <1>11, <2>1, <2>6, <2>9
    <3>6. Self \in want' /\ New(Self)' \in Releases => New(Self)' = pkg'
      BY <1>13, <2>1
    <3> QED
      BY <2>8, <3>1, <3>2, <3>3, <3>4, <3>5, <3>6 DEF SwapInv
  <2>10. CASE ~done
    <3>1. pc' = "undoBack"
      BY <1>12, <2>10
    <3>2. \A i \in DOMAIN steps' : Kept(steps[i])'
      BY <1>8, <2>1, <2>2
    <3>3. \A i \in DOMAIN steps' : i < Len(steps') => Full(steps[i].file)' = BuiltIn[steps'[i].file][pkg']
      BY <1>8, <2>1, <2>3
    <3>4. \A g \in want' \ Swapped' : Full(g)' = before'[g]
      BY <2>1, <2>4, <2>5
    <3>5. Self \in want' /\ New(Self)' \in Releases => New(Self)' = pkg'
      BY <1>13, <2>1
    <3>6. steps' # <<>>
      BY <1>7, <2>1
    <3> QED
      BY <2>7, <2>8, <2>10, <3>1, <3>2, <3>3, <3>4, <3>5, <3>6 DEF SwapInv
  <2> QED
    BY <2>9, <2>10
<1> QED
  BY <1>14, <1>15, <1>16 DEF UInv

\* What is known of the swapped file that is undone next.
LEMMA UndoFacts ==
  ASSUME UInv, pc \in Undoing, steps # <<>>, NEW n, n = Len(steps), NEW f, f = steps[n].file
  PROVE  /\ n \in Nat /\ n > 0 /\ DOMAIN steps = 1 .. n /\ f \in want /\ f \in Files /\ Last(steps) = steps[n]
         /\ \A i \in 1 .. n : Kept(steps[i]) /\ steps[i].file \in Files /\ steps[i].old \in OldSlots \cup {"none"}
         /\ \A i \in 1 .. n, j \in 1 .. n : steps[i].file = steps[j].file => i = j
         /\ \A i \in 1 .. n : i # n => steps[i].file # f
         /\ \A i \in 1 .. n : i < n \/ pc = "undo" => Full(steps[i].file) = BuiltIn[steps[i].file][pkg]
         /\ ~undoFailed => \A g \in want \ Swapped : Full(g) = before[g]
         /\ pc = "undoBack" /\ ~undoFailed => Full(f) = None
         /\ Self \in want /\ New(Self) \in Releases => New(Self) = pkg
         /\ want \subseteq Files /\ BuiltIn[Self][pkg] = pkg
<1>1. UTypeInv
  BY DEF UInv
<1>2. /\ n \in Nat /\ n > 0 /\ DOMAIN steps = 1 .. n /\ n \in 1 .. n
      /\ \A i \in 1 .. n : steps[i].file \in Files /\ steps[i].old \in OldSlots \cup {"none"}
  BY <1>1, StepsAre
<1>3. want \subseteq Files /\ BuiltIn[Self][pkg] = pkg
  BY <1>1, UpdaterConstants DEF UTypeInv
<1>4. pc = "undo" \/ pc = "undoBack"
  BY DEF Undoing
<1>5. pc \in Swapping
  BY DEF Swapping
<1>6. /\ \A i \in 1 .. n : Kept(steps[i])
      /\ \A i, j \in 1 .. n : steps[i].file = steps[j].file => i = j
      /\ \A i \in 1 .. n : i < n \/ pc = "undo" => Full(steps[i].file) = BuiltIn[steps[i].file][pkg]
      /\ ~undoFailed => \A g \in want \ Swapped : Full(g) = before[g]
      /\ pc = "undoBack" /\ ~undoFailed => Full(steps[n].file) = None
      /\ Self \in want /\ New(Self) \in Releases => New(Self) = pkg
  BY <1>2, <1>5 DEF UInv, SwapInv
<1>7. f \in want /\ f \in Files
  <2>1. Kept(steps[n])
    BY <1>2, <1>6
  <2> QED
    BY <1>2, <2>1 DEF Kept
<1>8. Last(steps) = steps[n]
  BY DEF Last
<1>9. \A i \in 1 .. n : i # n => steps[i].file # f
  BY <1>2, <1>6
<1> QED
  BY <1>2, <1>3, <1>6, <1>7, <1>8, <1>9

\* The last file swapped goes back to "<file>.new", unless that is refused.
LEMMA UndoOutStep == ASSUME UInv, UndoOut PROVE UInv'
<1>1. UTypeInv
  BY DEF UInv
<1>2. /\ pc = "undo"
      /\ UNCHANGED <<version, pkg, resume, want, at, steps, told, published, before, kills>>
  BY DEF UndoOut, envVars
<1>3. at' \in Nat /\ at' > 0 /\ steps' \in Seq([file : Files, old : OldSlots \cup {"none"}])
  <2>1. at' = at /\ steps' = steps
    BY <1>2
  <2> QED
    BY <1>1, <2>1 DEF UTypeInv
<1>4. pc \in Undoing /\ pc \in Swapping /\ pc \in Packing
  BY <1>2 DEF Undoing, Swapping, Packing
<1>5. CASE steps = <<>>
  <2>1. pc' = "failed" /\ disk' = disk /\ undoFailed' = undoFailed
    BY <1>5 DEF UndoOut, Goto, diskVars
  <2>2. \A g \in Files : Full(g)' = Full(g) /\ New(g)' = New(g) /\ before'[g] = before[g]
    BY <1>2, <2>1 DEF Full, New
  <2>3. UTypeInv' /\ Running' /\ ToldInv' /\ (\E r \in Releases : Dated(r)') /\ WholeInv' /\ Newer' /\ PkgInv'
    <3>1. undoFailed' \in BOOLEAN /\ (~undoFailed' => ~undoFailed)
      BY <1>1, <2>1, Zenon DEF UTypeInv
    <3>2. disk' \in [Files -> [Slots -> Content]] /\ \A g \in Files, s \in Slots : disk'[g][s] = disk[g][s]
      BY <1>1, <2>1 DEF UTypeInv
    <3>3. Full(Self)' = Full(Self) /\ New(Self)' = New(Self) /\ \A g \in Files \ want : Full(g)' = Full(g)
      BY <2>2, Names
    <3>4. Self \in want => (New(Self)' \in Releases => New(Self)' = pkg)
      BY <1>4, <3>3 DEF UInv, SwapInv
    <3>5. pc' \in Swapping \cup {"failed"}
      BY <2>1
    <3> QED
      BY <1>2, <1>3, <1>4, <3>1, <3>2, <3>3, <3>4, <3>5, SwapRest
  <2>4. LoadInv'
    <3>1. Swapped = {}
      <4>1. DOMAIN steps = {}
        BY <1>5
      <4> QED
        BY <4>1 DEF Swapped
    <3>2. ~undoFailed => \A g \in want \ Swapped : Full(g) = before[g]
      BY <1>4 DEF UInv, SwapInv
    <3>3. \A g \in Files \ want : Full(g) = before[g]
      BY <1>4 DEF UInv, PkgInv
    <3>4. ~undoFailed => \A g \in Files : Full(g) = before[g]
      BY <3>1, <3>2, <3>3
    <3>5. ~undoFailed' => \A g \in Files : Full(g)' = before'[g]
      BY <2>1, <2>2, <3>4
    <3> QED
      BY <2>1, <3>5 DEF LoadInv, Loading
  <2>5. SwapInv'
    BY <2>1 DEF SwapInv, Swapping, Undoing
  <2> QED
    BY <2>3, <2>4, <2>5 DEF UInv
<1>6. CASE steps # <<>>
  <2>1. PICK n : n = Len(steps)
    OBVIOUS
  <2>2. PICK f : f = steps[n].file
    OBVIOUS
  <2>3. /\ n \in Nat /\ n > 0 /\ DOMAIN steps = 1 .. n /\ f \in want /\ f \in Files /\ Last(steps) = steps[n]
        /\ \A i \in 1 .. n : Kept(steps[i]) /\ steps[i].file \in Files /\ steps[i].old \in OldSlots \cup {"none"}
        /\ \A i \in 1 .. n, j \in 1 .. n : steps[i].file = steps[j].file => i = j
        /\ \A i \in 1 .. n : i # n => steps[i].file # f
        /\ \A i \in 1 .. n : i < n \/ pc = "undo" => Full(steps[i].file) = BuiltIn[steps[i].file][pkg]
        /\ ~undoFailed => \A g \in want \ Swapped : Full(g) = before[g]
        /\ Self \in want /\ New(Self) \in Releases => New(Self) = pkg
        /\ want \subseteq Files /\ BuiltIn[Self][pkg] = pkg
    BY <1>4, <1>6, <2>1, <2>2, UndoFacts
  <2>4. PICK done \in BOOLEAN : TryMove(f, "full", "new", TRUE, done) /\ undoFailed' = (undoFailed \/ ~done)
    BY <1>6, <2>2, <2>3 DEF UndoOut
  <2>5. pc' = "undoBack"
    BY <1>6 DEF UndoOut, Goto
  <2>6. /\ disk' \in [Files -> [Slots -> Content]]
        /\ done => /\ disk'[f]["new"] = disk[f]["full"] /\ disk'[f]["full"] = None
                   /\ \A s \in Slots : s # "new" /\ s # "full" => disk'[f][s] = disk[f][s]
                   /\ \A g \in Files, s \in Slots : g # f => disk'[g][s] = disk[g][s]
        /\ ~done => disk' = disk
    <3>1. PICK replace \in BOOLEAN : TryMove(f, "full", "new", replace, done)
      BY <2>4
    <3>2. "new" \in Slots /\ "full" \in Slots /\ "full" # "new"
      BY Names
    <3> QED
      BY <1>1, <2>3, <3>1, <3>2, TryMoveAt
  <2>7. /\ \A g \in Files : g # f \/ ~done => Full(g)' = Full(g) /\ New(g)' = New(g)
        /\ done => disk'[f]["new"] = BuiltIn[f][pkg] /\ disk'[f]["full"] = None
        /\ \A g \in Files, s \in OldSlots : disk'[g][s] = disk[g][s]
        /\ \A g \in Files, s \in Slots : disk'[g][s] = None \/ \E t \in Slots : disk'[g][s] = disk[g][t]
    <3>1. "full" \in Slots /\ "new" \in Slots /\ \A s \in OldSlots : s # "new" /\ s # "full" /\ s \in Slots
      BY Names
    <3>2. Full(f) = BuiltIn[f][pkg]
      <4>1. n \in 1 .. n
        BY <2>3
      <4> QED
        BY <1>2, <2>2, <2>3, <4>1
    <3>3. CASE done
      <4>1. \A g \in Files : g # f => Full(g)' = Full(g) /\ New(g)' = New(g)
        BY <2>6, <3>1, <3>3 DEF Full, New
      <4>2. disk'[f]["new"] = BuiltIn[f][pkg] /\ disk'[f]["full"] = None
        BY <2>6, <3>2, <3>3 DEF Full
      <4>3. \A g \in Files, s \in OldSlots : disk'[g][s] = disk[g][s]
        BY <2>6, <3>1, <3>3
      <4>4. \A g \in Files, s \in Slots : disk'[g][s] = None \/ \E t \in Slots : disk'[g][s] = disk[g][t]
        BY <2>6, <3>1, <3>3
      <4> QED
        BY <3>3, <4>1, <4>2, <4>3, <4>4
    <3>4. CASE ~done
      BY <2>6, <3>1, <3>4 DEF Full, New
    <3> QED
      BY <3>3, <3>4
  <2>8. Self \in want => /\ New(Self)' \in Releases => New(Self)' = pkg
                         /\ Full(Self)' = Full(Self) \/ Full(Self)' = None
    <3>1. CASE done /\ f = Self
      BY <2>3, <2>7, <3>1 DEF Full, New
    <3>2. CASE ~done \/ f # Self
      BY <2>3, <2>7, <3>2, Names
    <3> QED
      BY <3>1, <3>2
  <2>9. (~undoFailed' => ~undoFailed /\ done) /\ undoFailed' \in BOOLEAN
    BY <2>4
  <2>10. UTypeInv' /\ Running' /\ ToldInv' /\ (\E r \in Releases : Dated(r)') /\ WholeInv' /\ Newer' /\ PkgInv'
    <3>1. /\ \A g \in Files \ want : Full(g)' = Full(g)
          /\ Self \notin want => New(Self)' = New(Self)
      BY <2>3, <2>7, Names
    <3>2. pc' \in Swapping \cup {"failed"}
      BY <2>5 DEF Swapping, Undoing
    <3> QED
      BY <1>2, <1>3, <1>4, <2>6, <2>7, <2>8, <2>9, <3>1, <3>2, SwapRest
  <2>11. LoadInv'
    BY <2>5 DEF LoadInv, Loading
  <2>12. SwapInv'
    <3>1. want' = want /\ pkg' = pkg /\ steps' = steps /\ before' = before /\ n = Len(steps')
      BY <1>2, <2>1
    <3>2. ASSUME NEW i \in 1 .. n PROVE Kept(steps[i])'
      <4>1. PICK step : step = steps[i]
        OBVIOUS
      <4>2. step.old # "none" => disk'[step.file][step.old] = disk[step.file][step.old]
        BY <2>3, <2>7, <4>1
      <4>3. Kept(step)'
        BY <1>2, <2>3, <4>1, <4>2, KeptStays
      <4> QED
        BY <3>1, <4>1, <4>3 DEF Kept
    <3>3. ASSUME NEW i \in 1 .. n, i < n PROVE Full(steps[i].file)' = BuiltIn[steps[i].file][pkg]
      <4>1. PICK g : g = steps[i].file
        OBVIOUS
      <4>2. Full(g)' = Full(g) /\ Full(g) = BuiltIn[g][pkg]
        BY <2>3, <2>7, <3>3, <4>1
      <4> QED
        BY <3>1, <4>1, <4>2 DEF Full
    <3>4. Swapped' = Swapped /\ f \in Swapped
      <4>1. n \in DOMAIN steps
        BY <2>3
      <4> QED
        BY <2>2, <3>1, <4>1 DEF Swapped
    <3>5. ~undoFailed' => Full(steps[Len(steps)].file)' = None
      BY <2>2, <2>7, <2>9, <3>1 DEF Full
    <3>6. ~undoFailed' => \A g \in want' \ Swapped' : Full(g)' = before'[g]
      BY <2>3, <2>7, <2>9, <3>1, <3>4
    <3>7. \A i \in DOMAIN steps' : Kept(steps[i])'
      BY <2>3, <3>1, <3>2
    <3>8. \A i \in DOMAIN steps' : i < Len(steps') => Full(steps[i].file)' = BuiltIn[steps'[i].file][pkg']
      BY <2>3, <3>1, <3>3
    <3>9. \A i, j \in DOMAIN steps' : steps'[i].file = steps'[j].file => i = j
      BY <2>3, <3>1
    <3>10. Self \in want' /\ New(Self)' \in Releases => New(Self)' = pkg'
      BY <2>8, <3>1
    <3>11. steps' # <<>> /\ pc' \notin {"swap", "swapIn", "undo"} /\ pc' \in Undoing
      BY <1>6, <2>5, <3>1 DEF Undoing
    <3> QED
      BY <2>5, <3>5, <3>6, <3>7, <3>8, <3>9, <3>10, <3>11 DEF SwapInv
  <2> QED
    BY <2>10, <2>11, <2>12 DEF UInv
<1> QED
  BY <1>5, <1>6

\* The file it replaced comes back, unless that is refused.
LEMMA UndoBackStep == ASSUME UInv, UndoBack PROVE UInv'
<1>1. UTypeInv
  BY DEF UInv
<1>2. /\ pc = "undoBack" /\ pc' = "undo" /\ steps' = Front(steps)
      /\ UNCHANGED <<version, pkg, resume, want, at, told, published, before, kills>>
  BY DEF UndoBack, envVars, Goto
<1>3. pc \in Undoing /\ pc \in Swapping /\ pc \in Packing /\ steps # <<>>
  <2>1. pc \in Undoing /\ pc \in Swapping /\ pc \in Packing
    BY <1>2 DEF Undoing, Swapping, Packing
  <2> QED
    BY <1>2, <2>1 DEF UInv, SwapInv
<1>4. PICK n : n = Len(steps)
  OBVIOUS
<1>5. PICK f : f = steps[n].file
  OBVIOUS
<1>6. PICK old : old = steps[n].old
  OBVIOUS
<1>7. /\ n \in Nat /\ n > 0 /\ DOMAIN steps = 1 .. n /\ f \in want /\ f \in Files /\ Last(steps) = steps[n]
      /\ \A i \in 1 .. n : Kept(steps[i]) /\ steps[i].file \in Files /\ steps[i].old \in OldSlots \cup {"none"}
      /\ \A i \in 1 .. n, j \in 1 .. n : steps[i].file = steps[j].file => i = j
      /\ \A i \in 1 .. n : i # n => steps[i].file # f
      /\ \A i \in 1 .. n : i < n \/ pc = "undo" => Full(steps[i].file) = BuiltIn[steps[i].file][pkg]
      /\ ~undoFailed => \A g \in want \ Swapped : Full(g) = before[g]
      /\ ~undoFailed => Full(f) = None
      /\ Self \in want /\ New(Self) \in Releases => New(Self) = pkg
      /\ want \subseteq Files /\ BuiltIn[Self][pkg] = pkg
  BY <1>2, <1>3, <1>4, <1>5, UndoFacts
<1>8. /\ old \in OldSlots \cup {"none"}
      /\ old = "none" => before[f] = None
      /\ old # "none" => disk[f][old] = before[f]
  <2>1. n \in 1 .. n
    BY <1>7
  <2>2. Kept(steps[n]) /\ steps[n].old \in OldSlots \cup {"none"}
    BY <1>7, <2>1
  <2> QED
    BY <1>5, <1>6, <2>2 DEF Kept
<1>9. PICK done \in BOOLEAN :
        \/ old = "none" /\ ~done /\ disk' = disk /\ undoFailed' = undoFailed
        \/ old # "none" /\ TryMove(f, old, "full", FALSE, done) /\ undoFailed' = (undoFailed \/ ~done)
  <2>1. CASE old = "none"
    <3>1. disk' = disk /\ undoFailed' = undoFailed
      BY <1>6, <1>7, <2>1 DEF UndoBack, diskVars
    <3> QED
      BY <2>1, <3>1
  <2>2. CASE old # "none"
    <3>1. \E d \in BOOLEAN : TryMove(f, old, "full", FALSE, d) /\ undoFailed' = (undoFailed \/ ~d)
      BY <1>5, <1>6, <1>7, <2>2 DEF UndoBack
    <3> QED
      BY <2>2, <3>1
  <2> QED
    BY <2>1, <2>2
<1>10. /\ undoFailed' \in BOOLEAN /\ (~undoFailed' => ~undoFailed) /\ (~undoFailed' => done \/ old = "none")
  <2>1. undoFailed \in BOOLEAN
    BY <1>1, Zenon DEF UTypeInv
  <2>2. CASE old = "none" /\ undoFailed' = undoFailed
    BY <2>1, <2>2, Zenon
  <2>3. CASE undoFailed' = (undoFailed \/ ~done)
    BY <2>3
  <2> QED
    BY <1>9, <2>2, <2>3, Zenon
<1>11. /\ disk' \in [Files -> [Slots -> Content]]
       /\ done => /\ old \in OldSlots /\ disk'[f]["full"] = disk[f][old]
                  /\ \A s \in Slots : s # old /\ s # "full" => disk'[f][s] = disk[f][s]
                  /\ \A g \in Files, s \in Slots : g # f => disk'[g][s] = disk[g][s]
                  /\ disk'[f][old] = None
       /\ ~done => disk' = disk
  <2>1. CASE old = "none"
    <3>1. ~done /\ disk' = disk
      BY <1>9, <2>1
    <3> QED
      BY <1>1, <3>1 DEF UTypeInv
  <2>2. CASE old # "none"
    <3>1. PICK replace \in BOOLEAN : TryMove(f, old, "full", replace, done)
      BY <1>9, <2>2
    <3>2. old \in OldSlots /\ old \in Slots /\ "full" \in Slots /\ old # "full"
      BY <1>8, <2>2, Names
    <3> QED
      BY <1>1, <1>7, <3>1, <3>2, TryMoveAt
  <2> QED
    BY <2>1, <2>2
<1>12. /\ \A g \in Files : New(g)' = New(g) /\ (g # f \/ ~done => Full(g)' = Full(g))
       /\ done => disk'[f]["full"] = before[f]
       /\ \A g \in Files, s \in Slots : g # f => disk'[g][s] = disk[g][s]
       /\ \A g \in Files, s \in Slots : disk'[g][s] = None \/ \E t \in Slots : disk'[g][s] = disk[g][t]
  <2>1. "full" \in Slots /\ "new" \in Slots /\ "new" # "full" /\ \A s \in OldSlots : s # "new" /\ s # "full" /\ s # "none" /\ s \in Slots
    BY Names
  <2>2. CASE done
    <3>1. \A g \in Files : New(g)' = New(g) /\ (g # f => Full(g)' = Full(g))
      BY <1>11, <2>1, <2>2 DEF Full, New
    <3>2. disk'[f]["full"] = before[f]
      BY <1>8, <1>11, <2>1, <2>2
    <3>3. \A g \in Files, s \in Slots : g # f => disk'[g][s] = disk[g][s]
      BY <1>11, <2>2
    <3>4. \A g \in Files, s \in Slots : disk'[g][s] = None \/ \E t \in Slots : disk'[g][s] = disk[g][t]
      BY <1>11, <2>1, <2>2
    <3> QED
      BY <2>2, <3>1, <3>2, <3>3, <3>4
  <2>3. CASE ~done
    BY <1>11, <2>1, <2>3 DEF Full, New
  <2> QED
    BY <2>2, <2>3
<1>13. Self \in want => /\ New(Self)' \in Releases => New(Self)' = pkg
                        /\ Full(Self)' = Full(Self) \/ Full(Self)' = before[Self]
  <2>1. CASE done /\ f = Self
    BY <1>7, <1>12, <2>1 DEF Full
  <2>2. CASE ~done \/ f # Self
    BY <1>7, <1>12, <2>2, Names
  <2> QED
    BY <2>1, <2>2
<1>14. /\ steps' \in Seq([file : Files, old : OldSlots \cup {"none"}])
       /\ Len(steps') = n - 1 /\ DOMAIN steps' = 1 .. n - 1
       /\ \A i \in 1 .. n - 1 : steps'[i] = steps[i] /\ i \in 1 .. n /\ i < n
  <2>1. steps \in Seq([file : Files, old : OldSlots \cup {"none"}])
    BY <1>1 DEF UTypeInv
  <2>2. PICK m \in Int : m = n - 1 /\ m >= 0
    BY <1>7
  <2>3. \A i \in 1 .. m : steps[i] \in [file : Files, old : OldSlots \cup {"none"}]
    <3>1. \A i \in 1 .. m : i \in 1 .. Len(steps)
      BY <1>4, <1>7, <2>2
    <3> QED
      BY <2>1, <3>1, ElementOfSeq
  <2>4. steps' = SubSeq(steps, 1, m)
    BY <1>2, <1>4, <2>2 DEF Front
  <2>5. 1 \in Int
    OBVIOUS
  <2>6. /\ SubSeq(steps, 1, m) \in Seq([file : Files, old : OldSlots \cup {"none"}])
        /\ Len(SubSeq(steps, 1, m)) = IF 1 <= m THEN m - 1 + 1 ELSE 0
        /\ \A i \in 1 .. m - 1 + 1 : SubSeq(steps, 1, m)[i] = steps[1 + i - 1]
    BY <2>3, <2>5, SubSeqProperties
  <2>7. Len(SubSeq(steps, 1, m)) = m
    BY <2>2, <2>6
  <2>8. \A i \in 1 .. m : SubSeq(steps, 1, m)[i] = steps[i]
    <3>1. m - 1 + 1 = m /\ \A i \in 1 .. m : 1 + i - 1 = i
      BY <2>2
    <3> QED
      BY <2>6, <3>1
  <2>9. DOMAIN steps' = 1 .. Len(steps')
    BY <2>4, <2>6, LenProperties
  <2>10. \A i \in 1 .. n - 1 : i \in 1 .. n /\ i < n
    BY <1>7
  <2> QED
    BY <2>2, <2>4, <2>6, <2>7, <2>8, <2>9, <2>10
<1>15. UTypeInv' /\ Running' /\ ToldInv' /\ (\E r \in Releases : Dated(r)') /\ WholeInv' /\ Newer' /\ PkgInv'
  <2>1. at' \in Nat /\ at' > 0
    <3>1. at' = at
      BY <1>2
    <3> QED
      BY <1>1, <3>1 DEF UTypeInv
  <2>2. /\ \A g \in Files \ want : Full(g)' = Full(g)
        /\ Self \notin want => New(Self)' = New(Self)
    BY <1>7, <1>12, Names
  <2>3. pc' \in Swapping \cup {"failed"}
    BY <1>2 DEF Swapping, Undoing
  <2> QED
    BY <1>2, <1>3, <1>10, <1>11, <1>12, <1>13, <1>14, <2>1, <2>2, <2>3, SwapRest
<1>16. LoadInv'
  BY <1>2 DEF LoadInv, Loading
<1>17. SwapInv'
  <2>1. want' = want /\ pkg' = pkg /\ before' = before
    BY <1>2
  <2>2. ASSUME NEW i \in 1 .. n - 1 PROVE Kept(steps[i])'
    <3>1. PICK step : step = steps[i]
      OBVIOUS
    <3>2. step.file # f /\ step.file \in Files /\ Kept(step) /\ step.old \in OldSlots \cup {"none"}
      BY <1>7, <1>14, <3>1
    <3>3. step.old # "none" => disk'[step.file][step.old] = disk[step.file][step.old]
      BY <1>12, <3>2, Names
    <3>4. Kept(step)'
      BY <1>2, <3>2, <3>3, KeptStays
    <3>5. steps'[i] = step
      BY <1>14, <3>1
    <3> QED
      BY <3>4, <3>5 DEF Kept
  <2>3. ASSUME NEW i \in 1 .. n - 1 PROVE Full(steps[i].file)' = BuiltIn[steps'[i].file][pkg']
    <3>1. PICK g : g = steps[i].file
      OBVIOUS
    <3>2. Full(g)' = Full(g) /\ Full(g) = BuiltIn[g][pkg]
      BY <1>7, <1>12, <1>14, <3>1
    <3>3. steps'[i].file = g
      BY <1>14, <3>1
    <3> QED
      BY <2>1, <3>2, <3>3 DEF Full
  <2>4. Swapped' \cup {f} = Swapped
    <3>1. Swapped' = {steps'[i].file : i \in 1 .. n - 1}
      BY <1>14 DEF Swapped
    <3>2. Swapped = {steps[i].file : i \in 1 .. n}
      BY <1>7 DEF Swapped
    <3>3. \A i \in 1 .. n : i \in 1 .. n - 1 \/ i = n
      BY <1>7
    <3>4. n \in 1 .. n
      BY <1>7
    <3> QED
      BY <1>5, <1>14, <3>1, <3>2, <3>3, <3>4
  <2>5. ASSUME ~undoFailed', NEW g \in want' \ Swapped' PROVE Full(g)' = before'[g]
    <3>1. ~undoFailed /\ (done \/ old = "none") /\ g \in Files
      BY <1>7, <1>10, <2>1, <2>5
    <3>2. CASE g # f
      <4>1. Full(g) = before[g]
        BY <1>7, <2>1, <2>4, <3>1, <3>2
      <4> QED
        BY <1>12, <2>1, <3>1, <3>2, <4>1
    <3>3. CASE g = f /\ done
      BY <1>12, <2>1, <3>3 DEF Full
    <3>4. CASE g = f /\ old = "none" /\ ~done
      BY <1>7, <1>8, <1>12, <2>1, <3>1, <3>4
    <3> QED
      BY <3>1, <3>2, <3>3, <3>4
  <2>6. \A i, j \in DOMAIN steps' : steps'[i].file = steps'[j].file => i = j
    BY <1>7, <1>14
  <2>7. \A i \in DOMAIN steps' : Kept(steps[i])' /\ Full(steps[i].file)' = BuiltIn[steps'[i].file][pkg']
    BY <1>14, <2>2, <2>3
  <2>8. Self \in want' /\ New(Self)' \in Releases => New(Self)' = pkg'
    BY <1>13, <2>1
  <2>9. pc' \in Undoing
    BY <1>2 DEF Undoing
  <2> QED
    BY <1>2, <2>5, <2>6, <2>7, <2>8, <2>9 DEF SwapInv
<1> QED
  BY <1>15, <1>16, <1>17 DEF UInv

\* All of the package is in place.
LEMMA PackageInstalledStep ==
  ASSUME UInv, PackageInstalled
  PROVE  UInv' /\ told' = "package" /\ \A f \in Files : disk'[f]["full"] >= before[f]
<1>1. /\ pc = "swap" /\ at > Len(Manifest) /\ told' = "package" /\ pc' = "done"
      /\ UNCHANGED <<disk, version, pkg, resume, want, at, steps, published, before, kills, undoFailed>>
  BY DEF PackageInstalled, Goto, diskVars
<1>2. UTypeInv
  BY DEF UInv
<1>3. /\ pc \in Packing /\ pc \in Swapping /\ pc' \in Places /\ pc' \notin Aside /\ pc' \notin Packing
  BY <1>1 DEF Places, Packing, Loading, Swapping, Undoing, Aside
<1>4. \A f \in want : Full(f) = BuiltIn[f][pkg]
  <2>1. PassedBy(at - 1) = want
    BY <1>1, <1>2, Passing
  <2>2. Swapped = want /\ \A i \in DOMAIN steps : Full(steps[i].file) = BuiltIn[steps[i].file][pkg]
    BY <1>1, <1>3, <2>1 DEF UInv, SwapInv
  <2> QED
    BY <2>2 DEF Swapped
<1>5. /\ \A f \in Files : before[f] <= BuiltIn[f][pkg]
      /\ \A f \in Files \ want : Full(f) = before[f]
      /\ kills = 0 /\ ~undoFailed => \A f \in Files \ want : Full(f) = BuiltIn[f][pkg]
  BY <1>3 DEF UInv, PkgInv
<1>6. UTypeInv'
  <2>1. undoFailed' \in BOOLEAN
    BY <1>1, <1>2, Zenon DEF UTypeInv
  <2>2. disk' \in [Files -> [Slots -> Content]]
    BY <1>1, <1>2 DEF UTypeInv
  <2> QED
    BY <1>1, <1>2, <1>3, <2>1, <2>2, PendingTypes
<1>7. version # 0
  BY <1>1, NothingTold
<1>8. Running'
  BY <1>1, <1>7 DEF Running
<1>9. Newer'
  BY <1>1, <1>3 DEF UInv, Newer, Full, New
<1>10. \E r \in Releases : Dated(r)'
  BY <1>1 DEF UInv, Dated
<1>11. WholeInv'
  <2>1. kills = 0 => \A f \in Files : Full(f) # Part /\ New(f) # Part /\ \A s \in OldSlots : disk[f][s] # Part
    BY <1>1 DEF UInv, WholeInv
  <2> QED
    BY <1>1, <1>3, <2>1 DEF WholeInv, Full, New
<1>12. PkgInv' /\ LoadInv' /\ SwapInv'
  BY <1>1, <1>3 DEF PkgInv, LoadInv, SwapInv, Packing
<1>13. ToldInv'
  <2>1. kills = 0 /\ ~undoFailed => \A f \in Files : Full(f) = BuiltIn[f][pkg]
    BY <1>4, <1>5
  <2>2. pkg \in Releases
    BY <1>2 DEF UTypeInv
  <2>3. kills' = 0 /\ ~undoFailed' => \E r \in Releases : \A f \in Files : Full(f)' = BuiltIn[f][r]
    BY <1>1, <2>1, <2>2 DEF Full
  <2> QED
    BY <1>1, <2>3 DEF ToldInv
<1>14. ASSUME NEW f \in Files PROVE disk'[f]["full"] >= before[f]
  <2>1. Full(f) \in Int /\ before[f] \in Int
    BY <1>2, UpdaterTypes
  <2>2. Full(f) = before[f] \/ (Full(f) = BuiltIn[f][pkg] /\ before[f] <= BuiltIn[f][pkg])
    BY <1>4, <1>5
  <2>3. disk'[f]["full"] = Full(f)
    BY <1>1 DEF Full
  <2> QED
    BY <2>1, <2>2, <2>3
<1> QED
  BY <1>1, <1>6, <1>8, <1>9, <1>10, <1>11, <1>12, <1>13, <1>14 DEF UInv
-----------------------------------------------------------------------------
\* The update of the DLL alone.

\* The download is written beside the DLL, empty at first.
LEMMA DllOpenStep == ASSUME UInv, DllOpen PROVE UInv'
<1>1. /\ pc = "dllOpen"
      /\ UNCHANGED <<version, pkg, resume, want, at, steps, told, published, before, kills, undoFailed>>
      /\ \/ disk' = [disk EXCEPT ![Self]["new"] = Part] /\ pc' = "dllWrite"
         \/ disk' = disk /\ pc' = "done"
  BY DEF DllOpen, Goto, envVars
<1>2. UTypeInv
  BY DEF UInv
<1>3. /\ pc' \in Places /\ pc' \notin Aside /\ pc' \notin Packing /\ pc' # "check" /\ pc' # "idle"
      /\ pc # "done" /\ pc # "idle" /\ pc' \in {"dllWrite", "done"}
  BY <1>1 DEF Places, Packing, Loading, Swapping, Undoing, Aside
<1>4. /\ disk' \in [Files -> [Slots -> Content]]
      /\ (disk'[Self]["new"] = Part /\ pc' = "dllWrite") \/ disk' = disk
      /\ \A f \in Files, s \in Slots : (f # Self \/ s # "new") => disk'[f][s] = disk[f][s]
  <2>1. disk \in [Files -> [Slots -> Content]] /\ Self \in Files /\ "new" \in Slots /\ Part \in Content
    BY <1>2, Names DEF UTypeInv
  <2>2. CASE disk' = [disk EXCEPT ![Self]["new"] = Part] /\ pc' = "dllWrite"
    <3>1. disk' = [disk EXCEPT ![Self] = [disk[Self] EXCEPT !["new"] = Part]]
      BY <2>1, <2>2
    <3> QED
      BY <2>1, <2>2, <3>1
  <2>3. CASE disk' = disk
    BY <2>1, <2>3
  <2> QED
    BY <1>1, <2>2, <2>3
<1>5. UTypeInv'
  <2>1. undoFailed' \in BOOLEAN
    BY <1>1, <1>2, Zenon DEF UTypeInv
  <2> QED
    BY <1>1, <1>2, <1>3, <1>4, <2>1, PendingTypes
<1>6. Running' /\ ToldInv'
  BY <1>1, <1>3, Silent
<1>7. \A f \in Files : Full(f)' = Full(f) /\ (f # Self => New(f)' = New(f))
  BY <1>4, Names DEF Full, New
<1>8. New(Self)' = New(Self) \/ (New(Self)' = Part /\ pc' = "dllWrite")
  BY <1>4 DEF New
<1>9. Newer'
  BY <1>1, <1>3, <1>7, <1>8, Names DEF UInv, Newer
<1>10. \E r \in Releases : Dated(r)'
  <2>1. \A f \in Files, s \in Slots : disk'[f][s] = Part \/ disk'[f][s] = disk[f][s]
    BY <1>4
  <2>2. version' = version /\ published' = published
    BY <1>1
  <2> QED
    BY <2>1, <2>2, StillDated
<1>11. WholeInv'
  <2>1. kills = 0 => \A f \in Files : Full(f) # Part /\ New(f) # Part /\ \A s \in OldSlots : disk[f][s] # Part
    BY <1>1 DEF UInv, WholeInv
  <2>2. \A f \in Files, s \in OldSlots : disk'[f][s] = disk[f][s]
    BY <1>4, Names
  <2>3. kills = 0 => \A f \in Files : New(f)' = Part => pc' = "dllWrite" /\ f = Self
    BY <1>7, <1>8, <2>1
  <2>4. pc' \notin {"pending", "pendingAside", "check"} /\ kills' = kills
    BY <1>1, <1>3
  <2> QED
    BY <1>3, <1>7, <2>1, <2>2, <2>3, <2>4 DEF WholeInv
<1>12. LoadInv' /\ SwapInv'
  BY <1>3 DEF LoadInv, SwapInv, Packing, Loading, Swapping
<1>13. PkgInv'
  <2>1. version <= pkg /\ pkg <= published /\ Full(Self) <= pkg
    BY <1>1 DEF UInv, PkgInv
  <2>2. version' <= pkg' /\ pkg' <= published' /\ Full(Self)' <= pkg'
    BY <1>1, <1>7, <2>1, Names
  <2> QED
    BY <1>3, <2>2 DEF PkgInv
<1> QED
  BY <1>5, <1>6, <1>9, <1>10, <1>11, <1>12, <1>13 DEF UInv

\* It is written to its end, or removed.
LEMMA DllWriteStep == ASSUME UInv, DllWrite PROVE UInv'
<1>1. /\ pc = "dllWrite"
      /\ UNCHANGED <<version, pkg, want, at, steps, told, published, before, kills, undoFailed>>
      /\ \/ disk' = [disk EXCEPT ![Self]["new"] = pkg] /\ pc' = "pending" /\ resume' = "report"
         \/ disk' = [disk EXCEPT ![Self]["new"] = None] /\ pc' = "done" /\ resume' = resume
  BY DEF DllWrite, Goto, envVars
<1>2. UTypeInv
  BY DEF UInv
<1>3. /\ pc' \in Places /\ pc' \notin Aside /\ pc' \notin Packing /\ pc' # "check" /\ pc' # "idle"
      /\ pc # "done" /\ pc # "idle" /\ pc' \in {"pending", "done"} /\ pc # "failed" /\ pc # "receive"
  BY <1>1 DEF Places, Packing, Loading, Swapping, Undoing, Aside
<1>4. pkg \in Releases /\ pkg \in Content /\ Self \in Files /\ "new" \in Slots /\ None \in Content
  BY <1>2, Names DEF UTypeInv
<1>5. PICK v \in Content : /\ disk' = [disk EXCEPT ![Self]["new"] = v]
                           /\ \/ v = pkg /\ pc' = "pending" /\ resume' = "report"
                              \/ v = None /\ pc' = "done" /\ resume' = resume
  <2>1. CASE disk' = [disk EXCEPT ![Self]["new"] = pkg] /\ pc' = "pending" /\ resume' = "report"
    BY <1>4, <2>1, Zenon
  <2>2. CASE disk' = [disk EXCEPT ![Self]["new"] = None] /\ pc' = "done" /\ resume' = resume
    BY <1>4, <2>2, Zenon
  <2> QED
    BY <1>1, <2>1, <2>2
<1>6. /\ disk' \in [Files -> [Slots -> Content]]
      /\ disk'[Self]["new"] = v
      /\ \A f \in Files, s \in Slots : (f # Self \/ s # "new") => disk'[f][s] = disk[f][s]
  <2>1. disk \in [Files -> [Slots -> Content]]
    BY <1>2 DEF UTypeInv
  <2>2. disk' = [disk EXCEPT ![Self] = [disk[Self] EXCEPT !["new"] = v]]
    BY <1>5, <2>1
  <2> QED
    BY <1>4, <1>5, <2>1, <2>2
<1>7. UTypeInv'
  <2>1. undoFailed' \in BOOLEAN
    BY <1>1, <1>2, Zenon DEF UTypeInv
  <2>2. resume' \in {"check", "report"}
    BY <1>2, <1>5 DEF UTypeInv
  <2>3. at' \in Nat /\ at' > 0 /\ steps' \in Seq([file : Files, old : OldSlots \cup {"none"}])
    <3>1. at' = at /\ steps' = steps
      BY <1>1
    <3> QED
      BY <1>2, <3>1 DEF UTypeInv
  <2> QED
    BY <1>1, <1>2, <1>3, <1>6, <2>1, <2>2, <2>3, StillTyped
<1>8. Running' /\ ToldInv'
  BY <1>1, <1>3, Silent
<1>9. \A f \in Files : Full(f)' = Full(f) /\ (f # Self => New(f)' = New(f))
  BY <1>6, Names DEF Full, New
<1>10. New(Self)' = v /\ Full(Self)' = Full(Self)
  BY <1>4, <1>6, <1>9 DEF New
<1>11. version # 0 /\ version <= pkg /\ pkg <= published /\ Full(Self) <= pkg
  BY <1>1, <1>3, NothingTold DEF UInv, PkgInv
<1>12. Newer'
  <2>1. Full(Self) \in Releases => version <= Full(Self)
    BY <1>11 DEF UInv, Newer
  <2>2. v \in Releases => v = pkg
    BY <1>5, Names
  <2>3. New(Self)' \in Releases => New(Self)' <= published' /\ version' <= New(Self)' /\ Full(Self)' <= New(Self)'
    BY <1>1, <1>10, <1>11, <2>2
  <2>4. version' # 0 /\ Full(Self)' \in Releases => version' <= Full(Self)'
    BY <1>1, <1>10, <2>1
  <2> QED
    BY <1>3, <2>3, <2>4 DEF Newer
<1>13. \E r \in Releases : Dated(r)'
  <2>1. BuiltIn[Self][pkg] = pkg
    BY <1>4, UpdaterConstants
  <2>2. \A f \in Files, s \in Slots : disk'[f][s] = None \/ disk'[f][s] = disk[f][s] \/ disk'[f][s] = BuiltIn[f][pkg]
    BY <1>5, <1>6, <2>1
  <2>3. version' = version /\ published' = published
    BY <1>1
  <2> QED
    BY <1>11, <2>2, <2>3, StillDated
<1>14. WholeInv'
  <2>1. kills = 0 => \A f \in Files : Full(f) # Part /\ (f # Self => New(f) # Part) /\ \A s \in OldSlots : disk[f][s] # Part
    BY <1>1, <1>3 DEF UInv, WholeInv
  <2>2. \A f \in Files, s \in OldSlots : disk'[f][s] = disk[f][s]
    BY <1>6, Names
  <2>3. v # Part
    BY <1>4, <1>5, Names
  <2>4. kills = 0 => \A f \in Files : New(f)' # Part
    BY <1>9, <1>10, <2>1, <2>3
  <2>5. pc' = "done" \/ resume' # "check"
    BY <1>5
  <2>6. pc' \notin {"pendingAside", "check"} /\ kills' = kills
    BY <1>1, <1>3
  <2> QED
    BY <1>3, <1>9, <2>1, <2>2, <2>4, <2>5, <2>6 DEF WholeInv
<1>15. PkgInv' /\ LoadInv' /\ SwapInv'
  BY <1>3 DEF PkgInv, LoadInv, SwapInv, Packing, Loading, Swapping
<1> QED
  BY <1>7, <1>8, <1>12, <1>13, <1>14, <1>15 DEF UInv

\* What is said of it at the end.
LEMMA ReportStep == ASSUME UInv, ReportSwapped \/ ReportStaged PROVE UInv'
<1>1. /\ pc \in {"reportSwapped", "report"} /\ pc' = "done" /\ (told' = told \/ told' = "installed" \/ told' = "staged")
      /\ UNCHANGED <<disk, version, pkg, resume, want, at, steps, published, before, kills, undoFailed>>
  BY DEF ReportSwapped, ReportStaged, Goto, diskVars, envVars, faultVars
<1>2. UTypeInv
  BY DEF UInv
<1>3. /\ pc' \in Places /\ pc' \notin Aside /\ pc' \notin Packing /\ pc # "done" /\ pc # "idle"
      /\ pc # "failed" /\ pc # "receive" /\ pc # "dllWrite"
  BY <1>1 DEF Places, Packing, Loading, Swapping, Undoing, Aside
<1>4. told' # "unchanged" /\ told' # "package" /\ version # 0
  BY <1>1, <1>3, NothingTold
<1>5. UTypeInv'
  <2>1. undoFailed' \in BOOLEAN
    BY <1>1, <1>2, Zenon DEF UTypeInv
  <2>2. disk' \in [Files -> [Slots -> Content]]
    BY <1>1, <1>2 DEF UTypeInv
  <2> QED
    BY <1>1, <1>2, <1>3, <2>1, <2>2, PendingTypes
<1>6. Running'
  BY <1>1, <1>4 DEF Running
<1>7. Newer'
  BY <1>1, <1>3 DEF UInv, Newer, Full, New
<1>8. \E r \in Releases : Dated(r)'
  BY <1>1 DEF UInv, Dated
<1>9. WholeInv'
  <2>1. kills = 0 => \A f \in Files : Full(f) # Part /\ New(f) # Part /\ \A s \in OldSlots : disk[f][s] # Part
    BY <1>1, <1>3 DEF UInv, WholeInv
  <2> QED
    BY <1>1, <1>3, <2>1 DEF WholeInv, Full, New
<1>10. PkgInv' /\ LoadInv' /\ SwapInv' /\ ToldInv'
  BY <1>1, <1>3, <1>4, Outside
<1> QED
  BY <1>5, <1>6, <1>7, <1>8, <1>9, <1>10 DEF UInv
-----------------------------------------------------------------------------
\* The updater.

\* It holds in an installation of one release.
LEMMA UpdaterStart == UInit => UInv
<1> SUFFICES ASSUME UInit PROVE UInv
  OBVIOUS
<1>1. PICK r \in Releases : disk = [f \in Files |-> [s \in Slots |-> IF s = "full" THEN BuiltIn[f][r] ELSE None]]
  BY DEF UInit
<1>2. \A f \in Files : BuiltIn[f][r] \in Releases /\ BuiltIn[f][r] \in Content
  BY UpdaterConstants DEF Content
<1>3. /\ \A f \in Files, s \in Slots : disk[f][s] = IF s = "full" THEN BuiltIn[f][r] ELSE None
      /\ disk \in [Files -> [Slots -> Content]]
  BY <1>1, <1>2, Names
<1>4. \A f \in Files : Full(f) = BuiltIn[f][r] /\ New(f) = None /\ before[f] = Full(f) /\ \A s \in OldSlots : disk[f][s] = None
  <2>1. before = [f \in Files |-> disk[f]["full"]]
    BY DEF UInit
  <2>2. \A f \in Files : disk[f]["full"] = BuiltIn[f][r] /\ disk[f]["new"] = None
    BY <1>3, Names
  <2>3. \A f \in Files, s \in OldSlots : disk[f][s] = None
    BY <1>3, Names
  <2> QED
    BY <2>1, <2>2, <2>3 DEF Full, New
<1>5. /\ version = 0 /\ pc = "idle" /\ resume = "check" /\ pkg = 1 /\ published \in Releases
      /\ want = {} /\ at = 1 /\ steps = <<>> /\ told = "none" /\ kills = 0
  BY DEF UInit
<1>6. UTypeInv
  <2>1. before \in [Files -> Content]
    <3>1. before = [f \in Files |-> disk[f]["full"]]
      BY DEF UInit
    <3> QED
      BY <1>3, <3>1, Names
  <2>2. pkg \in Releases
    <3>1. PICK n \in Nat : n = Len(Tags) /\ Releases = 1 .. n
      BY UpdaterAssumption, LenProperties DEF Releases
    <3> QED
      BY <1>5, <3>1
  <2>3. steps \in Seq([file : Files, old : OldSlots \cup {"none"}])
    BY <1>5, EmptySteps, Zenon
  <2>4. undoFailed \in BOOLEAN
    BY DEF UInit
  <2> QED
    BY <1>3, <1>5, <2>1, <2>2, <2>3, <2>4 DEF UTypeInv, Places
<1>7. Running
  BY <1>5 DEF Running
<1>8. Newer
  BY <1>4, <1>5, Names DEF Newer, Aside
<1>9. PkgInv /\ LoadInv /\ SwapInv /\ ToldInv
  BY <1>5 DEF PkgInv, LoadInv, SwapInv, ToldInv, Packing, Loading, Swapping, Undoing
<1>10. WholeInv
  <2>1. \A f \in Files : Full(f) # Part /\ New(f) # Part /\ \A s \in OldSlots : disk[f][s] # Part
    <3>1. \A f \in Files : BuiltIn[f][r] # Part
      BY <1>2, Names
    <3> QED
      BY <1>4, <3>1, Names
  <2> QED
    BY <1>5, <2>1 DEF WholeInv, Aside
<1>11. Dated(r)
  <2>1. ASSUME NEW s \in Slots, disk[Self][s] \in Releases PROVE r <= disk[Self][s]
    <3>1. Self \in Files /\ None \notin Releases /\ BuiltIn[Self][r] = r
      BY Names, UpdaterConstants
    <3>2. disk[Self][s] = r /\ r \in Int
      BY <1>3, <2>1, <3>1, UpdaterNumbers
    <3> QED
      BY <3>2
  <2>2. ASSUME NEW f \in Files, NEW s \in Slots PROVE disk[f][s] <= BuiltIn[f][r]
    <3>1. BuiltIn[f][r] \in Int /\ BuiltIn[f][r] > 0 /\ None = 0
      BY <1>2, UpdaterNumbers
    <3> QED
      BY <1>3, <3>1
  <2> QED
    BY <1>5, <2>1, <2>2 DEF Dated
<1> QED
  BY <1>6, <1>7, <1>8, <1>9, <1>10, <1>11 DEF UInv

\* Every step of the process, of its player, of the helpers and of the site keeps it.
LEMMA UpdaterInv == ASSUME UInv, [UNext]_uvars PROVE UInv'
<1>1. CASE PlayerLaunches
  BY <1>1, UpdaterRest DEF PlayerLaunches, Launch, faultVars
<1>2. CASE Relaunch
  BY <1>2, UpdaterRest DEF Relaunch, Launch, faultVars
<1>3. CASE PlayerOpensKaillera
  BY <1>3, LoadStep DEF PlayerOpensKaillera
<1>4. CASE Reopen
  BY <1>4, LoadStep DEF Reopen
<1>5. CASE CloseKaillera \/ Kill
  BY <1>5, UnloadStep
<1>6. CASE ExitEmulator
  BY <1>6, UpdaterRest DEF ExitEmulator, envVars, faultVars
<1>7. CASE Publish
  BY <1>7, PublishStep
<1>8. CASE PendingClear
  BY <1>8, PendingClearStep
<1>9. CASE PendingAside
  BY <1>9, PendingAsideStep
<1>10. CASE PendingIn
  BY <1>10, PendingInStep
<1>11. CASE PendingBack
  BY <1>11, PendingBackStep
<1>12. CASE CheckPackage
  BY <1>12, CheckPackageStep
<1>13. CASE AskPackageUpdate
  BY <1>13, AskPackageUpdateStep
<1>14. CASE DownloadOpen
  BY <1>14, DownloadOpenStep
<1>15. CASE DownloadReceive
  BY <1>15, DownloadReceiveStep
<1>16. CASE DownloadsDone
  BY <1>16, DownloadsDoneStep
<1>17. CASE PackageFailed
  BY <1>17, PackageFailedStep
<1>18. CASE SwapAside
  BY <1>18, SwapAsideStep
<1>19. CASE SwapIn
  BY <1>19, SwapInStep
<1>20. CASE UndoOut
  BY <1>20, UndoOutStep
<1>21. CASE UndoBack
  BY <1>21, UndoBackStep
<1>22. CASE PackageInstalled
  BY <1>22, PackageInstalledStep
<1>23. CASE DllCheck
  BY <1>23, DllCheckStep
<1>24. CASE DllOpen
  BY <1>24, DllOpenStep
<1>25. CASE DllWrite
  BY <1>25, DllWriteStep
<1>26. CASE ReportSwapped \/ ReportStaged
  BY <1>26, ReportStep
<1>27. CASE HelperGivesUp
  BY <1>27, UpdaterRest DEF HelperGivesUp, diskVars, procVars, faultVars
<1>28. CASE UNCHANGED uvars
  BY <1>28, UpdaterRest DEF uvars, diskVars, procVars, envVars, faultVars
<1> QED
  BY <1>1, <1>2, <1>3, <1>4, <1>5, <1>6, <1>7, <1>8, <1>9, <1>10, <1>11, <1>12, <1>13, <1>14, <1>15, <1>16,
     <1>17, <1>18, <1>19, <1>20, <1>21, <1>22, <1>23, <1>24, <1>25, <1>26, <1>27, <1>28 DEF UNext

\* It says all that is promised of a failed update and of one that is reported as done.
LEMMA InvMeansAllOrNothing == UInv => AllOrNothing
BY DEF UInv, ToldInv, WholeInv, AllOrNothing, Full

\* Every failed update leaves what was installed, what is reported as installed is one release, and
\* nothing that was not completely received is installed as long as no process is killed: for every
\* package of files, every history of releases and however often a call of the file system is refused.
THEOREM SpecAllOrNothing == USpec => []AllOrNothing
<1>1. USpec => []UInv
  BY UpdaterStart, UpdaterInv, PTL DEF USpec
<1> QED
  BY <1>1, InvMeansAllOrNothing, PTL

\* A step that changes the DLL that is loaded changes no file, and only one reports a package.
LEMMA VersionOrDisk ==
  ASSUME UInv, [UNext]_uvars
  PROVE  /\ version # 0 => version' = version \/ disk' = disk
         /\ told' = "package" => told = "package" \/ PackageInstalled
<1>1. CASE PlayerLaunches \/ Relaunch \/ ExitEmulator \/ Publish \/ HelperGivesUp \/ UNCHANGED uvars
  BY <1>1 DEF PlayerLaunches, Relaunch, Launch, ExitEmulator, Publish, HelperGivesUp, uvars, diskVars, procVars
<1>2. CASE PlayerOpensKaillera \/ Reopen
  BY <1>2 DEF PlayerOpensKaillera, Reopen, LoadKaillera
<1>3. CASE CloseKaillera
  BY <1>3 DEF CloseKaillera
<1>4. CASE Kill
  BY <1>4 DEF Kill
<1>5. CASE PendingClear \/ PendingAside \/ PendingIn \/ PendingBack
  BY <1>5 DEF PendingClear, PendingAside, PendingIn, PendingBack
<1>6. CASE CheckPackage \/ AskPackageUpdate \/ DownloadOpen \/ DownloadReceive \/ DownloadsDone \/ PackageFailed
  BY <1>6 DEF CheckPackage, AskPackageUpdate, DownloadOpen, DownloadReceive, DownloadsDone, PackageFailed
<1>7. CASE SwapAside \/ SwapIn \/ UndoOut \/ UndoBack
  BY <1>7 DEF SwapAside, SwapIn, UndoOut, UndoBack
<1>8. CASE PackageInstalled
  BY <1>8 DEF PackageInstalled
<1>9. CASE DllCheck \/ DllOpen \/ DllWrite \/ ReportSwapped \/ ReportStaged
  BY <1>9 DEF DllCheck, DllOpen, DllWrite, ReportSwapped, ReportStaged
<1> QED
  BY <1>1, <1>2, <1>3, <1>4, <1>5, <1>6, <1>7, <1>8, <1>9 DEF UNext

\* No step takes the DLL below the version that runs, and no package takes a file back to an older
\* release, for every order of releases that CompareVersions can tell.
THEOREM SpecNoDowngrade == USpec => NoDowngrade
<1>1. USpec => []UInv
  BY UpdaterStart, UpdaterInv, PTL DEF USpec
<1>2. ASSUME UInv, [UNext]_uvars
      PROVE  [ /\ (version # 0 /\ disk'[Self]["full"] \in Releases) => disk'[Self]["full"] >= version
               /\ (told' = "package" /\ told # "package") => \A f \in Files : disk'[f]["full"] >= before[f] ]_uvars
  <2>1. UInv'
    BY <1>2, UpdaterInv
  <2>2. ASSUME version # 0, disk'[Self]["full"] \in Releases PROVE disk'[Self]["full"] >= version
    <3>1. version \in Nat /\ disk'[Self]["full"] \in Int
      BY <1>2, <2>2, UpdaterTypes, UpdaterNumbers DEF UInv
    <3>2. CASE version' = version
      <4>1. version' # 0 /\ Full(Self)' \in Releases => version' <= Full(Self)'
        BY <2>1 DEF UInv, Newer
      <4> QED
        BY <2>2, <3>1, <3>2, <4>1 DEF Full
    <3>3. CASE disk' = disk
      <4>1. version # 0 /\ Full(Self) \in Releases => version <= Full(Self)
        BY <1>2 DEF UInv, Newer
      <4> QED
        BY <2>2, <3>1, <3>3, <4>1 DEF Full
    <3> QED
      BY <1>2, <2>2, <3>2, <3>3, VersionOrDisk
  <2>3. ASSUME told' = "package", told # "package" PROVE \A f \in Files : disk'[f]["full"] >= before[f]
    <3>1. PackageInstalled
      BY <1>2, <2>3, VersionOrDisk
    <3> QED
      BY <1>2, <3>1, PackageInstalledStep
  <2> QED
    BY <2>2, <2>3
<1> QED
  BY <1>1, <1>2, PTL DEF USpec, NoDowngrade
-----------------------------------------------------------------------------
\* The login of WE Camp.


Kinds   == {"none", "login", "logout", "whoami", "ticket", "verify", "voice"}
Replies == {"none", "0", "200", "invalid_token", "not_linked", "waiting", "moved"}
Logins  == [token : 0 .. MaxTokens, user : Accounts \cup {0}, linked : BOOLEAN]
Inis    == [login : Logins, voice : BOOLEAN, voiceOf : Accounts \cup {0}]
Mems    == [login : Logins, voice : BOOLEAN]
Calls   == [kind : Kinds, token : Nat, key : BOOLEAN, game : Nat, tries : Nat, reply : Replies, login : Logins,
            found : Nat \cup {NotRead}]

\* Whoever holds a token was given it by the site, for an account.
Given(t)   == t \in 0 .. MaxTokens /\ (t # 0 => owner[t] # 0)
LoginOK(l) == l \in Logins /\ Given(l.token) /\ (l.token # 0 => l.user # 0)

SiteInv ==
  /\ owner \in [1 .. MaxTokens -> Accounts \cup {0}]
  /\ valid \subseteq 1 .. MaxTokens
  /\ \A t \in valid : owner[t] # 0

\* n02.ini and the windows, of which the functions that apply an answer make a new pair.
DiskOK(d) ==
  /\ d \in [saved : Inis, mem : [Windows -> Mems]]
  /\ LoginOK(d.saved.login)
  /\ \A v \in Windows : LoginOK(d.mem[v].login)

\* The window's own thread logs in and out; another asks with a token.  A refusal is about a
\* token that the site does not know, and will not know again.
UiOK(c) ==
  /\ c \in Calls /\ LoginOK(c.login)
  /\ c.kind = "login" => c.token \in Accounts /\ (c.reply = "200" => c.login.token # 0)
ThreadOK(c) ==
  /\ c \in Calls /\ LoginOK(c.login) /\ Given(c.token)
  /\ c.kind # "login"
  /\ ~c.key /\ c.reply = "invalid_token" => c.token \notin valid
CallInv ==
  /\ call \in [Windows -> [Callers -> Calls]]
  /\ \A v \in Windows : UiOK(call[v]["ui"]) /\ ThreadOK(call[v]["thread"])

\* Nothing else is begun in a window that logs in.
LoginInv == \A v \in Windows : call[v]["ui"].kind = "login" => mem[v].login.token = 0

AccountInv == SiteInv /\ DiskOK(Disk) /\ CallInv /\ LoginInv /\ voiceGame \in [Windows -> Nat]
-----------------------------------------------------------------------------
\* The site and the tokens

\* A token once given out stays given out, and an invalid one stays invalid.
SiteStep ==
  \A t \in 1 .. MaxTokens : owner[t] # 0 => (owner'[t] # 0 /\ (t \notin valid => t \notin valid'))

\* What the site gave out and refused stays so.
LEMMA SiteStepKeeps ==
  ASSUME SiteStep, SiteInv'
  PROVE  /\ \A t : Given(t) => Given(t)'
         /\ \A l : LoginOK(l) => LoginOK(l)'
         /\ \A c : UiOK(c) => UiOK(c)'
         /\ \A c : ThreadOK(c) => ThreadOK(c)'
         /\ \A d : DiskOK(d) => DiskOK(d)'
<1>1. \A t : Given(t) => Given(t)'
  BY DEF SiteStep, Given
<1>2. \A l : LoginOK(l) => LoginOK(l)'
  BY <1>1 DEF LoginOK
<1>3. \A c : UiOK(c) => UiOK(c)'
  BY <1>2 DEF UiOK
<1>4. ASSUME NEW c, ThreadOK(c) PROVE ThreadOK(c)'
  <2>1. c \in Calls /\ LoginOK(c.login)' /\ Given(c.token)' /\ c.kind # "login"
    BY <1>1, <1>2, <1>4 DEF ThreadOK
  <2>2. ASSUME ~c.key, c.reply = "invalid_token" PROVE c.token \notin valid'
    <3>1. c.token \notin valid /\ Given(c.token)
      BY <1>4, <2>2 DEF ThreadOK
    <3>2. CASE c.token = 0
      BY <3>2, AccountAssumption DEF SiteInv
    <3>3. CASE c.token # 0
      BY <3>1, <3>3, AccountAssumption DEF SiteStep, Given
    <3> QED
      BY <3>2, <3>3
  <2> QED
    BY <2>1, <2>2 DEF ThreadOK
<1>5. \A d : DiskOK(d) => DiskOK(d)'
  BY <1>2 DEF DiskOK
<1> QED
  BY <1>1, <1>2, <1>3, <1>4, <1>5
-----------------------------------------------------------------------------
\* What an answer does to n02.ini and the windows

\* Nobody is logged in with this.
LEMMA NoLoginOK == LoginOK(NoLogin) /\ NoLogin.token = 0
BY AccountAssumption DEF LoginOK, NoLogin, Logins, Given

\* Two pairs hold the same logins but for what they say of a Discord.
SameLogins(d, e) ==
  /\ e.saved.login.token = d.saved.login.token
  /\ \A v \in Windows : e.mem[v].login.token = d.mem[v].login.token

\* A login stays one when its Discord is told.
LEMMA LinkedOK ==
  ASSUME NEW l, LoginOK(l), NEW linked \in BOOLEAN
  PROVE  LoginOK([l EXCEPT !.linked = linked]) /\ [l EXCEPT !.linked = linked].token = l.token
BY DEF LoginOK, Logins

\* So it is with the login of one window and the one of n02.ini.
LEMMA PutOK ==
  ASSUME NEW d, DiskOK(d), NEW v \in Windows, NEW s \in Inis, NEW m \in Mems,
         LoginOK(s.login), LoginOK(m.login)
  PROVE  LET e == [saved |-> s, mem |-> [d.mem EXCEPT ![v] = m]]
         IN DiskOK(e) /\ e.saved = s /\ e.mem[v] = m /\ \A w \in Windows : w # v => e.mem[w] = d.mem[w]
BY DEF DiskOK

\* The choice of a voice call is no part of a login.
LEMMA SetVoiceOK ==
  ASSUME NEW d, DiskOK(d), NEW v \in Windows, NEW on \in BOOLEAN
  PROVE  DiskOK(SetVoice(d, v, on)) /\ SameLogins(d, SetVoice(d, v, on))
<1> DEFINE s == [d.saved EXCEPT !.voice = on]
           m == [d.mem[v] EXCEPT !.voice = on]
<1>1. s \in Inis /\ s.login = d.saved.login
  BY DEF DiskOK, Inis
<1>2. m \in Mems /\ m.login = d.mem[v].login
  BY DEF DiskOK, Mems
<1>3. SetVoice(d, v, on) = [saved |-> s, mem |-> [d.mem EXCEPT ![v] = m]]
  <2>1. SetVoice(d, v, on) = [d EXCEPT !.mem = [d.mem EXCEPT ![v] = m], !.saved = s]
    BY DEF SetVoice
  <2> HIDE DEF s, m
  <2> QED
    BY <2>1 DEF DiskOK
<1> HIDE DEF s, m
<1> QED
  BY <1>1, <1>2, <1>3, PutOK DEF DiskOK, SameLogins

\* ApplyDiscord leaves the tokens alone.
LEMMA ApplyDiscordOK ==
  ASSUME NEW d, DiskOK(d), NEW v \in Windows, NEW linked \in BOOLEAN
  PROVE  DiskOK(ApplyDiscord(d, v, linked)) /\ SameLogins(d, ApplyDiscord(d, v, linked))
<1> DEFINE sl == [d.saved.login EXCEPT !.linked = linked]
           ml == [d.mem[v].login EXCEPT !.linked = linked]
           s == [d.saved EXCEPT !.login = sl]
           m == [d.mem[v] EXCEPT !.login = ml]
           e == [d EXCEPT !.mem[v].login.linked = linked, !.saved.login.linked = linked]
           f == SetVoice(e, v, linked)
           user == d.mem[v].login.user
<1>1. LoginOK(sl) /\ sl.token = d.saved.login.token /\ LoginOK(ml) /\ ml.token = d.mem[v].login.token
  BY LinkedOK DEF DiskOK
<1>2. s \in Inis /\ s.login = sl
  BY <1>1 DEF DiskOK, Inis, LoginOK
<1>3. m \in Mems /\ m.login = ml
  BY <1>1 DEF DiskOK, Mems, LoginOK
<1>4. e = [saved |-> s, mem |-> [d.mem EXCEPT ![v] = m]]
  <2>1. e = [d EXCEPT !.mem = [d.mem EXCEPT ![v] = m], !.saved = s]
    OBVIOUS
  <2> HIDE DEF s, m, e
  <2> QED
    BY <2>1 DEF DiskOK
<1>5. DiskOK(e) /\ SameLogins(d, e)
  <2> HIDE DEF s, m, e, sl, ml
  <2> QED
    BY <1>1, <1>2, <1>3, <1>4, PutOK DEF DiskOK, SameLogins
<1>6. user \in Accounts \cup {0}
  BY DEF DiskOK, Mems, Logins
<1>7. DiskOK(f) /\ SameLogins(d, f)
  <2> HIDE DEF e
  <2> QED
    BY <1>5, SetVoiceOK DEF SameLogins
<1>8. DiskOK([f EXCEPT !.saved.voiceOf = user]) /\ SameLogins(d, [f EXCEPT !.saved.voiceOf = user])
  <2> HIDE DEF f, user
  <2>1. [f.saved EXCEPT !.voiceOf = user] \in Inis /\ [f.saved EXCEPT !.voiceOf = user].login = f.saved.login
    BY <1>6, <1>7 DEF DiskOK, Inis
  <2>2. [f EXCEPT !.saved.voiceOf = user] = [saved |-> [f.saved EXCEPT !.voiceOf = user], mem |-> f.mem]
    BY <1>7 DEF DiskOK
  <2> QED
    BY <1>7, <2>1, <2>2 DEF DiskOK, SameLogins
<1>9. ApplyDiscord(d, v, linked) =
        IF d.saved.voiceOf = user THEN e ELSE IF linked THEN [f EXCEPT !.saved.voiceOf = user] ELSE f
  BY DEF ApplyDiscord
<1> HIDE DEF e, f, user
<1> QED
  BY <1>5, <1>7, <1>8, <1>9

\* A window forgets its login.
LEMMA ForgetOK ==
  ASSUME NEW d, DiskOK(d), NEW v \in Windows
  PROVE  LET e == [d EXCEPT !.mem[v].login = NoLogin]
         IN /\ DiskOK(e) /\ e.saved = d.saved
            /\ e.mem[v].login.token = 0 /\ \A w \in Windows : w # v => e.mem[w] = d.mem[w]
<1> DEFINE m == [d.mem[v] EXCEPT !.login = NoLogin]
<1>1. m \in Mems /\ m.login = NoLogin
  BY NoLoginOK DEF DiskOK, Mems, LoginOK
<1>2. [d EXCEPT !.mem[v].login = NoLogin] = [saved |-> d.saved, mem |-> [d.mem EXCEPT ![v] = m]]
  BY DEF DiskOK
<1>3. d.saved \in Inis /\ LoginOK(d.saved.login)
  BY DEF DiskOK
<1> DEFINE e == [d EXCEPT !.mem[v].login = NoLogin]
<1>4. DiskOK(e) /\ e.saved = d.saved /\ e.mem[v] = m /\ \A w \in Windows : w # v => e.mem[w] = d.mem[w]
  <2>1. e = [saved |-> d.saved, mem |-> [d.mem EXCEPT ![v] = m]]
    BY <1>2
  <2> HIDE DEF m, e
  <2> QED
    BY <2>1, <1>1, <1>3, NoLoginOK, PutOK
<1> HIDE DEF m, e
<1> QED
  BY <1>1, <1>4, NoLoginOK DEF e

\* n02.ini forgets its login.
LEMMA ClearSavedLoginOK ==
  ASSUME NEW d, DiskOK(d)
  PROVE  /\ DiskOK(ClearSavedLogin(d)) /\ ClearSavedLogin(d).mem = d.mem
         /\ ClearSavedLogin(d).saved.login.token = 0
<1> DEFINE s == [d.saved EXCEPT !.login = NoLogin]
<1>1. s \in Inis /\ s.login = NoLogin
  BY NoLoginOK DEF DiskOK, Inis, LoginOK
<1>2. ClearSavedLogin(d) = [saved |-> s, mem |-> d.mem]
  BY DEF DiskOK, ClearSavedLogin
<1> HIDE DEF s
<1> QED
  BY <1>1, <1>2, NoLoginOK DEF DiskOK

-----------------------------------------------------------------------------
\* What a step does to the logins

\* The steps that make one pair of n02.ini and windows of another.
DiskStep ==
  /\ DiskOK([saved |-> saved', mem |-> mem'])
  /\ \A v \in Windows :
       (mem'[v].login.token # mem[v].login.token /\ mem[v].login.token # 0) =>
         \/ mem[v].login.token \notin valid
         \/ Waits(v, "ui", "logout")
         \/ Load(v)
  /\ \A v \in Windows :
       mem'[v].login.token # mem[v].login.token /\ mem'[v].login.token # 0 => call'[v]["ui"].kind # "login"
  /\ (saved.login.token # 0 /\ saved'.login.token = 0) =>
       \/ saved.login.token \notin valid
       \/ \E v \in Windows : Waits(v, "ui", "logout") \/ ClearsOvertaken(v)

\* A pair with the same logins.
LEMMA SameLoginsStep ==
  ASSUME NEW d, DiskOK(d), SameLogins(Disk, d), Becomes(d)
  PROVE  DiskStep
BY DEF DiskStep, SameLogins, Becomes, Disk, DiskOK

\* A window forgets the token that it was refused for, and keeps what n02.ini has.
LEMMA ForgetStep ==
  ASSUME AccountInv, NEW v \in Windows, ForgetRefusedLogin(v)
  PROVE  DiskStep
<1> DEFINE c == call[v]["thread"]
           e == [Disk EXCEPT !.mem[v].login = NoLogin]
<1>1. DiskOK(Disk) /\ Disk.mem = mem /\ Disk.saved = saved /\ c.token \notin valid
  BY DEF AccountInv, Disk, CallInv, ThreadOK, ForgetRefusedLogin, IsRefused
<1>2. CASE mem[v].login.token # c.token
  <2>1. saved' = saved /\ mem' = mem
    BY <1>2 DEF ForgetRefusedLogin
  <2> QED
    BY <1>1, <2>1 DEF DiskStep, Disk
<1>3. CASE mem[v].login.token = c.token
  <2>1. /\ DiskOK(e) /\ e.saved = saved
        /\ e.mem[v].login.token = 0 /\ \A w \in Windows : w # v => e.mem[w] = mem[w]
    BY <1>1, ForgetOK
  <2>2. saved' = saved /\ mem' = e.mem
    BY <1>3 DEF ForgetRefusedLogin, Disk
  <2>3. [saved |-> saved', mem |-> mem'] = e
    <3> HIDE DEF e
    <3> QED
      BY <2>1, <2>2 DEF DiskOK
  <2> HIDE DEF e, c
  <2> QED
    BY <1>1, <1>3, <2>1, <2>2, <2>3 DEF DiskStep
<1> QED
  BY <1>2, <1>3

\* n02.ini is cleared when the refused token was found there.
LEMMA RefusalStep ==
  ASSUME DiskOK(Disk), NEW v \in Windows, ThreadOK(call[v]["thread"]),
         Becomes(ClearRefused(call[v]["thread"])),
         IsRefused(call[v]["thread"]) => call'[v]["thread"] # call[v]["thread"]
  PROVE  DiskStep
<1> DEFINE c == call[v]["thread"]
           e == ClearSavedLogin(Disk)
<1>1. Disk.saved = saved /\ Disk.mem = mem
  BY DEF Disk
<1>2. CASE IsRefused(c) /\ c.found = c.token
  <2>1. DiskOK(e) /\ e.mem = mem
    BY <1>1, ClearSavedLoginOK
  <2>2. saved' = e.saved /\ mem' = mem
    BY <1>2, <2>1 DEF Becomes, ClearRefused
  <2>3. [saved |-> saved', mem |-> mem'] = e
    <3> HIDE DEF e
    <3> QED
      BY <2>1, <2>2 DEF DiskOK
  <2>4. saved.login.token \notin valid \/ ClearsOvertaken(v)
    BY <1>2 DEF IsRefused, ThreadOK, ClearsOvertaken
  <2> HIDE DEF e, c
  <2> QED
    BY <2>1, <2>2, <2>3, <2>4 DEF DiskStep
<1>3. CASE ~(IsRefused(c) /\ c.found = c.token)
  <2>1. saved' = saved /\ mem' = mem
    BY <1>1, <1>3 DEF Becomes, ClearRefused
  <2> QED
    BY <1>1, <2>1 DEF DiskStep, Disk
<1> QED
  BY <1>2, <1>3

\* n02_wecamp_load
LEMMA LoadsStep ==
  ASSUME AccountInv, NEW v \in Windows, Load(v)
  PROVE  DiskStep
<1> DEFINE l == IF saved.login.token = 0 THEN NoLogin ELSE saved.login
           m == [login |-> l, voice |-> saved.voice]
<1>1. DiskOK(Disk) /\ saved \in Inis /\ LoginOK(saved.login) /\ Disk.mem = mem
  BY DEF AccountInv, DiskOK, Disk
<1>2. LoginOK(l)
  BY <1>1, NoLoginOK
<1>3. m \in Mems /\ m.login = l
  <2> HIDE DEF l
  <2> QED
    BY <1>1, <1>2 DEF Mems, Inis, LoginOK
<1>4. mem' = [mem EXCEPT ![v] = m] /\ saved' = saved /\ call' = call /\ call[v]["ui"] = Idle
  BY DEF Load
<1>5. DiskOK([saved |-> saved', mem |-> mem']) /\ mem'[v] = m /\ \A w \in Windows : w # v => mem'[w] = mem[w]
  <2> HIDE DEF m, l
  <2> QED
    BY <1>1, <1>2, <1>3, <1>4, PutOK
<1>6. call'[v]["ui"].kind # "login"
  BY <1>4 DEF Idle
<1> QED
  BY <1>4, <1>5, <1>6 DEF DiskStep

\* n02_wecamp_login: only a window where nobody is logged in asks, and the answer brings a token.
LEMMA LoginStep ==
  ASSUME AccountInv, NEW v \in Windows, Login(v)
  PROVE  DiskStep
<1> DEFINE c == call[v]["ui"]
           in == [token |-> c.login.token, user |-> c.login.user, linked |-> mem[v].login.linked]
           s == [saved EXCEPT !.login = in]
           m == [mem[v] EXCEPT !.login = in]
           d == [mem |-> [mem EXCEPT ![v].login = in], saved |-> s]
           e == ApplyDiscord(d, v, c.login.linked)
<1>1. /\ DiskOK(Disk) /\ Disk.mem = mem /\ Disk.saved = saved
      /\ saved \in Inis /\ LoginOK(saved.login) /\ mem \in [Windows -> Mems] /\ LoginOK(mem[v].login)
  BY DEF AccountInv, DiskOK, Disk
<1>2. c \in Calls /\ LoginOK(c.login) /\ c.kind = "login" /\ mem[v].login.token = 0
  BY DEF AccountInv, CallInv, UiOK, LoginInv, Login, Waits
<1>3. CASE c.reply # "200"
  <2>1. saved' = saved /\ mem' = mem
    BY <1>3 DEF Login
  <2> QED
    BY <2>1, <1>1 DEF DiskStep, Disk
<1>4. CASE c.reply = "200"
  <2>1. c.login.token # 0 /\ call' = [call EXCEPT ![v]["ui"] = Idle] /\ call \in [Windows -> [Callers -> Calls]]
    BY <1>4 DEF AccountInv, CallInv, UiOK, Login, Waits, Done
  <2>2. Becomes(e)
    BY <1>4 DEF Login
  <2>3. LoginOK(in) /\ in.token = c.login.token
    BY <1>1, <1>2 DEF LoginOK, Logins, Mems
  <2>4. s \in Inis /\ s.login = in /\ m \in Mems /\ m.login = in
    <3> HIDE DEF in
    <3> QED
      BY <1>1, <2>3 DEF Inis, Mems, LoginOK
  <2>5. d = [saved |-> s, mem |-> [mem EXCEPT ![v] = m]]
    <3> HIDE DEF in, s
    <3> QED
      BY <1>1
  <2>6. /\ DiskOK(d) /\ d.saved.login.token = c.login.token /\ d.mem[v].login.token = c.login.token
        /\ \A w \in Windows : w # v => d.mem[w] = mem[w]
    <3> HIDE DEF in, s, m, d
    <3> QED
      BY <1>1, <2>3, <2>4, <2>5, PutOK
  <2>7. DiskOK(e) /\ SameLogins(d, e)
    <3> HIDE DEF in, s, m, d
    <3> QED
      BY <1>2, <2>6, ApplyDiscordOK DEF Calls, Logins
  <2>8. saved' = e.saved /\ mem' = e.mem /\ [saved |-> saved', mem |-> mem'] = e
    <3> HIDE DEF e
    <3> QED
      BY <2>2, <2>7 DEF Becomes, DiskOK
  <2>9. call'[v]["ui"].kind # "login"
    BY <2>1 DEF Callers, Idle
  <2> HIDE DEF e, d, c
  <2> QED
    BY <1>2, <2>1, <2>6, <2>7, <2>8, <2>9 DEF DiskStep, SameLogins
<1> QED
  BY <1>3, <1>4

\* n02_wecamp_logout
LEMMA LogoutStep ==
  ASSUME AccountInv, NEW v \in Windows, Logout(v)
  PROVE  DiskStep
<1> DEFINE e == [Disk EXCEPT !.mem[v].login = NoLogin]
           f == ClearSavedLogin(e)
<1>1. DiskOK(Disk) /\ Disk.mem = mem /\ Disk.saved = saved
  BY DEF AccountInv, Disk
<1>2. DiskOK(e) /\ e.mem[v].login.token = 0 /\ \A w \in Windows : w # v => e.mem[w] = mem[w]
  BY <1>1, ForgetOK
<1>3. DiskOK(f) /\ f.mem = e.mem
  <2> HIDE DEF e
  <2> QED
    BY <1>2, ClearSavedLoginOK
<1>4. saved' = f.saved /\ mem' = f.mem /\ Waits(v, "ui", "logout")
  BY DEF Logout, Becomes
<1>5. [saved |-> saved', mem |-> mem'] = f
  BY <1>3, <1>4 DEF DiskOK
<1> HIDE DEF e, f
<1> QED
  BY <1>2, <1>3, <1>4, <1>5 DEF DiskStep

\* The steps that leave both alone.
LEMMA QuietStep ==
  ASSUME AccountInv, UNCHANGED <<saved, mem>>
  PROVE  DiskStep
BY DEF DiskStep, AccountInv, Disk

\* Every other step that changes them.
LEMMA OtherDiskSteps ==
  ASSUME AccountInv, NEW v \in Windows,
         ChooseVoice(v) \/ RefreshDiscord(v) \/ GetTicket(v) \/ VerifyTicket(v) \/ VoiceEnds(v)
  PROVE  DiskStep
<1>1. DiskOK(Disk) /\ ThreadOK(call[v]["thread"]) /\ call[v]["thread"].login.linked \in BOOLEAN
  BY DEF AccountInv, CallInv, ThreadOK, Calls, Logins
<1>2. CASE ChooseVoice(v)
  <2>1. Becomes(SetVoice(Disk, v, ~mem[v].voice)) /\ (~mem[v].voice) \in BOOLEAN
    BY <1>2 DEF ChooseVoice
  <2> QED
    BY <1>1, <2>1, SetVoiceOK, SameLoginsStep
<1>3. CASE RefreshDiscord(v) /\ call[v]["thread"].reply = "200"
  <2>1. Becomes(ApplyDiscord(Disk, v, call[v]["thread"].login.linked))
    BY <1>3 DEF RefreshDiscord
  <2> QED
    BY <1>1, <2>1, ApplyDiscordOK, SameLoginsStep
<1>4. CASE ~(ChooseVoice(v) \/ (RefreshDiscord(v) /\ call[v]["thread"].reply = "200"))
  <2>1. Becomes(ClearRefused(call[v]["thread"]))
    BY <1>4 DEF RefreshDiscord, GetTicket, VerifyTicket, VoiceEnds
  <2>2. PICK c : c = call[v]["thread"] /\ c \in Calls
    BY <1>1 DEF ThreadOK
  <2>3. call \in [Windows -> [Callers -> Calls]] /\ "thread" \in Callers
    BY DEF AccountInv, CallInv, Callers
  <2>4. ASSUME IsRefused(c) PROVE call'[v]["thread"].reply = "none"
    <3>1. \/ call' = [call EXCEPT ![v]["thread"] = Idle]
          \/ call' = [call EXCEPT ![v]["thread"] = [c EXCEPT !.key = TRUE, !.reply = "none", !.found = NotRead]]
      BY <1>4, <2>2, <2>4 DEF RefreshDiscord, GetTicket, VerifyTicket, VoiceEnds, Done, IsRefused
    <3>2. PICK e : e.reply = "none" /\ call' = [call EXCEPT ![v]["thread"] = e]
      <4>1. Idle.reply = "none"
        BY DEF Idle
      <4>2. [c EXCEPT !.key = TRUE, !.reply = "none", !.found = NotRead].reply = "none"
        BY <2>2 DEF Calls
      <4> QED
        BY <3>1, <4>1, <4>2
    <3> QED
      BY <2>3, <3>2
  <2>5. IsRefused(c) => call'[v]["thread"] # c
    BY <2>4 DEF IsRefused
  <2> QED
    BY <1>1, <2>1, <2>2, <2>5, RefusalStep
<1> QED
  BY <1>2, <1>3, <1>4
-----------------------------------------------------------------------------
\* The requests

\* A call that is over, or was never made.
LEMMA IdleOK == UiOK(Idle) /\ ThreadOK(Idle)
BY NoLoginOK, AccountAssumption DEF UiOK, ThreadOK, Idle, Calls, Kinds, Replies, LoginOK, Given, NotRead

\* One of the two threads of a window goes on.
LEMMA UiGoesOn ==
  ASSUME AccountInv, SiteStep, SiteInv', NEW v \in Windows, NEW c, UiOK(c)',
         call' = [call EXCEPT ![v]["ui"] = c]
  PROVE  CallInv' /\ call'[v]["ui"] = c /\ \A w \in Windows : w # v => call'[w] = call[w]
<1>1. call \in [Windows -> [Callers -> Calls]] /\ c \in Calls
  BY DEF AccountInv, CallInv, UiOK
<1>2. /\ call' \in [Windows -> [Callers -> Calls]] /\ call'[v]["ui"] = c /\ call'[v]["thread"] = call[v]["thread"]
      /\ \A w \in Windows : w # v => call'[w] = call[w]
  BY <1>1 DEF Callers
<1>3. \A w \in Windows : UiOK(call[w]["ui"])' /\ ThreadOK(call[w]["thread"])'
  BY <1>2, SiteStepKeeps DEF AccountInv, CallInv
<1> QED
  BY <1>2, <1>3 DEF CallInv
LEMMA ThreadGoesOn ==
  ASSUME AccountInv, SiteStep, SiteInv', NEW v \in Windows, NEW c, ThreadOK(c)',
         call' = [call EXCEPT ![v]["thread"] = c]
  PROVE  CallInv' /\ \A w \in Windows : call'[w]["ui"] = call[w]["ui"]
<1>1. call \in [Windows -> [Callers -> Calls]] /\ c \in Calls
  BY DEF AccountInv, CallInv, ThreadOK
<1>2. /\ call' \in [Windows -> [Callers -> Calls]] /\ call'[v]["thread"] = c
      /\ \A w \in Windows : call'[w]["ui"] = call[w]["ui"]
      /\ \A w \in Windows : w # v => call'[w] = call[w]
  BY <1>1 DEF Callers
<1>3. \A w \in Windows : UiOK(call[w]["ui"])' /\ ThreadOK(call[w]["thread"])'
  BY <1>2, SiteStepKeeps DEF AccountInv, CallInv
<1> QED
  BY <1>2, <1>3 DEF CallInv

\* What every step does to the site and the requests: a login is only begun where nobody is logged in.
CallStep ==
  /\ SiteStep /\ SiteInv' /\ CallInv'
  /\ \A v \in Windows : call'[v]["ui"].kind = "login" => mem[v].login.token = 0

\* While the site stands still.
LEMMA SiteRests == SiteInv /\ UNCHANGED <<owner, valid>> => SiteStep /\ SiteInv'
BY DEF SiteInv, SiteStep

\* Steps that make no request and answer none.
LEMMA CallRests ==
  ASSUME AccountInv, SiteStep, SiteInv', UNCHANGED call
  PROVE  CallStep
<1>1. CallInv'
  BY SiteStepKeeps DEF AccountInv, CallInv
<1> QED
  BY <1>1 DEF CallStep, AccountInv, LoginInv

\* HttpsRequest, however it ends, to the other thread's request.
LEMMA ThreadAnswered ==
  ASSUME AccountInv, UNCHANGED <<owner, valid>>, NEW v \in Windows, NEW reply \in Replies, NEW l, LoginOK(l),
         reply = "invalid_token" => call[v]["thread"].token \notin valid,
         Answered(v, "thread", reply, l)
  PROVE  CallStep
<1>1. SiteStep /\ SiteInv'
  BY SiteRests DEF AccountInv
<1>2. PICK c : c = call[v]["thread"]
  OBVIOUS
<1>3. PICK e : e = [[c EXCEPT !.reply = reply] EXCEPT !.login = l]
  OBVIOUS
<1>4. ThreadOK(c) /\ c \in Calls
  BY <1>2 DEF AccountInv, CallInv, ThreadOK
<1>5. l \in Logins
  BY DEF LoginOK
<1>6. call' = [call EXCEPT ![v]["thread"] = e]
  <2>1. call' = [call EXCEPT ![v]["thread"] = [[call[v]["thread"] EXCEPT !.reply = reply] EXCEPT !.login = l]]
    BY DEF Answered, AccountInv, CallInv, Callers
  <2> QED
    BY <1>2, <1>3, <2>1
<1>7. e \in Calls /\ e.reply = reply /\ e.login = l /\ e.kind = c.kind /\ e.token = c.token /\ e.key = c.key
  BY <1>3, <1>4, <1>5 DEF Calls
<1>8. ThreadOK(e)
  BY <1>2, <1>4, <1>5, <1>7 DEF ThreadOK
<1>9. ThreadOK(e)'
  BY <1>1, <1>8, SiteStepKeeps
<1> QED
  BY <1>1, <1>6, <1>9, ThreadGoesOn DEF CallStep, AccountInv, LoginInv

\* And to the one of the window's own thread.
LEMMA UiAnswered ==
  ASSUME AccountInv, SiteStep, SiteInv', NEW v \in Windows, NEW reply \in Replies, NEW l, LoginOK(l)',
         reply = "200" /\ call[v]["ui"].kind = "login" => l.token # 0,
         Answered(v, "ui", reply, l)
  PROVE  CallStep
<1>1. PICK c : c = call[v]["ui"]
  OBVIOUS
<1>2. PICK e : e = [[c EXCEPT !.reply = reply] EXCEPT !.login = l]
  OBVIOUS
<1>3. UiOK(c) /\ c \in Calls /\ l \in Logins
  BY <1>1 DEF AccountInv, CallInv, UiOK, LoginOK
<1>4. call' = [call EXCEPT ![v]["ui"] = e]
  <2>1. call' = [call EXCEPT ![v]["ui"] = [[call[v]["ui"] EXCEPT !.reply = reply] EXCEPT !.login = l]]
    BY DEF Answered, AccountInv, CallInv, Callers
  <2> QED
    BY <1>1, <1>2, <2>1
<1>5. e \in Calls /\ e.reply = reply /\ e.login = l /\ e.kind = c.kind /\ e.token = c.token
  BY <1>2, <1>3 DEF Calls
<1>6. UiOK(e)'
  BY <1>1, <1>3, <1>5 DEF UiOK
<1>7. CallInv' /\ call'[v]["ui"] = e /\ \A w \in Windows : w # v => call'[w] = call[w]
  BY <1>4, <1>6, UiGoesOn
<1>8. \A w \in Windows : call'[w]["ui"].kind = call[w]["ui"].kind
  BY <1>1, <1>5, <1>7
<1> QED
  BY <1>7, <1>8 DEF CallStep, AccountInv, LoginInv

\* The site gives a new token to whoever logs in, whether the answer arrives or not.
LEMMA SiteLogsInStep ==
  ASSUME AccountInv, NEW v \in Windows, SiteLogsIn(v)
  PROVE  CallStep
<1>1. PICK a : a = call[v]["ui"].token
  OBVIOUS
<1>2. call[v]["ui"].kind = "login" /\ a \in Accounts /\ a # 0
  BY <1>1, AccountAssumption DEF SiteLogsIn, AccountInv, CallInv, UiOK
<1>3. PICK t \in 1 .. MaxTokens :
        /\ owner[t] = 0
        /\ owner' = [owner EXCEPT ![t] = a] /\ valid' = valid \cup {t}
        /\ \/ Answered(v, "ui", "200", [token |-> t, user |-> a, linked |-> a \in discord])
           \/ Answered(v, "ui", "0", NoLogin)
  BY <1>1 DEF SiteLogsIn
<1>4. SiteStep /\ SiteInv' /\ owner'[t] = a
  BY <1>2, <1>3 DEF SiteStep, SiteInv, AccountInv
<1>5. CASE Answered(v, "ui", "0", NoLogin)
  BY <1>4, <1>5, NoLoginOK, SiteStepKeeps, UiAnswered DEF Replies
<1>6. CASE Answered(v, "ui", "200", [token |-> t, user |-> a, linked |-> a \in discord])
  <2>1. PICK l : l = [token |-> t, user |-> a, linked |-> a \in discord]
    OBVIOUS
  <2>2. LoginOK(l)' /\ l.token # 0
    BY <2>1, <1>2, <1>4, AccountAssumption DEF LoginOK, Logins, Given
  <2>3. Answered(v, "ui", "200", l)
    BY <2>1, <1>6
  <2> QED
    BY <1>4, <2>2, <2>3, UiAnswered DEF Replies
<1> QED
  BY <1>3, <1>5, <1>6

\* The other answers, and what the user does on the site.
LEMMA SiteSteps ==
  ASSUME AccountInv, OnTheSite \/ \E v \in Windows : SiteLogsIn(v) \/ SiteLogsOut(v) \/ SiteAnswers(v)
                                                \/ \E s \in Callers : Unreachable(v, s)
  PROVE  CallStep
<1>1. CASE OnTheSite
  <2>1. SiteStep /\ SiteInv' /\ UNCHANGED call
    BY <1>1 DEF OnTheSite, SiteStep, SiteInv, AccountInv
  <2> QED
    BY <2>1, CallRests
<1>2. ASSUME NEW v \in Windows, SiteLogsOut(v) PROVE CallStep
  <2>1. SiteStep /\ SiteInv'
    BY <1>2 DEF SiteLogsOut, SiteStep, SiteInv, AccountInv
  <2>2. Answered(v, "ui", "200", NoLogin) /\ call[v]["ui"].kind # "login"
    BY <1>2 DEF SiteLogsOut
  <2> QED
    BY <2>1, <2>2, NoLoginOK, SiteStepKeeps, UiAnswered DEF Replies
<1>3. ASSUME NEW v \in Windows, Unreachable(v, "ui") PROVE CallStep
  <2>1. SiteStep /\ SiteInv' /\ Answered(v, "ui", "0", NoLogin)
    BY <1>3, SiteRests DEF Unreachable, siteVars, AccountInv
  <2> QED
    BY <2>1, NoLoginOK, SiteStepKeeps, UiAnswered DEF Replies
<1>4. ASSUME NEW v \in Windows, Unreachable(v, "thread") PROVE CallStep
  <2>1. UNCHANGED <<owner, valid>> /\ Answered(v, "thread", "0", NoLogin)
    BY <1>4 DEF Unreachable, siteVars
  <2> QED
    BY <2>1, NoLoginOK, ThreadAnswered DEF Replies
<1>5. ASSUME NEW v \in Windows, SiteAnswers(v) PROVE CallStep
  <2>1. PICK c : c = call[v]["thread"]
    OBVIOUS
  <2>2. UNCHANGED <<owner, valid>>
    BY <1>5 DEF SiteAnswers, siteVars
  <2>3. CASE ~c.key /\ c.token \notin valid
    <3>1. Answered(v, "thread", "invalid_token", NoLogin)
      BY <1>5, <2>1, <2>3 DEF SiteAnswers
    <3> QED
      BY <2>1, <2>2, <2>3, <3>1, NoLoginOK, ThreadAnswered DEF Replies
  <2>4. CASE c.kind # "voice" /\ ~(~c.key /\ c.token \notin valid)
    <3> DEFINE whose == IF c.token = 0 THEN 0 ELSE owner[c.token]
               l == [NoLogin EXCEPT !.linked = whose \in discord]
    <3>1. Answered(v, "thread", "200", l)
      BY <1>5, <2>1, <2>4 DEF SiteAnswers
    <3>2. LoginOK(l)
      <4>1. LoginOK([NoLogin EXCEPT !.linked = TRUE]) /\ LoginOK([NoLogin EXCEPT !.linked = FALSE])
        BY NoLoginOK, LinkedOK
      <4>2. CASE whose \in discord
        <5>1. (whose \in discord) = TRUE
          BY <4>2
        <5> QED
          BY <4>1, <5>1
      <4>3. CASE ~(whose \in discord)
        <5>1. (whose \in discord) = FALSE
          BY <4>3
        <5> QED
          BY <4>1, <5>1
      <4> QED
        BY <4>2, <4>3
    <3> HIDE DEF l
    <3> QED
      BY <2>2, <3>1, <3>2, ThreadAnswered DEF Replies
  <2>5. CASE c.kind = "voice" /\ ~(~c.key /\ c.token \notin valid)
    <3>1. \E reply \in {"not_linked", "waiting", "moved"} : Answered(v, "thread", reply, NoLogin)
      BY <1>5, <2>1, <2>5 DEF SiteAnswers
    <3> QED
      BY <2>2, <3>1, NoLoginOK, ThreadAnswered DEF Replies
  <2> QED
    BY <2>3, <2>4, <2>5
<1> QED
  BY <1>1, <1>2, <1>3, <1>4, <1>5, SiteLogsInStep DEF Callers

\* The window's own thread begins to log in or out, or is done.
LEMMA UiSteps ==
  ASSUME AccountInv, NEW v \in Windows, AskLogin(v) \/ Login(v) \/ AskLogout(v) \/ Logout(v)
  PROVE  CallStep
<1>1. UNCHANGED <<owner, valid>> /\ DiskOK(Disk) /\ Disk.mem = mem
  BY DEF AskLogin, Login, AskLogout, Logout, siteVars, AccountInv, Disk
<1>2. SiteStep /\ SiteInv'
  BY <1>1, SiteRests DEF AccountInv
<1>3. ASSUME NEW c, UiOK(c), call' = [call EXCEPT ![v]["ui"] = c],
             c.kind = "login" => mem[v].login.token = 0
      PROVE  CallStep
  <2>1. UiOK(c)'
    BY <1>2, <1>3, SiteStepKeeps
  <2>2. CallInv' /\ call'[v]["ui"] = c /\ \A w \in Windows : w # v => call'[w] = call[w]
    BY <1>2, <1>3, <2>1, UiGoesOn
  <2> QED
    BY <1>2, <1>3, <2>2 DEF CallStep, AccountInv, LoginInv
<1>4. CASE AskLogin(v)
  <2>1. mem[v].login.token = 0
    BY <1>1, <1>4 DEF AskLogin, LoggedIn, DiskOK, LoginOK
  <2>2. PICK a \in Accounts : Asks(v, "ui", "login", a, FALSE)
    BY <1>4 DEF AskLogin
  <2>3. PICK c : c = [Idle EXCEPT !.kind = "login", !.token = a, !.key = FALSE]
    OBVIOUS
  <2>4. UiOK(c)
    BY <2>3, NoLoginOK, AccountAssumption DEF UiOK, Idle, Calls, Kinds, Replies, LoginOK
  <2>5. call' = [call EXCEPT ![v]["ui"] = c]
    BY <2>2, <2>3 DEF Asks
  <2> QED
    BY <1>3, <2>1, <2>4, <2>5
<1>5. CASE AskLogout(v)
  <2>1. Given(mem[v].login.token) /\ Asks(v, "ui", "logout", mem[v].login.token, FALSE)
    BY <1>1, <1>5 DEF AskLogout, DiskOK, LoginOK
  <2>2. PICK t : t = mem[v].login.token /\ t \in Nat
    BY <2>1, AccountAssumption DEF Given
  <2>3. PICK c : c = [Idle EXCEPT !.kind = "logout", !.token = t, !.key = FALSE]
    OBVIOUS
  <2>4. UiOK(c) /\ c.kind # "login"
    BY <2>2, <2>3, NoLoginOK DEF UiOK, Idle, Calls, Kinds, Replies, LoginOK
  <2>5. call' = [call EXCEPT ![v]["ui"] = c]
    BY <2>1, <2>2, <2>3 DEF Asks
  <2> QED
    BY <1>3, <2>4, <2>5
<1>6. CASE Login(v) \/ Logout(v)
  BY <1>3, <1>6, IdleOK DEF Login, Logout, Done, Idle
<1> QED
  BY <1>4, <1>5, <1>6

\* A new request goes with a token that the site gave out.
LEMMA NewThreadOK ==
  ASSUME NEW kind \in Kinds \ {"login"}, NEW t, Given(t), NEW key \in BOOLEAN, NEW game \in Nat, NEW c,
         \/ c = [Idle EXCEPT !.kind = kind, !.token = t]
         \/ c = [Idle EXCEPT !.kind = kind, !.token = t, !.key = key]
         \/ c = [Idle EXCEPT !.kind = kind, !.token = t, !.game = game]
  PROVE  ThreadOK(c)
<1>1. t \in Nat
  BY AccountAssumption DEF Given
<1>2. c \in Calls /\ c.login = NoLogin /\ c.token = t /\ c.kind = kind /\ c.reply = "none"
  <2> USE <1>1, NoLoginOK DEF Idle, Calls, Kinds, Replies, LoginOK
  <2>1. CASE c = [Idle EXCEPT !.kind = kind, !.token = t]
    BY <2>1
  <2>2. CASE c = [Idle EXCEPT !.kind = kind, !.token = t, !.key = key]
    BY <2>2
  <2>3. CASE c = [Idle EXCEPT !.kind = kind, !.token = t, !.game = game]
    BY <2>3
  <2> QED
    BY <2>1, <2>2, <2>3
<1> QED
  BY <1>2, NoLoginOK DEF ThreadOK

\* The other threads.
LEMMA ThreadSteps ==
  ASSUME AccountInv, NEW v \in Windows,
         \/ AskInThread(v) \/ ForgetRefusedLogin(v) \/ RefreshDiscord(v) \/ GetTicket(v) \/ VerifyTicket(v)
         \/ StartVoice(v) \/ VoiceWaits(v) \/ VoiceEnds(v)
  PROVE  CallStep
<1>1. UNCHANGED <<owner, valid>> /\ Given(mem[v].login.token) /\ ThreadOK(call[v]["thread"])
  BY DEF AskInThread, ForgetRefusedLogin, RefreshDiscord, GetTicket, VerifyTicket, StartVoice, VoiceWaits,
         VoiceEnds, siteVars, AccountInv, Disk, DiskOK, LoginOK, CallInv
<1>2. SiteStep /\ SiteInv'
  BY <1>1, SiteRests DEF AccountInv
<1>3. ASSUME NEW c, ThreadOK(c), call' = [call EXCEPT ![v]["thread"] = c]
      PROVE  CallStep
  <2>1. ThreadOK(c)'
    BY <1>2, <1>3, SiteStepKeeps
  <2> QED
    BY <1>2, <1>3, <2>1, ThreadGoesOn DEF CallStep, AccountInv, LoginInv
<1>4. PICK c : c = call[v]["thread"]
  OBVIOUS
<1>5. PICK t : t = mem[v].login.token
  OBVIOUS
<1>6. CASE call' = [call EXCEPT ![v]["thread"] = Idle]
  BY <1>3, <1>6, IdleOK
<1>7. CASE AskInThread(v)
  <2>1. PICK kind \in {"whoami", "ticket", "verify"}, allowKey \in BOOLEAN : AskWith(v, kind, allowKey)
    BY <1>7 DEF AskInThread
  <2>2. PICK key \in BOOLEAN : Asks(v, "thread", kind, mem[v].login.token, key)
    BY <2>1 DEF AskWith
  <2>3. PICK e : e = [Idle EXCEPT !.kind = kind, !.token = t, !.key = key]
    OBVIOUS
  <2>4. call' = [call EXCEPT ![v]["thread"] = e]
    BY <1>5, <2>2, <2>3 DEF Asks
  <2>5. ThreadOK(e)
    BY <1>1, <1>5, <2>3, NewThreadOK DEF Kinds
  <2> QED
    BY <1>3, <2>4, <2>5
<1>8. CASE StartVoice(v)
  <2>1. PICK g \in Nat : g = voiceGame[v] + 1
    BY DEF AccountInv
  <2>2. PICK e : e = [Idle EXCEPT !.kind = "voice", !.token = t, !.game = g]
    OBVIOUS
  <2>3. call' = [call EXCEPT ![v]["thread"] = e]
    BY <1>5, <1>8, <2>1, <2>2 DEF StartVoice
  <2>4. ThreadOK(e)
    BY <1>1, <1>5, <2>2, NewThreadOK DEF Kinds
  <2> QED
    BY <1>3, <2>3, <2>4
<1>9. CASE VerifyTicket(v) /\ IsRefused(c)
  <2>1. PICK e : e = [c EXCEPT !.key = TRUE, !.reply = "none", !.found = NotRead]
    OBVIOUS
  <2>2. call' = [call EXCEPT ![v]["thread"] = e]
    BY <1>4, <1>9, <2>1 DEF VerifyTicket
  <2>3. ThreadOK(e)
    BY <1>1, <1>4, <2>1 DEF ThreadOK, Calls, Replies, NotRead
  <2> QED
    BY <1>3, <2>2, <2>3
<1>10. CASE VoiceWaits(v)
  <2>1. PICK e : e = [c EXCEPT !.token = t, !.tries = @ + 1, !.reply = "none"]
    OBVIOUS
  <2>2. ThreadOK(e)
    <3>1. Given(t) /\ t \in Nat /\ c \in Calls
      BY <1>1, <1>4, <1>5, AccountAssumption DEF ThreadOK, Given
    <3>2. PICK tries \in Nat : e = [c EXCEPT !.token = t, !.tries = tries, !.reply = "none"]
      <4>1. PICK tries \in Nat : tries = c.tries + 1
        BY <3>1 DEF Calls
      <4>2. e = [c EXCEPT !.token = t, !.tries = tries, !.reply = "none"]
        BY <2>1, <4>1
      <4> QED
        BY <4>2
    <3>3. e \in Calls /\ e.token = t /\ e.reply = "none" /\ e.kind = c.kind /\ e.login = c.login
      BY <3>1, <3>2 DEF Calls, Replies
    <3> QED
      BY <1>1, <1>4, <3>1, <3>3 DEF ThreadOK
  <2>3. call' = [call EXCEPT ![v]["thread"] = e] \/ call' = [call EXCEPT ![v]["thread"] = Idle]
    BY <1>4, <1>5, <1>10, <2>1 DEF VoiceWaits, Done
  <2> QED
    BY <1>3, <1>6, <2>2, <2>3
<1>11. CASE VoiceEnds(v)
  <2>1. PICK e : e = [Idle EXCEPT !.kind = "whoami", !.token = t]
    OBVIOUS
  <2>2. ThreadOK(e)
    BY <1>1, <1>5, <2>1, NewThreadOK DEF Kinds
  <2>3. call' = [call EXCEPT ![v]["thread"] = e] \/ call' = [call EXCEPT ![v]["thread"] = Idle]
    BY <1>5, <1>11, <2>1 DEF VoiceEnds, Done
  <2> QED
    BY <1>3, <1>6, <2>2, <2>3
<1>12. CASE ForgetRefusedLogin(v)
  <2>1. PICK n \in Nat : call' = [call EXCEPT ![v]["thread"].found = n]
    <3>1. saved.login.token \in Nat /\ 0 \in Nat
      BY AccountAssumption DEF AccountInv, Disk, DiskOK, LoginOK, Given
    <3> QED
      BY <1>12, <3>1 DEF ForgetRefusedLogin
  <2>2. PICK e : e = [c EXCEPT !.found = n]
    OBVIOUS
  <2>3. call' = [call EXCEPT ![v]["thread"] = e]
    BY <1>4, <2>1, <2>2 DEF AccountInv, CallInv, Callers
  <2>4. ThreadOK(e)
    BY <1>1, <1>4, <2>2 DEF ThreadOK, Calls
  <2> QED
    BY <1>3, <2>3, <2>4
<1> QED
  BY <1>4, <1>6, <1>7, <1>8, <1>9, <1>10, <1>11, <1>12 DEF RefreshDiscord, GetTicket, VerifyTicket, Done
-----------------------------------------------------------------------------
\* The theorem

\* It holds when the windows open, whatever n02.ini holds from before.
LEMMA InitAccountInv == AccountInit => AccountInv
<1> SUFFICES ASSUME AccountInit PROVE AccountInv
  OBVIOUS
<1>1. PICK a \in Accounts \cup {0} :
        /\ owner = [t \in 1 .. MaxTokens |-> IF t = 1 THEN a ELSE 0]
        /\ valid = {t \in 1 .. MaxTokens : owner[t] # 0}
        /\ saved = [login |-> [NoLogin EXCEPT !.token = IF a = 0 THEN 0 ELSE 1, !.user = a], voice |-> FALSE, voiceOf |-> 0]
  BY DEF AccountInit
<1>2. SiteInv
  BY <1>1, AccountAssumption DEF SiteInv
<1>3. DiskOK(Disk)
  <2>1. PICK l : l = [NoLogin EXCEPT !.token = IF a = 0 THEN 0 ELSE 1, !.user = a]
    OBVIOUS
  <2>2. LoginOK(l) /\ l \in Logins
    <3>1. CASE a = 0
      <4>1. l = [token |-> 0, user |-> 0, linked |-> FALSE]
        BY <2>1, <3>1 DEF NoLogin
      <4> QED
        BY <4>1, AccountAssumption DEF LoginOK, Logins, Given
    <3>2. CASE a # 0
      <4>1. l = [token |-> 1, user |-> a, linked |-> FALSE]
        BY <2>1, <3>2 DEF NoLogin
      <4>2. 1 \in 1 .. MaxTokens /\ owner[1] = a
        BY <1>1, AccountAssumption
      <4> QED
        BY <3>2, <4>1, <4>2 DEF LoginOK, Logins, Given
    <3> QED
      BY <3>1, <3>2
  <2>3. saved = [login |-> l, voice |-> FALSE, voiceOf |-> 0] /\ saved \in Inis /\ saved.login = l
    BY <1>1, <2>1, <2>2 DEF Inis
  <2>4. mem \in [Windows -> Mems] /\ \A v \in Windows : mem[v].login = NoLogin
    BY NoLoginOK DEF AccountInit, Mems, LoginOK
  <2> QED
    BY <2>2, <2>3, <2>4, NoLoginOK DEF DiskOK, Disk
<1>4. CallInv
  BY IdleOK DEF CallInv, AccountInit, Callers, UiOK
<1>5. LoginInv
  BY DEF LoginInv, AccountInit, Callers, Idle
<1> QED
  BY <1>2, <1>3, <1>4, <1>5 DEF AccountInv, AccountInit

\* Every step keeps it, and ends a login for a reason only.
LEMMA NextSteps ==
  ASSUME AccountInv, AccountNext
  PROVE  DiskStep /\ CallStep /\ voiceGame' \in [Windows -> Nat]
<1>1. CASE OnTheSite \/ \E v \in Windows : SiteLogsIn(v) \/ SiteLogsOut(v) \/ SiteAnswers(v)
                                             \/ \E s \in Callers : Unreachable(v, s)
  <2>1. UNCHANGED <<saved, mem, voiceGame>>
    BY <1>1 DEF OnTheSite, SiteLogsIn, SiteLogsOut, SiteAnswers, Unreachable
  <2> QED
    BY <1>1, <2>1, SiteSteps, QuietStep DEF AccountInv
<1>2. ASSUME NEW v \in Windows, Load(v) PROVE DiskStep /\ CallStep /\ voiceGame' \in [Windows -> Nat]
  <2>1. UNCHANGED <<owner, valid, call, voiceGame>>
    BY <1>2 DEF Load, siteVars
  <2> QED
    BY <1>2, <2>1, LoadsStep, SiteRests, CallRests DEF AccountInv
<1>3. ASSUME NEW v \in Windows, AskLogin(v) \/ Login(v) \/ AskLogout(v) \/ Logout(v)
      PROVE  DiskStep /\ CallStep /\ voiceGame' \in [Windows -> Nat]
  <2>1. UNCHANGED voiceGame /\ (AskLogin(v) \/ AskLogout(v) => UNCHANGED <<saved, mem>>)
    BY <1>3 DEF AskLogin, Login, AskLogout, Logout
  <2> QED
    BY <1>3, <2>1, UiSteps, LoginStep, LogoutStep, QuietStep DEF AccountInv
<1>4. ASSUME NEW v \in Windows, ChooseVoice(v) PROVE DiskStep /\ CallStep /\ voiceGame' \in [Windows -> Nat]
  <2>1. UNCHANGED <<owner, valid, call, voiceGame>>
    BY <1>4 DEF ChooseVoice, siteVars
  <2> QED
    BY <1>4, <2>1, OtherDiskSteps, SiteRests, CallRests DEF AccountInv
<1>5. ASSUME NEW v \in Windows, RefreshDiscord(v) \/ GetTicket(v) \/ VerifyTicket(v) \/ VoiceEnds(v)
      PROVE  DiskStep /\ CallStep /\ voiceGame' \in [Windows -> Nat]
  <2>1. UNCHANGED voiceGame
    BY <1>5 DEF RefreshDiscord, GetTicket, VerifyTicket, VoiceEnds
  <2> QED
    BY <1>5, <2>1, OtherDiskSteps, ThreadSteps DEF AccountInv
<1>6. ASSUME NEW v \in Windows, AskInThread(v) \/ StartVoice(v) \/ VoiceWaits(v)
      PROVE  DiskStep /\ CallStep /\ voiceGame' \in [Windows -> Nat]
  <2>1. UNCHANGED <<saved, mem>>
    BY <1>6 DEF AskInThread, StartVoice, VoiceWaits
  <2>2. voiceGame' = voiceGame \/ voiceGame' = [voiceGame EXCEPT ![v] = voiceGame[v] + 1]
    BY <1>6 DEF AskInThread, StartVoice, VoiceWaits
  <2>3. voiceGame' \in [Windows -> Nat]
    BY <2>2 DEF AccountInv
  <2> QED
    BY <1>6, <2>1, <2>3, ThreadSteps, QuietStep
<1>7. ASSUME NEW v \in Windows, StartNext(v) PROVE DiskStep /\ CallStep /\ voiceGame' \in [Windows -> Nat]
  <2>1. UNCHANGED <<owner, valid, call, saved, mem>> /\ voiceGame' \in [Windows -> Nat]
    BY <1>7 DEF StartNext, siteVars, AccountInv
  <2> QED
    BY <2>1, QuietStep, SiteRests, CallRests DEF AccountInv
<1>8. ASSUME NEW v \in Windows, ForgetRefusedLogin(v) PROVE DiskStep /\ CallStep /\ voiceGame' \in [Windows -> Nat]
  <2>1. UNCHANGED voiceGame
    BY <1>8 DEF ForgetRefusedLogin
  <2> QED
    BY <1>8, <2>1, ForgetStep, ThreadSteps DEF AccountInv
<1> QED
  BY <1>1, <1>2, <1>3, <1>4, <1>5, <1>6, <1>7, <1>8 DEF AccountNext

\* So it is an invariant.
LEMMA StepAccountInv == AccountInv /\ [AccountNext]_accountVars => AccountInv'
<1> SUFFICES ASSUME AccountInv, [AccountNext]_accountVars PROVE AccountInv'
  OBVIOUS
<1>1. CASE AccountNext
  <2>1. DiskStep /\ CallStep /\ voiceGame' \in [Windows -> Nat]
    BY <1>1, NextSteps
  <2>2. DiskOK(Disk)'
    <3>1. PICK d : d = [saved |-> saved', mem |-> mem']
      OBVIOUS
    <3>2. DiskOK(d)
      BY <2>1, <3>1 DEF DiskStep
    <3>3. DiskOK(d)'
      BY <2>1, <3>2, SiteStepKeeps DEF CallStep
    <3> QED
      BY <3>1, <3>3 DEF Disk
  <2>3. LoginInv'
    <3> SUFFICES ASSUME NEW v \in Windows, call'[v]["ui"].kind = "login" PROVE mem'[v].login.token = 0
      BY DEF LoginInv
    <3>1. mem[v].login.token = 0
      BY <2>1 DEF CallStep
    <3> QED
      BY <2>1, <3>1 DEF DiskStep
  <2> QED
    BY <2>1, <2>2, <2>3 DEF AccountInv, CallStep
<1>2. CASE UNCHANGED accountVars
  <2>1. UNCHANGED <<owner, valid, call, saved, mem, voiceGame>>
    BY <1>2 DEF accountVars, siteVars
  <2>2. CallInv' /\ SiteInv'
    BY <2>1, SiteRests, CallRests DEF CallStep, AccountInv
  <2>3. DiskOK(Disk)' /\ LoginInv'
    BY <2>1 DEF AccountInv, DiskOK, Disk, LoginOK, Given, LoginInv
  <2> QED
    BY <2>1, <2>2, <2>3 DEF AccountInv
<1> QED
  BY <1>1, <1>2

\* A WE Camp login ends because the site no longer knows it, because its user ends it or because
\* the window loads it anew, never because of an answer that was about an older one
\* (ForgetRefusedLogin), however many windows and requests there are; in n02.ini, unless another
\* window wrote it after the refused token was read there and before it was cleared.
THEOREM SpecLoginEndsForAReason == AccountSpec => LoginEndsForAReason
<1>1. ASSUME AccountInv, [AccountNext]_accountVars
      PROVE  [/\ \A v \in Windows :
                   (mem[v].login.token # mem'[v].login.token /\ mem[v].login.token # 0) =>
                     \/ mem[v].login.token \notin valid
                     \/ Waits(v, "ui", "logout")
                     \/ Load(v)
              /\ (saved.login.token # 0 /\ saved'.login.token = 0) =>
                     \/ saved.login.token \notin valid
                     \/ \E v \in Windows : Waits(v, "ui", "logout") \/ ClearsOvertaken(v)]_accountVars
  BY <1>1, NextSteps DEF DiskStep
<1> QED
  BY <1>1, InitAccountInv, StepAccountInv, PTL DEF AccountSpec, LoginEndsForAReason
-----------------------------------------------------------------------------
\* The memory card of a match.

\* c is a sequence, of whatever it may be.
IsSeq(c) == \E S : c \in Seq(S)

\* A sequence is a function on 1 .. Len.
LEMMA SeqShape ==
  ASSUME NEW c, IsSeq(c)
  PROVE  Len(c) \in Nat /\ DOMAIN c = 1 .. Len(c) /\ c = [i \in 1 .. Len(c) |-> c[i]]
  BY DEF IsSeq

\* Two sequences, and an element more, have a common set of elements.
LEMMA CommonSet ==
  ASSUME NEW c, IsSeq(c), NEW d, IsSeq(d), NEW v
  PROVE  \E S : c \in Seq(S) /\ d \in Seq(S) /\ v \in S
<1>1. PICK A : c \in Seq(A)
  BY DEF IsSeq
<1>2. PICK B : d \in Seq(B)
  BY DEF IsSeq
<1> DEFINE S == A \cup B \cup {v}
<1>3. c \in Seq(S)
  <2>1. c \in [1 .. Len(c) -> S] /\ Len(c) \in Nat
    BY <1>1
  <2> HIDE DEF S
  <2> QED BY <2>1
<1>4. d \in Seq(S)
  <2>1. d \in [1 .. Len(d) -> S] /\ Len(d) \in Nat
    BY <1>2
  <2> HIDE DEF S
  <2> QED BY <2>1
<1> QED BY <1>3, <1>4

\* One more save, or version.
LEMMA SeqAppend ==
  ASSUME NEW c, IsSeq(c), NEW v
  PROVE  /\ IsSeq(Append(c, v)) /\ Len(Append(c, v)) = Len(c) + 1
         /\ \A i \in 1 .. Len(c) : Append(c, v)[i] = c[i]
         /\ Append(c, v)[Len(c) + 1] = v
<1>1. PICK S : c \in Seq(S) /\ v \in S
  BY CommonSet
<1>2. Append(c, v) \in Seq(S)
  BY <1>1
<1> QED BY <1>1, <1>2 DEF IsSeq

\* A prefix, place by place.
LEMMA PrefixPlaces ==
  ASSUME NEW c, IsSeq(c), NEW d, IsSeq(d)
  PROVE  IsPrefix(c, d) <=> (Len(c) <= Len(d) /\ \A i \in 1 .. Len(c) : c[i] = d[i])
<1>1. PICK S : c \in Seq(S) /\ d \in Seq(S)
  BY CommonSet
<1>2. Len(c) \in Nat /\ Len(d) \in Nat
  BY <1>1
<1>3. CASE ~(Len(c) <= Len(d))
  BY <1>3 DEF IsPrefix
<1>4. CASE Len(c) <= Len(d)
  <2> DEFINE a == SubSeq(c, 1, Len(c))
             b == SubSeq(d, 1, Len(c))
  <2>1. a \in Seq(S) /\ Len(a) = Len(c) /\ \A i \in 1 .. Len(c) : a[i] = c[i]
    BY <1>1, <1>2
  <2>2. b \in Seq(S) /\ Len(b) = Len(c) /\ \A i \in 1 .. Len(c) : b[i] = d[i]
    BY <1>1, <1>2, <1>4
  <2> HIDE DEF a, b
  <2>3. (a = b) <=> \A i \in 1 .. Len(c) : c[i] = d[i]
    <3>1. ASSUME a = b PROVE \A i \in 1 .. Len(c) : c[i] = d[i]
      BY <2>1, <2>2, <3>1
    <3>2. ASSUME \A i \in 1 .. Len(c) : c[i] = d[i] PROVE a = b
      <4>1. a = [i \in 1 .. Len(c) |-> a[i]] /\ b = [i \in 1 .. Len(c) |-> b[i]]
        BY <2>1, <2>2
      <4>2. \A i \in 1 .. Len(c) : a[i] = b[i]
        BY <2>1, <2>2, <3>2
      <4> QED BY <4>1, <4>2
    <3> QED BY <3>1, <3>2
  <2> QED BY <1>4, <2>3 DEF IsPrefix, a, b
<1> QED BY <1>3, <1>4

LEMMA PrefixSelf ==
  ASSUME NEW c, IsSeq(c)
  PROVE  IsPrefix(c, c)
<1>1. Len(c) \in Nat
  BY SeqShape
<1> QED BY <1>1, PrefixPlaces

LEMMA PrefixTransitive ==
  ASSUME NEW c, IsSeq(c), NEW d, IsSeq(d), NEW e, IsSeq(e), IsPrefix(c, d), IsPrefix(d, e)
  PROVE  IsPrefix(c, e)
<1>1. Len(c) \in Nat /\ Len(d) \in Nat /\ Len(e) \in Nat
  BY SeqShape
<1>2. /\ Len(c) <= Len(d) /\ Len(d) <= Len(e)
      /\ \A i \in 1 .. Len(c) : c[i] = d[i]
      /\ \A i \in 1 .. Len(d) : d[i] = e[i]
  BY PrefixPlaces
<1>3. Len(c) <= Len(e) /\ \A i \in 1 .. Len(c) : c[i] = e[i]
  BY <1>1, <1>2
<1> QED BY <1>3, PrefixPlaces

LEMMA PrefixSame ==
  ASSUME NEW c, IsSeq(c), NEW d, IsSeq(d), IsPrefix(c, d), IsPrefix(d, c)
  PROVE  c = d
<1>1. Len(c) \in Nat /\ Len(d) \in Nat
  BY SeqShape
<1>2. Len(c) <= Len(d) /\ Len(d) <= Len(c) /\ \A i \in 1 .. Len(c) : c[i] = d[i]
  BY PrefixPlaces
<1>3. Len(c) = Len(d)
  BY <1>1, <1>2
<1>4. c = [i \in 1 .. Len(c) |-> c[i]] /\ d = [i \in 1 .. Len(d) |-> d[i]]
  BY SeqShape
<1> QED BY <1>2, <1>3, <1>4

LEMMA PrefixAppend ==
  ASSUME NEW c, IsSeq(c), NEW v
  PROVE  IsPrefix(c, Append(c, v))
<1>1. Len(c) \in Nat
  BY SeqShape
<1>2. IsSeq(Append(c, v)) /\ Len(c) <= Len(Append(c, v)) /\ \A i \in 1 .. Len(c) : c[i] = Append(c, v)[i]
  BY <1>1, SeqAppend
<1> QED BY <1>2, PrefixPlaces

\* known holds the first version of seen and its latest.
Remembers(known, seen) ==
  /\ IsSeq(known) /\ IsSeq(seen) /\ Len(seen) >= 1
  /\ Len(seen) <= KnownMax => Len(known) = Len(seen)
  /\ Len(seen) > KnownMax => Len(known) = KnownMax
  /\ known[1] = seen[1]
  /\ \A i \in 2 .. Len(known) : known[i] = seen[Len(seen) - Len(known) + i]

\* The same, by the lengths.
LEMMA RemembersLengths ==
  ASSUME NEW known, NEW seen, Remembers(known, seen)
  PROVE  \E K \in Nat, L \in Nat, M \in Nat :
           /\ Len(known) = K /\ Len(seen) = L /\ KnownMax = M
           /\ DOMAIN known = 1 .. K /\ DOMAIN seen = 1 .. L
           /\ M >= 2 /\ L >= 1 /\ K >= 1 /\ K <= L /\ K <= M
           /\ L <= M => K = L
           /\ L > M => K = M
           /\ known[1] = seen[1]
           /\ \A i \in 2 .. K : known[i] = seen[L - K + i]
<1>1. Len(known) \in Nat /\ Len(seen) \in Nat /\ DOMAIN known = 1 .. Len(known) /\ DOMAIN seen = 1 .. Len(seen)
  BY SeqShape DEF Remembers
<1>2. KnownMax \in Nat /\ KnownMax >= 2
  BY MatchCardsAssumption
<1>3. PICK K \in Nat, L \in Nat, M \in Nat : Len(known) = K /\ Len(seen) = L /\ KnownMax = M
  BY <1>1, <1>2
<1>4. L >= 1 /\ (L <= M => K = L) /\ (L > M => K = M) /\ M >= 2
  BY <1>2, <1>3, Zenon DEF Remembers
<1>5. K >= 1 /\ K <= L /\ K <= M
  BY <1>4
<1>6. known[1] = seen[1] /\ \A i \in 2 .. K : known[i] = seen[L - K + i]
  BY <1>3, Zenon DEF Remembers
<1>7. DOMAIN known = 1 .. K /\ DOMAIN seen = 1 .. L
  BY <1>1, <1>3, Zenon
<1> QED BY <1>3, <1>4, <1>5, <1>6, <1>7, Zenon

\* What a send names is what the property lets it name.
LEMMA KnownIsNamed ==
  ASSUME NEW known, NEW seen, Remembers(known, seen)
  PROVE  ToSet(known) = Named(seen)
<1>1. PICK K \in Nat, L \in Nat, M \in Nat :
           /\ Len(known) = K /\ Len(seen) = L /\ KnownMax = M
           /\ DOMAIN known = 1 .. K /\ DOMAIN seen = 1 .. L
           /\ M >= 2 /\ L >= 1 /\ K >= 1 /\ K <= L /\ K <= M
           /\ L <= M => K = L
           /\ L > M => K = M
           /\ known[1] = seen[1]
           /\ \A i \in 2 .. K : known[i] = seen[L - K + i]
  BY RemembersLengths, Zenon
<1>2. /\ M >= 2 /\ L >= 1 /\ K >= 1 /\ K <= L /\ K <= M
      /\ L <= M => K = L
      /\ L > M => K = M
  BY <1>1, Zenon
<1>3. ToSet(known) = {known[i] : i \in 1 .. K}
  BY <1>1, Zenon DEF ToSet
<1>4. Head(seen) = seen[1]
  <2>1. PICK S : seen \in Seq(S)
    BY DEF Remembers, IsSeq
  <2>2. seen # <<>>
    <3>1. Len(seen) >= 1
      BY Zenon DEF Remembers
    <3> QED BY <2>1, <3>1
  <2> QED BY <2>1, <2>2
<1>5. Named(seen) = {known[1]} \cup {seen[i] : i \in {j \in 1 .. L : j > L - M + 1}}
  BY <1>1, <1>4, Zenon DEF Named
<1>6. \A i \in 2 .. K : known[i] = seen[L - K + i]
  BY <1>1, Zenon
<1>7. ASSUME NEW i \in 1 .. K, i # 1
      PROVE  known[i] \in {seen[k] : k \in {j \in 1 .. L : j > L - M + 1}}
  <2>1. L - K + i \in 1 .. L /\ L - K + i > L - M + 1 /\ i \in 2 .. K
    BY <1>2, <1>7
  <2>2. L - K + i \in {j \in 1 .. L : j > L - M + 1}
    BY <2>1, Zenon
  <2> QED BY <1>6, <2>1, <2>2, Zenon
<1>8. ASSUME NEW j \in 1 .. L, j > L - M + 1
      PROVE  \E i \in 1 .. K : known[i] = seen[j]
  <2>1. CASE K = L
    <3>1. CASE j = 1
      <4>1. 1 \in 1 .. K
        BY <1>2
      <4> QED BY <1>1, <3>1, <4>1, Zenon
    <3>2. CASE j # 1
      <4>1. j \in 2 .. K /\ j \in 1 .. K /\ L - K + j = j
        BY <2>1, <3>2
      <4> QED BY <1>6, <4>1, Zenon
    <3> QED BY <3>1, <3>2
  <2>2. CASE K # L
    <3>1. K = M /\ L > K
      BY <1>2, <2>2
    <3>2. PICK i \in Int : i + (L - K) = j
      <4>1. j - (L - K) \in Int /\ (j - (L - K)) + (L - K) = j
        OBVIOUS
      <4> QED BY <4>1
    <3>3. i \in 2 .. K /\ i \in 1 .. K /\ L - K + i = j
      BY <1>2, <1>8, <3>1, <3>2
    <3> QED BY <1>6, <3>3, Zenon
  <2> QED BY <2>1, <2>2
<1>9. 1 \in 1 .. K
  BY <1>2
<1>10. ASSUME NEW x \in ToSet(known) PROVE x \in Named(seen)
  <2>1. PICK i \in 1 .. K : x = known[i]
    BY <1>3, Zenon
  <2> QED BY <1>5, <1>7, <2>1
<1>11. ASSUME NEW x \in Named(seen) PROVE x \in ToSet(known)
  <2>1. CASE x = known[1]
    BY <1>3, <1>9, <2>1
  <2>2. CASE x # known[1]
    <3>1. PICK j \in 1 .. L : x = seen[j] /\ j > L - M + 1
      BY <1>5, <1>11, <2>2
    <3> QED BY <1>3, <1>8, <3>1
  <2> QED BY <2>1, <2>2
<1> QED BY <1>10, <1>11
\* McKnownAdd keeps the first version and the latest.
LEMMA McKnownAddRemembers ==
  ASSUME NEW known, NEW seen, Remembers(known, seen), NEW v, v \notin ToSet(known)
  PROVE  /\ Remembers(McKnownAdd(known, v), Append(seen, v))
         /\ ToSet(McKnownAdd(known, v)) \subseteq ToSet(known) \cup {v}
<1> DEFINE next == McKnownAdd(known, v)
           now == Append(seen, v)
<1>1. PICK K \in Nat, L \in Nat, M \in Nat :
           /\ Len(known) = K /\ Len(seen) = L /\ KnownMax = M
           /\ DOMAIN known = 1 .. K /\ DOMAIN seen = 1 .. L
           /\ M >= 2 /\ L >= 1 /\ K >= 1 /\ K <= L /\ K <= M
           /\ L <= M => K = L
           /\ L > M => K = M
           /\ known[1] = seen[1]
           /\ \A i \in 2 .. K : known[i] = seen[L - K + i]
  BY RemembersLengths, Zenon
<1>2. /\ M >= 2 /\ L >= 1 /\ K >= 1 /\ K <= L /\ K <= M
      /\ L <= M => K = L
      /\ L > M => K = M
  BY <1>1, Zenon
<1>3. PICK S : known \in Seq(S) /\ v \in S
  BY CommonSet DEF Remembers
<1>4. PICK J \in Nat : J - 1 = L
  <2>1. L + 1 \in Nat /\ (L + 1) - 1 = L
    OBVIOUS
  <2> QED BY <2>1
<1>5. /\ IsSeq(now) /\ Len(now) = J /\ now[J] = v
      /\ \A i \in 1 .. L : now[i] = seen[i]
  <2>1. L + 1 = J
    BY <1>4
  <2>2. /\ IsSeq(now) /\ Len(now) = Len(seen) + 1 /\ now[Len(seen) + 1] = v
        /\ \A i \in 1 .. Len(seen) : now[i] = seen[i]
    BY SeqAppend DEF Remembers
  <2> HIDE DEF now
  <2> QED BY <1>1, <2>1, <2>2, Zenon
<1>6. ToSet(known) = {known[i] : i \in 1 .. K}
  BY <1>1, Zenon DEF ToSet
<1>7. 1 \in 1 .. L /\ 1 \in 1 .. K /\ J >= 1
  BY <1>2, <1>4
<1>8. known[1] = seen[1] /\ \A i \in 2 .. K : known[i] = seen[L - K + i]
  BY <1>1, Zenon
<1> HIDE DEF now
<1>9. CASE K # M
  <2>1. next = Append(known, v)
    <3>1. Len(known) # KnownMax
      BY <1>1, <1>9, Zenon
    <3> QED BY <3>1, Zenon DEF McKnownAdd
  <2> HIDE DEF next
  <2>2. PICK N \in Nat : N - 1 = K
    <3>1. K + 1 \in Nat /\ (K + 1) - 1 = K
      OBVIOUS
    <3> QED BY <3>1
  <2>3. K + 1 = N
    BY <2>2
  <2>4. /\ next \in Seq(S) /\ Len(next) = Len(known) + 1 /\ next[Len(known) + 1] = v
        /\ \A i \in 1 .. Len(known) : next[i] = known[i]
    BY <1>3, <2>1
  <2>5. /\ next \in Seq(S) /\ Len(next) = N /\ next[N] = v
        /\ \A i \in 1 .. K : next[i] = known[i]
    BY <1>1, <2>3, <2>4, Zenon
  <2>6. L = K /\ J = N /\ J <= M
    BY <1>2, <1>4, <1>9, <2>2
  <2>7. ASSUME NEW i \in 2 .. N PROVE next[i] = now[J - N + i]
    <3>1. J - N + i = i
      BY <2>6
    <3>2. CASE i = N
      BY <1>5, <2>5, <2>6, <3>1, <3>2, Zenon
    <3>3. CASE i # N
      <4>1. i \in 2 .. K /\ i \in 1 .. K /\ i \in 1 .. L /\ L - K + i = i
        BY <2>2, <2>6, <3>3
      <4> QED BY <1>5, <1>8, <2>5, <3>1, <4>1, Zenon
    <3> QED BY <3>2, <3>3
  <2>8. next[1] = now[1]
    BY <1>5, <1>7, <1>8, <2>5, Zenon
  <2>9. Remembers(next, now)
    <3>1. IsSeq(next)
      BY <2>5 DEF IsSeq
    <3>2. J <= M => N = J
      BY <2>6
    <3>3. J > M => N = M
      BY <2>6
    <3> QED BY <1>1, <1>5, <1>7, <2>5, <2>7, <2>8, <3>1, <3>2, <3>3, Zenon DEF Remembers
  <2>10. ASSUME NEW x \in ToSet(next) PROVE x \in ToSet(known) \cup {v}
    <3>1. PICK i \in 1 .. N : x = next[i]
      <4>1. DOMAIN next = 1 .. Len(next)
        BY <2>5
      <4> QED BY <2>5, <2>10, <4>1, Zenon DEF ToSet
    <3>2. i = N \/ i \in 1 .. K
      BY <2>2
    <3>3. CASE i = N
      BY <2>5, <3>1, <3>3
    <3>4. CASE i \in 1 .. K
      BY <1>6, <2>5, <3>1, <3>4
    <3> QED BY <3>2, <3>3, <3>4
  <2> QED BY <2>9, <2>10 DEF next, now
<1>10. CASE K = M
  <2> DEFINE tail == SubSeq(known, 3, KnownMax)
             mid == <<Head(known)>> \o tail
  <2>1. next = Append(mid, v)
    <3>1. Len(known) = KnownMax
      BY <1>1, <1>10, Zenon
    <3> QED BY <3>1, Zenon DEF McKnownAdd
  <2>2. PICK T \in Nat : T + 2 = K
    <3>1. K - 2 \in Nat /\ (K - 2) + 2 = K
      BY <1>2, <1>10
    <3> QED BY <3>1
  <2>3. Head(known) = known[1] /\ known[1] \in S
    <3>1. known # <<>> /\ 1 \in 1 .. Len(known)
      <4>1. Len(known) # 0
        <5>1. K # 0
          BY <1>2
        <5> QED BY <1>1, <5>1, Zenon
      <4>2. 1 \in 1 .. Len(known)
        BY <1>1, <1>7, Zenon
      <4> QED BY <1>3, <4>1, <4>2
    <3> QED BY <1>3, <3>1
  <2>4. tail \in Seq(S) /\ Len(tail) = T /\ \A i \in 1 .. T : tail[i] = known[i + 2]
    <3>1. tail = SubSeq(known, 3, K) /\ Len(known) = K
      BY <1>1, <1>10, Zenon
    <3> HIDE DEF tail
    <3>2. 3 \in Int /\ K \in Int /\ 3 <= K + 1
      BY <1>2, <1>10
    <3>3. \A i \in 3 .. K : known[i] \in S
      <4>1. ASSUME NEW i \in 3 .. K PROVE i \in 1 .. K
        OBVIOUS
      <4>2. \A i \in 1 .. Len(known) : known[i] \in S
        BY <1>3
      <4> QED BY <3>1, <4>1, <4>2, Zenon
    <3>4. /\ SubSeq(known, 3, K) \in Seq(S)
          /\ Len(SubSeq(known, 3, K)) = (IF 3 <= K THEN K - 3 + 1 ELSE 0)
          /\ \A i \in 1 .. K - 3 + 1 : SubSeq(known, 3, K)[i] = known[3 + i - 1]
      BY <3>2, <3>3, SubSeqProperties
    <3>5. K - 3 + 1 = T /\ (IF 3 <= K THEN K - 3 + 1 ELSE 0) = T
      BY <1>2, <1>10, <2>2
    <3>6. \A i \in 1 .. T : 3 + i - 1 = i + 2
      OBVIOUS
    <3> QED BY <3>1, <3>4, <3>5, <3>6, Zenon
  <2> HIDE DEF tail
  <2>5. /\ mid \in Seq(S) /\ Len(mid) = 1 + Len(tail) /\ mid[1] = Head(known)
        /\ \A i \in 2 .. 1 + Len(tail) : mid[i] = tail[i - 1]
    <3>1. <<Head(known)>> \in Seq(S) /\ Len(<<Head(known)>>) = 1 /\ <<Head(known)>>[1] = Head(known)
      BY <2>3
    <3> QED BY <2>4, <3>1
  <2> HIDE DEF mid
  <2>6. PICK N \in Nat : N + 1 = K
    <3>1. K - 1 \in Nat /\ (K - 1) + 1 = K
      BY <1>2
    <3> QED BY <3>1
  <2>7. 1 + T = N
    BY <2>2, <2>6
  <2>8. mid \in Seq(S) /\ Len(mid) = N /\ mid[1] = known[1] /\ \A i \in 2 .. N : mid[i] = tail[i - 1]
    BY <2>3, <2>4, <2>5, <2>7, Zenon
  <2>9. ASSUME NEW i \in 2 .. N PROVE mid[i] = known[i + 1]
    <3>1. i - 1 \in 1 .. T /\ (i - 1) + 2 = i + 1
      BY <2>7
    <3> QED BY <2>4, <2>8, <3>1, Zenon
  <2> HIDE DEF next
  <2>10. next \in Seq(S) /\ Len(next) = K /\ next[K] = v /\ \A i \in 1 .. N : next[i] = mid[i]
    <3>1. /\ next \in Seq(S) /\ Len(next) = Len(mid) + 1 /\ next[Len(mid) + 1] = v
          /\ \A i \in 1 .. Len(mid) : next[i] = mid[i]
      BY <1>3, <2>1, <2>8
    <3> QED BY <2>6, <2>8, <3>1, Zenon
  <2>11. ASSUME NEW i \in 2 .. K PROVE next[i] = now[J - K + i]
    <3>1. CASE i = K
      <4>1. J - K + i = J
        BY <1>4, <3>1
      <4> QED BY <1>5, <2>10, <3>1, <4>1, Zenon
    <3>2. CASE i # K
      <4>1. i \in 2 .. N /\ i \in 1 .. N /\ i + 1 \in 2 .. K
        BY <2>6, <3>2
      <4>2. next[i] = known[i + 1]
        BY <2>9, <2>10, <4>1, Zenon
      <4>3. L - K + (i + 1) \in 1 .. L /\ J - K + i = L - K + (i + 1)
        BY <1>2, <1>4, <4>1
      <4> QED BY <1>5, <1>8, <4>1, <4>2, <4>3, Zenon
    <3> QED BY <3>1, <3>2
  <2>12. next[1] = now[1]
    <3>1. 1 \in 1 .. N
      BY <1>2, <1>10, <2>6
    <3> QED BY <1>5, <1>7, <1>8, <2>8, <2>10, <3>1, Zenon
  <2>13. Remembers(next, now)
    <3>1. IsSeq(next)
      BY <2>10 DEF IsSeq
    <3>2. J <= M => K = J
      BY <1>2, <1>4, <1>10
    <3>3. J > M => K = M
      BY <1>10
    <3> QED BY <1>1, <1>5, <1>7, <2>10, <2>11, <2>12, <3>1, <3>2, <3>3, Zenon DEF Remembers
  <2>14. ASSUME NEW x \in ToSet(next) PROVE x \in ToSet(known) \cup {v}
    <3>1. PICK i \in 1 .. K : x = next[i]
      <4>1. DOMAIN next = 1 .. Len(next)
        BY <2>10
      <4> QED BY <2>10, <2>14, <4>1, Zenon DEF ToSet
    <3>2. CASE i = K
      BY <2>10, <3>1, <3>2
    <3>3. CASE i = 1 /\ i # K
      <4>1. 1 \in 1 .. N
        BY <1>2, <1>10, <2>6
      <4>2. x = known[1]
        BY <2>8, <2>10, <3>1, <3>3, <4>1, Zenon
      <4> QED BY <1>6, <1>7, <4>2
    <3>4. CASE i # 1 /\ i # K
      <4>1. i \in 2 .. N /\ i \in 1 .. N /\ i + 1 \in 1 .. K
        BY <2>6, <3>4
      <4>2. x = known[i + 1]
        BY <2>9, <2>10, <3>1, <4>1, Zenon
      <4> QED BY <1>6, <4>1, <4>2
    <3> QED BY <3>2, <3>3, <3>4
  <2> QED BY <2>13, <2>14 DEF next, now
<1> QED BY <1>9, <1>10
\* A session: what it knows grew along the card's file, and what it believes WE Camp has is part of
\* the current version c there.
Tracked(s, f, c) ==
  /\ s = [match |-> s.match, known |-> s.known, onServer |-> s.onServer, pending |-> s.pending,
          settled |-> s.settled, lockLost |-> s.lockLost, seen |-> s.seen]
  /\ Remembers(s.known, s.seen)
  /\ \A v \in ToSet(s.known) : IsSeq(v) /\ IsPrefix(v, s.settled)
  /\ IsSeq(s.settled) /\ IsSeq(s.pending) /\ IsSeq(s.onServer)
  /\ IsPrefix(s.settled, s.pending) /\ IsPrefix(s.pending, f) /\ IsPrefix(s.onServer, c)

\* The same of a card on its way at the end of its match.
EndedWell(m, c) ==
  /\ Remembers(m.known, m.seen)
  /\ \A v \in ToSet(m.known) : IsSeq(v) /\ IsPrefix(v, m.final)
  /\ IsSeq(m.final) /\ IsSeq(m.onServer) /\ IsPrefix(m.onServer, c)

\* A card that was sent is part of the current version, or WE Camp had one that excuses its loss.
Accounted(f, c, sent) ==
  /\ IsSeq(f.final)
  /\ IsPrefix(f.final, c) \/ \E d \in sent : ~IsPrefix(f.final, d) /\ d \notin Named(f.seen)

CardsInv ==
  /\ IsSeq(card) /\ card \in sentCards /\ cardFaults \in Nat
  /\ file = [p \in PCs |-> file[p]] /\ session = [p \in PCs |-> session[p]]
  /\ \A p \in PCs : IsSeq(file[p])
  /\ \A p \in PCs : session[p] # NoSession => Tracked(session[p], file[p], card)
  /\ \A m \in finishing : EndedWell(m, card)
  /\ \A f \in finals : Accounted(f, card, sentCards)

\* The card's file and WE Camp's card only get longer under a session.
LEMMA TrackedGrows ==
  ASSUME NEW s, NEW f, NEW g, NEW c, NEW d, Tracked(s, f, c),
         IsSeq(f), IsSeq(g), IsSeq(c), IsSeq(d), IsPrefix(f, g), IsPrefix(c, d)
  PROVE  Tracked(s, g, d)
<1>1. IsSeq(s.pending) /\ IsPrefix(s.pending, f) /\ IsSeq(s.onServer) /\ IsPrefix(s.onServer, c)
  BY Zenon DEF Tracked
<1>2. IsPrefix(s.pending, g) /\ IsPrefix(s.onServer, d)
  BY <1>1, PrefixTransitive
<1> QED BY <1>2, Zenon DEF Tracked

LEMMA EndedGrows ==
  ASSUME NEW m, NEW c, NEW d, EndedWell(m, c), IsSeq(c), IsSeq(d), IsPrefix(c, d)
  PROVE  EndedWell(m, d)
<1>1. IsSeq(m.onServer) /\ IsPrefix(m.onServer, c)
  BY Zenon DEF EndedWell
<1>2. IsPrefix(m.onServer, d)
  BY <1>1, PrefixTransitive
<1> QED BY <1>2, Zenon DEF EndedWell

LEMMA AccountedGrows ==
  ASSUME NEW f, NEW c, NEW d, NEW sent, NEW more, Accounted(f, c, sent),
         IsSeq(c), IsSeq(d), IsPrefix(c, d), sent \subseteq more
  PROVE  Accounted(f, d, more)
<1>1. IsSeq(f.final)
  BY Zenon DEF Accounted
<1>2. IsPrefix(f.final, c) => IsPrefix(f.final, d)
  BY <1>1, PrefixTransitive
<1> QED BY <1>1, <1>2, Zenon DEF Accounted

\* A match begins: the session knows the card it fetched, and nothing else.
LEMMA StartedTracked ==
  ASSUME NEW c, IsSeq(c), NEW n
  PROVE  Tracked([match |-> n, known |-> <<c>>, onServer |-> c, pending |-> c, settled |-> c,
                  lockLost |-> FALSE, seen |-> <<c>>], c, c)
<1> DEFINE one == <<c>>
<1>1. IsSeq(one) /\ Len(one) = 1 /\ one[1] = c /\ ToSet(one) = {c}
  <2>1. one \in Seq({c}) /\ Len(one) = 1 /\ one[1] = c
    OBVIOUS
  <2>2. ToSet(one) = {c}
    BY <2>1 DEF ToSet
  <2> QED BY <2>1, <2>2 DEF IsSeq
<1>2. IsPrefix(c, c)
  BY PrefixSelf
<1> HIDE DEF one
<1>3. Remembers(one, one)
  <2>1. KnownMax \in Nat /\ KnownMax >= 2
    BY MatchCardsAssumption
  <2>2. PICK M \in Nat : M = KnownMax /\ M >= 2
    BY <2>1
  <2>3. 1 <= M /\ ~(1 > M) /\ 1 >= 1 /\ 2 .. 1 = {}
    BY <2>2
  <2> QED BY <1>1, <2>2, <2>3, Zenon DEF Remembers
<1> DEFINE s == [match |-> n, known |-> one, onServer |-> c, pending |-> c, settled |-> c,
                 lockLost |-> FALSE, seen |-> one]
<1>4. /\ s.known = one /\ s.seen = one /\ s.onServer = c /\ s.pending = c /\ s.settled = c
      /\ s = [match |-> s.match, known |-> s.known, onServer |-> s.onServer, pending |-> s.pending,
              settled |-> s.settled, lockLost |-> s.lockLost, seen |-> s.seen]
  OBVIOUS
<1> HIDE DEF s
<1>5. \A v \in ToSet(one) : IsSeq(v) /\ IsPrefix(v, c)
  BY <1>1, <1>2, Zenon
<1>6. Tracked(s, c, c)
  BY <1>2, <1>3, <1>4, <1>5, Zenon DEF Tracked
<1> QED BY <1>6 DEF s, one

\* A finished save is noted, and is not one of the versions noted before.
LEMMA SettledTracked ==
  ASSUME NEW s, NEW f, NEW c, NEW d, NEW learns, Tracked(s, f, c), f = s.pending, s.pending # s.settled,
         IsSeq(c), IsSeq(d), IsPrefix(c, d), learns => d = s.pending
  PROVE  Tracked([s EXCEPT !.settled = s.pending, !.known = McKnownAdd(@, s.pending),
                           !.seen = Append(@, s.pending),
                           !.onServer = IF learns THEN s.pending ELSE @], f, d)
<1> DEFINE v == s.pending
           t == [s EXCEPT !.settled = v, !.known = McKnownAdd(@, v), !.seen = Append(@, v),
                          !.onServer = IF learns THEN v ELSE @]
<1>1. /\ s = [match |-> s.match, known |-> s.known, onServer |-> s.onServer, pending |-> s.pending,
              settled |-> s.settled, lockLost |-> s.lockLost, seen |-> s.seen]
      /\ Remembers(s.known, s.seen)
      /\ \A w \in ToSet(s.known) : IsSeq(w) /\ IsPrefix(w, s.settled)
      /\ IsSeq(s.settled) /\ IsSeq(v) /\ IsSeq(s.onServer)
      /\ IsPrefix(s.settled, v) /\ IsPrefix(s.onServer, c)
  BY Zenon DEF Tracked
<1>2. v \notin ToSet(s.known)
  <2>1. ASSUME v \in ToSet(s.known) PROVE FALSE
    <3>1. IsPrefix(v, s.settled)
      BY <1>1, <2>1
    <3>2. v = s.settled
      BY <1>1, <3>1, PrefixSame
    <3> QED BY <3>2
  <2> QED BY <2>1
<1>3. /\ Remembers(McKnownAdd(s.known, v), Append(s.seen, v))
      /\ ToSet(McKnownAdd(s.known, v)) \subseteq ToSet(s.known) \cup {v}
  BY <1>1, <1>2, McKnownAddRemembers
<1>4. IsPrefix(v, v)
  BY <1>1, PrefixSelf
<1>5. \A w \in ToSet(McKnownAdd(s.known, v)) : IsSeq(w) /\ IsPrefix(w, v)
  <2> SUFFICES ASSUME NEW w \in ToSet(McKnownAdd(s.known, v)) PROVE IsSeq(w) /\ IsPrefix(w, v)
    OBVIOUS
  <2>1. CASE w = v
    BY <1>1, <1>4, <2>1
  <2>2. CASE w # v
    <3>1. w \in ToSet(s.known)
      BY <1>3, <2>2
    <3>2. IsSeq(w) /\ IsPrefix(w, s.settled)
      BY <1>1, <3>1
    <3> QED BY <1>1, <3>2, PrefixTransitive
  <2> QED BY <2>1, <2>2
<1>6. IsSeq(IF learns THEN v ELSE s.onServer) /\ IsPrefix(IF learns THEN v ELSE s.onServer, d)
  <2>1. CASE learns
    <3>1. IsSeq(v) /\ IsPrefix(v, d)
      BY <1>1, <1>4, <2>1
    <3> QED BY <2>1, <3>1
  <2>2. CASE ~learns
    <3>1. IsPrefix(s.onServer, d)
      BY <1>1, PrefixTransitive
    <3> QED BY <1>1, <2>2, <3>1
  <2> QED BY <2>1, <2>2
<1>7. /\ t = [match |-> t.match, known |-> t.known, onServer |-> t.onServer, pending |-> t.pending,
              settled |-> t.settled, lockLost |-> t.lockLost, seen |-> t.seen]
      /\ t.settled = v /\ t.pending = v /\ t.known = McKnownAdd(s.known, v) /\ t.seen = Append(s.seen, v)
      /\ t.onServer = IF learns THEN v ELSE s.onServer
  <2> DEFINE k == McKnownAdd(s.known, v)
             e == Append(s.seen, v)
             o == IF learns THEN v ELSE s.onServer
  <2>1. t = [s EXCEPT !.settled = v, !.known = k, !.seen = e, !.onServer = o]
    BY <1>1
  <2> HIDE DEF t, k, e, o, v
  <2>2. t = [match |-> s.match, known |-> k, onServer |-> o, pending |-> s.pending,
             settled |-> v, lockLost |-> s.lockLost, seen |-> e]
    BY <1>1, <2>1
  <2>3. /\ t = [match |-> t.match, known |-> t.known, onServer |-> t.onServer, pending |-> t.pending,
                settled |-> t.settled, lockLost |-> t.lockLost, seen |-> t.seen]
        /\ t.settled = v /\ t.pending = s.pending /\ t.known = k /\ t.seen = e /\ t.onServer = o
    BY <2>2
  <2> QED BY <2>3 DEF k, e, o, v
<1> HIDE DEF t
<1>8. Tracked(t, f, d)
  <2>1. /\ Remembers(t.known, t.seen) /\ IsSeq(t.settled) /\ IsSeq(t.pending) /\ IsSeq(t.onServer)
        /\ IsPrefix(t.settled, t.pending) /\ IsPrefix(t.pending, f) /\ IsPrefix(t.onServer, d)
        /\ \A w \in ToSet(t.known) : IsSeq(w) /\ IsPrefix(w, t.settled)
    BY <1>1, <1>3, <1>4, <1>5, <1>6, <1>7, Zenon
  <2> QED BY <1>7, <2>1, Zenon DEF Tracked
<1> QED BY <1>8 DEF t

\* What a send does to WE Camp's card, if every version it names is part of what it sends.
LEMMA SendGrows ==
  ASSUME NEW known, NEW latest, NEW learns, IsSeq(card), IsSeq(latest), cardFaults \in Nat,
         \A v \in ToSet(known) : IsPrefix(v, latest), McSend(known, latest, learns)
  PROVE  /\ IsSeq(card') /\ IsPrefix(card, card') /\ cardFaults' \in Nat
         /\ learns => card' = latest
         /\ cardFaults' = cardFaults => card' = latest \/ (card' = card /\ card \notin ToSet(known))
<1>1. IsPrefix(card, card)
  BY PrefixSelf
<1>2. card' = card \/ (card \in ToSet(known) /\ card' = latest)
  BY DEF McSend
<1>3. IsSeq(card') /\ IsPrefix(card, card')
  BY <1>1, <1>2
<1>4. cardFaults' \in Nat
  BY DEF McSend, Fault, NoFault
<1>5. learns => card' = latest
  BY DEF McSend
<1>6. cardFaults' = cardFaults => card' = latest \/ (card' = card /\ card \notin ToSet(known))
  <2>1. cardFaults + 1 # cardFaults
    OBVIOUS
  <2> QED BY <2>1 DEF McSend, Fault, NoFault
<1> QED BY <1>3, <1>4, <1>5, <1>6

LEMMA CardsInitInv == ASSUME CardsInit PROVE CardsInv
<1>1. <<>> \in Seq({})
  OBVIOUS
<1>2. IsSeq(<<>>)
  BY <1>1 DEF IsSeq
<1> QED BY <1>2 DEF CardsInit, CardsInv

\* What is already on its way or done stays right as WE Camp's card grows.
LEMMA CardGrows ==
  ASSUME CardsInv, IsSeq(card'), IsPrefix(card, card'), sentCards \subseteq sentCards'
  PROVE  /\ \A m \in finishing : EndedWell(m, card')
         /\ \A f \in finals : Accounted(f, card', sentCards')
         /\ \A p \in PCs : session[p] # NoSession => Tracked(session[p], file[p], card')
<1>1. IsSeq(card) /\ \A p \in PCs : IsSeq(file[p]) /\ IsPrefix(file[p], file[p])
  BY PrefixSelf DEF CardsInv
<1>2. \A m \in finishing : EndedWell(m, card')
  <2> SUFFICES ASSUME NEW m \in finishing PROVE EndedWell(m, card')
    OBVIOUS
  <2>1. EndedWell(m, card)
    BY DEF CardsInv
  <2> QED BY <1>1, <2>1, EndedGrows
<1>3. \A f \in finals : Accounted(f, card', sentCards')
  <2> SUFFICES ASSUME NEW f \in finals PROVE Accounted(f, card', sentCards')
    OBVIOUS
  <2>1. Accounted(f, card, sentCards)
    BY DEF CardsInv
  <2> QED BY <1>1, <2>1, AccountedGrows
<1>4. \A p \in PCs : session[p] # NoSession => Tracked(session[p], file[p], card')
  <2> SUFFICES ASSUME NEW p \in PCs, session[p] # NoSession PROVE Tracked(session[p], file[p], card')
    OBVIOUS
  <2>1. Tracked(session[p], file[p], card)
    BY DEF CardsInv
  <2> QED BY <1>1, <2>1, TrackedGrows
<1> QED BY <1>2, <1>3, <1>4

\* An action that leaves WE Camp's card alone and changes one PC.
LEMMA OnePC ==
  ASSUME CardsInv, UNCHANGED <<card, sentCards, finals>>, cardFaults' \in Nat,
         NEW p \in PCs, NEW s, NEW f, IsSeq(f), s # NoSession => Tracked(s, f, card),
         session' = [session EXCEPT ![p] = s], file' = [file EXCEPT ![p] = f],
         \A m \in finishing' : EndedWell(m, card)
  PROVE  CardsInv'
<1>1. file' = [q \in PCs |-> file'[q]] /\ session' = [q \in PCs |-> session'[q]]
  BY DEF CardsInv
<1>2. \A q \in PCs : file'[q] = (IF q = p THEN f ELSE file[q]) /\ session'[q] = (IF q = p THEN s ELSE session[q])
  BY DEF CardsInv
<1>3. \A q \in PCs : IsSeq(file'[q]) /\ (session'[q] # NoSession => Tracked(session'[q], file'[q], card))
  <2> SUFFICES ASSUME NEW q \in PCs
               PROVE  IsSeq(file'[q]) /\ (session'[q] # NoSession => Tracked(session'[q], file'[q], card))
    OBVIOUS
  <2>1. CASE q = p
    BY <1>2, <2>1, Zenon
  <2>2. CASE q # p
    <3>1. file'[q] = file[q] /\ session'[q] = session[q]
      BY <1>2, <2>2
    <3> QED BY <3>1, Zenon DEF CardsInv
  <2> QED BY <2>1, <2>2
<1>4. IsSeq(card) /\ card \in sentCards /\ \A g \in finals : Accounted(g, card, sentCards)
  BY Zenon DEF CardsInv
<1>5. card' = card /\ sentCards' = sentCards /\ finals' = finals
  OBVIOUS
<1> QED BY <1>1, <1>3, <1>4, <1>5, Zenon DEF CardsInv

LEMMA CardsStep ==
  ASSUME CardsInv, [CardsNext]_cardVars
  PROVE  CardsInv'
<1> USE DEF cardSetting, serverCards
<1>1. /\ IsSeq(card) /\ card \in sentCards /\ cardFaults \in Nat
      /\ file = [p \in PCs |-> file[p]] /\ session = [p \in PCs |-> session[p]]
      /\ \A p \in PCs : IsSeq(file[p])
      /\ \A p \in PCs : session[p] # NoSession => Tracked(session[p], file[p], card)
      /\ \A m \in finishing : EndedWell(m, card)
      /\ \A f \in finals : Accounted(f, card, sentCards)
  BY Zenon DEF CardsInv
<1>2. \A p \in PCs : session = [session EXCEPT ![p] = session[p]] /\ file = [file EXCEPT ![p] = file[p]]
  BY <1>1
<1>3. IsPrefix(card, card)
  BY <1>1, PrefixSelf
<1>4. (NoFault \/ Fault) => cardFaults' \in Nat
  BY <1>1 DEF Fault, NoFault
<1>5. ASSUME NEW p \in PCs, Prepare(p) PROVE CardsInv'
  <2>1. /\ UNCHANGED <<card, sentCards, finals, finishing>> /\ NoFault
        /\ file' = [file EXCEPT ![p] = card]
        /\ session' = [session EXCEPT ![p] = IF Tracks(p) THEN Started(p) ELSE NoSession]
    BY <1>5 DEF Prepare, MayPrepare
  <2>2. Tracked(Started(p), card, card)
    BY <1>1, StartedTracked DEF Started
  <2> DEFINE s == IF Tracks(p) THEN Started(p) ELSE NoSession
  <2>3. s # NoSession => Tracked(s, card, card)
    BY <2>2
  <2> HIDE DEF s
  <2>4. session' = [session EXCEPT ![p] = s] /\ \A m \in finishing' : EndedWell(m, card)
    BY <1>1, <2>1, Zenon DEF s
  <2> QED BY <1>1, <1>4, <2>1, <2>3, <2>4, OnePC
<1>6. ASSUME NEW p \in PCs, PrepareFails(p) PROVE CardsInv'
  <2>1. UNCHANGED <<card, sentCards, finals, finishing, file, session>> /\ (NoFault \/ Fault)
    BY <1>6 DEF PrepareFails, MayPrepare
  <2> QED BY <1>1, <1>4, <2>1, Zenon DEF CardsInv
<1>7. ASSUME NEW p \in PCs, GameSaves(p) PROVE CardsInv'
  <2> DEFINE f == Append(file[p], <<match[p], SavesOf(p) + 1>>)
             s == session[p]
  <2>1. /\ UNCHANGED <<card, sentCards, finals, finishing, session>> /\ NoFault
        /\ file' = [file EXCEPT ![p] = f]
    BY <1>7 DEF GameSaves
  <2>2. IsSeq(f) /\ IsPrefix(file[p], f)
    BY <1>1, SeqAppend, PrefixAppend
  <2> HIDE DEF f
  <2>3. s # NoSession => Tracked(s, f, card)
    BY <1>1, <1>3, <2>2, TrackedGrows
  <2>4. session' = [session EXCEPT ![p] = s] /\ \A m \in finishing' : EndedWell(m, card)
    BY <1>1, <1>2, <2>1, Zenon
  <2> HIDE DEF s
  <2> QED BY <1>1, <1>4, <2>1, <2>2, <2>3, <2>4, OnePC
<1>8. ASSUME NEW p \in PCs, McSees(p) PROVE CardsInv'
  <2> DEFINE f == file[p]
             s == [session[p] EXCEPT !.pending = file[p]]
  <2>1. /\ UNCHANGED <<card, sentCards, finals, finishing, file>> /\ NoFault
        /\ session' = [session EXCEPT ![p].pending = file[p]] /\ session[p] # NoSession
    BY <1>8 DEF McSees, Watches
  <2>2. session' = [session EXCEPT ![p] = s]
    BY <2>1
  <2>3. Tracked(s, f, card)
    <3>1. PICK r : r = session[p]
      OBVIOUS
    <3>2. Tracked(r, f, card)
      BY <1>1, <2>1, <3>1
    <3>3. /\ r = [match |-> r.match, known |-> r.known, onServer |-> r.onServer, pending |-> r.pending,
                  settled |-> r.settled, lockLost |-> r.lockLost, seen |-> r.seen]
          /\ IsSeq(r.settled) /\ IsSeq(r.pending) /\ IsPrefix(r.settled, r.pending) /\ IsPrefix(r.pending, f)
      BY <3>2, Zenon DEF Tracked
    <3>4. IsSeq(f) /\ IsPrefix(f, f) /\ IsPrefix(r.settled, f)
      BY <1>1, <3>3, PrefixSelf, PrefixTransitive
    <3>5. /\ s.match = r.match /\ s.known = r.known /\ s.onServer = r.onServer /\ s.pending = f
          /\ s.settled = r.settled /\ s.lockLost = r.lockLost /\ s.seen = r.seen
          /\ s = [match |-> s.match, known |-> s.known, onServer |-> s.onServer, pending |-> s.pending,
                  settled |-> s.settled, lockLost |-> s.lockLost, seen |-> s.seen]
      BY <3>1, <3>3
    <3> HIDE DEF s, f
    <3> QED BY <3>2, <3>4, <3>5, Zenon DEF Tracked
  <2> HIDE DEF s
  <2>4. IsSeq(f) /\ file' = [file EXCEPT ![p] = f] /\ \A m \in finishing' : EndedWell(m, card)
    BY <1>1, <1>2, <2>1, Zenon
  <2> HIDE DEF f
  <2> QED BY <1>1, <1>4, <2>1, <2>2, <2>3, <2>4, OnePC
<1>9. ASSUME NEW p \in PCs, McSettles(p) PROVE CardsInv'
  <2>1. PICK s : s = session[p]
    OBVIOUS
  <2>2. PICK learns \in BOOLEAN :
          /\ IF p = Owner THEN McSend(s.known, s.pending, learns) ELSE ~learns /\ UNCHANGED card /\ NoFault
          /\ session' = [session EXCEPT ![p] =
               [s EXCEPT !.settled = s.pending, !.known = McKnownAdd(@, s.pending),
                         !.seen = Append(@, s.pending), !.onServer = IF learns THEN s.pending ELSE @]]
    BY <1>9, <2>1 DEF McSettles
  <2>3. /\ s # NoSession /\ file[p] = s.pending /\ s.pending # s.settled
        /\ sentCards' = sentCards \cup {card'} /\ UNCHANGED <<file, finishing, finals>>
    BY <1>9, <2>1 DEF McSettles, Watches, Sent
  <2>4. Tracked(s, file[p], card)
    BY <1>1, <2>1, <2>3
  <2>5. /\ IsSeq(s.pending) /\ IsSeq(s.settled) /\ IsPrefix(s.settled, s.pending)
        /\ \A v \in ToSet(s.known) : IsSeq(v) /\ IsPrefix(v, s.settled)
    BY <2>4, Zenon DEF Tracked
  <2>6. \A v \in ToSet(s.known) : IsPrefix(v, s.pending)
    BY <2>5, PrefixTransitive
  <2>7. IsSeq(card') /\ IsPrefix(card, card') /\ cardFaults' \in Nat /\ (learns => card' = s.pending)
    <3>1. CASE p = Owner
      <4>1. McSend(s.known, s.pending, learns)
        BY <2>2, <3>1
      <4> QED BY <1>1, <2>5, <2>6, <4>1, SendGrows
    <3>2. CASE p # Owner
      <4>1. ~learns /\ card' = card /\ NoFault
        BY <2>2, <3>2
      <4> QED BY <1>1, <1>3, <1>4, <4>1
    <3> QED BY <3>1, <3>2
  <2> DEFINE t == [s EXCEPT !.settled = s.pending, !.known = McKnownAdd(@, s.pending),
                            !.seen = Append(@, s.pending), !.onServer = IF learns THEN s.pending ELSE @]
  <2>8. Tracked(t, file[p], card')
    BY <1>1, <2>3, <2>4, <2>7, SettledTracked
  <2> HIDE DEF t
  <2>9. session' = [session EXCEPT ![p] = t]
    BY <2>2 DEF t
  <2>10. /\ \A m \in finishing : EndedWell(m, card')
         /\ \A f \in finals : Accounted(f, card', sentCards')
         /\ \A q \in PCs : session[q] # NoSession => Tracked(session[q], file[q], card')
    BY <2>3, <2>7, CardGrows
  <2>11. \A q \in PCs : session'[q] # NoSession => Tracked(session'[q], file[q], card')
    <3> SUFFICES ASSUME NEW q \in PCs, session'[q] # NoSession PROVE Tracked(session'[q], file[q], card')
      OBVIOUS
    <3>1. CASE q = p
      <4>1. session'[q] = t
        BY <1>1, <2>9, <3>1
      <4> QED BY <2>8, <3>1, <4>1, Zenon
    <3>2. CASE q # p
      <4>1. session'[q] = session[q]
        BY <1>1, <2>9, <3>2
      <4> QED BY <2>10, <4>1, Zenon
    <3> QED BY <3>1, <3>2
  <2>12. session' = [q \in PCs |-> session'[q]] /\ card' \in sentCards'
    BY <1>1, <2>3, <2>9
  <2> QED BY <1>1, <2>3, <2>7, <2>10, <2>11, <2>12, Zenon DEF CardsInv
<1>10. ASSUME NEW p \in PCs, McRenews(p) PROVE CardsInv'
  <2> DEFINE f == file[p]
             s == [session[p] EXCEPT !.lockLost = (lock = "theirs")]
  <2>1. /\ UNCHANGED <<card, sentCards, finals, finishing, file>> /\ NoFault
        /\ session' = [session EXCEPT ![p].lockLost = (lock = "theirs")] /\ session[p] # NoSession
    BY <1>10 DEF McRenews, Watches
  <2>2. session' = [session EXCEPT ![p] = s]
    BY <2>1
  <2>3. Tracked(s, f, card)
    <3>1. PICK r : r = session[p]
      OBVIOUS
    <3>2. Tracked(r, f, card)
      BY <1>1, <2>1, <3>1
    <3>3. r = [match |-> r.match, known |-> r.known, onServer |-> r.onServer, pending |-> r.pending,
               settled |-> r.settled, lockLost |-> r.lockLost, seen |-> r.seen]
      BY <3>2, Zenon DEF Tracked
    <3>4. /\ s.match = r.match /\ s.known = r.known /\ s.onServer = r.onServer /\ s.pending = r.pending
          /\ s.settled = r.settled /\ s.seen = r.seen
          /\ s = [match |-> s.match, known |-> s.known, onServer |-> s.onServer, pending |-> s.pending,
                  settled |-> s.settled, lockLost |-> s.lockLost, seen |-> s.seen]
      BY <3>1, <3>3
    <3> HIDE DEF s, f
    <3> QED BY <3>2, <3>4, Zenon DEF Tracked
  <2> HIDE DEF s
  <2>4. IsSeq(f) /\ file' = [file EXCEPT ![p] = f] /\ \A m \in finishing' : EndedWell(m, card)
    BY <1>1, <1>2, <2>1, Zenon
  <2> HIDE DEF f
  <2> QED BY <1>1, <1>4, <2>1, <2>2, <2>3, <2>4, OnePC
<1>11. ASSUME NEW p \in PCs, GameEnds(p) PROVE CardsInv'
  <2>1. UNCHANGED <<card, sentCards, finals, finishing, file, session>> /\ NoFault
    BY <1>11 DEF GameEnds
  <2> QED BY <1>1, <1>4, <2>1, Zenon DEF CardsInv
<1>12. ASSUME NEW p \in PCs, MemcardFinish(p) PROVE CardsInv'
  <2>1. /\ UNCHANGED <<card, sentCards, finals, file>> /\ (NoFault \/ Fault)
        /\ session' = [session EXCEPT ![p] = NoSession]
        /\ finishing' = finishing \/ (session[p] # NoSession /\ finishing' = finishing \cup {Ended(p)})
    BY <1>12 DEF MemcardFinish
  <2>2. ASSUME session[p] # NoSession PROVE EndedWell(Ended(p), card)
    <3>1. PICK r : r = session[p]
      OBVIOUS
    <3>2. PICK f : f = file[p]
      OBVIOUS
    <3>3. Tracked(r, f, card) /\ IsSeq(f)
      BY <1>1, <2>2, <3>1, <3>2
    <3>4. /\ Remembers(r.known, r.seen)
          /\ \A v \in ToSet(r.known) : IsSeq(v) /\ IsPrefix(v, r.settled)
          /\ IsSeq(r.settled) /\ IsSeq(r.pending) /\ IsSeq(r.onServer)
          /\ IsPrefix(r.settled, r.pending) /\ IsPrefix(r.pending, f) /\ IsPrefix(r.onServer, card)
      BY <3>3, Zenon DEF Tracked
    <3>5. IsPrefix(r.settled, f)
      BY <3>3, <3>4, PrefixTransitive
    <3>6. \A v \in ToSet(r.known) : IsSeq(v) /\ IsPrefix(v, f)
      BY <3>3, <3>4, <3>5, PrefixTransitive
    <3>7. /\ Ended(p).known = r.known /\ Ended(p).onServer = r.onServer
          /\ Ended(p).final = f /\ Ended(p).seen = r.seen
      BY <3>1, <3>2 DEF Ended
    <3> QED BY <3>3, <3>4, <3>6, <3>7, Zenon DEF EndedWell
  <2>3. \A m \in finishing' : EndedWell(m, card)
    BY <1>1, <2>1, <2>2
  <2> DEFINE f == file[p]
  <2>4. IsSeq(f) /\ file' = [file EXCEPT ![p] = f]
    BY <1>1, <1>2, <2>1, Zenon
  <2> HIDE DEF f
  <2> QED BY <1>1, <1>4, <2>1, <2>3, <2>4, OnePC
<1>13. ASSUME NEW p \in PCs, SwitchedOff(p) PROVE CardsInv'
  <2>1. /\ UNCHANGED <<card, sentCards, finals, file>> /\ Fault
        /\ session' = [session EXCEPT ![p] = NoSession] /\ finishing' \subseteq finishing
    BY <1>13 DEF SwitchedOff
  <2> DEFINE f == file[p]
  <2>2. IsSeq(f) /\ file' = [file EXCEPT ![p] = f] /\ \A m \in finishing' : EndedWell(m, card)
    BY <1>1, <1>2, <2>1
  <2> HIDE DEF f
  <2> QED BY <1>1, <1>4, <2>1, <2>2, OnePC
<1>14. ASSUME NEW m \in finishing, McFinish(m) PROVE CardsInv'
  <2>1. EndedWell(m, card)
    BY <1>1
  <2>2. /\ IsSeq(m.final) /\ IsSeq(m.onServer) /\ IsPrefix(m.onServer, card) /\ Remembers(m.known, m.seen)
        /\ \A v \in ToSet(m.known) : IsSeq(v) /\ IsPrefix(v, m.final)
    BY <2>1, Zenon DEF EndedWell
  <2>3. /\ finishing' = finishing \ {m} /\ UNCHANGED <<file, session>>
        /\ sentCards' = sentCards \cup {card'}
        /\ finals' = (IF cardFaults' = cardFaults THEN finals \cup {[final |-> m.final, seen |-> m.seen]}
                      ELSE finals)
    BY <1>14 DEF McFinish
  <2>4. ToSet(m.known) = Named(m.seen)
    BY <2>2, KnownIsNamed
  <2>5. /\ IsSeq(card') /\ IsPrefix(card, card') /\ cardFaults' \in Nat
        /\ cardFaults' = cardFaults =>
             IsPrefix(m.final, card') \/ (card' = card /\ card \notin Named(m.seen))
    <3>1. CASE m.final = m.onServer
      <4>1. card' = card /\ NoFault
        BY <1>14, <3>1 DEF McFinish
      <4> QED BY <1>1, <1>3, <1>4, <2>2, <3>1, <4>1
    <3>2. CASE m.final # m.onServer
      <4>1. PICK learns \in BOOLEAN : McSend(m.known, m.final, learns)
        BY <1>14, <3>2 DEF McFinish
      <4>2. /\ IsSeq(card') /\ IsPrefix(card, card') /\ cardFaults' \in Nat
            /\ cardFaults' = cardFaults => card' = m.final \/ (card' = card /\ card \notin ToSet(m.known))
        BY <1>1, <2>2, <4>1, SendGrows
      <4>3. IsPrefix(m.final, m.final)
        BY <2>2, PrefixSelf
      <4> QED BY <2>4, <4>2, <4>3
    <3> QED BY <3>1, <3>2
  <2>6. /\ \A e \in finishing : EndedWell(e, card')
        /\ \A f \in finals : Accounted(f, card', sentCards')
        /\ \A q \in PCs : session[q] # NoSession => Tracked(session[q], file[q], card')
    BY <2>3, <2>5, CardGrows
  <2>7. \A f \in finals' : Accounted(f, card', sentCards')
    <3> SUFFICES ASSUME NEW f \in finals', f \notin finals PROVE Accounted(f, card', sentCards')
      BY <2>6
    <3>1. cardFaults' = cardFaults /\ f = [final |-> m.final, seen |-> m.seen]
      BY <2>3
    <3>2. f.final = m.final /\ f.seen = m.seen
      BY <3>1
    <3>3. card \in sentCards'
      BY <1>1, <2>3
    <3>4. IsPrefix(f.final, card') \/ (card' = card /\ card \notin Named(f.seen))
      BY <2>5, <3>1, <3>2
    <3>5. IsSeq(f.final)
      BY <2>2, <3>2
    <3> QED BY <3>3, <3>4, <3>5, Zenon DEF Accounted
  <2>8. card' \in sentCards' /\ \A e \in finishing' : EndedWell(e, card')
    BY <2>3, <2>6
  <2> QED BY <1>1, <2>3, <2>5, <2>6, <2>7, <2>8, Zenon DEF CardsInv
<1>15. CASE Rival
  <2>1. UNCHANGED <<card, sentCards, finals, finishing, file, session>> /\ NoFault
    BY <1>15 DEF Rival
  <2> QED BY <1>1, <1>4, <2>1, Zenon DEF CardsInv
<1>16. CASE UNCHANGED cardVars
  <2>1. UNCHANGED <<card, sentCards, finals, finishing, file, session, cardFaults>>
    BY <1>16 DEF cardVars
  <2> QED BY <1>1, <2>1, Zenon DEF CardsInv
<1> QED BY <1>5, <1>6, <1>7, <1>8, <1>9, <1>10, <1>11, <1>12, <1>13, <1>14, <1>15, <1>16 DEF CardsNext

\* Once everything is sent, WE Camp has every card some PC's match ended with, whoever was switched
\* off and whichever answers were lost; unless it had a version that this PC did not see, or too
\* long ago (McSend, McKnownAdd, McFinishThread of kailleraclient.cpp).
THEOREM SpecSavesReachWECamp == CardsSpec => []SavesReachWECamp
<1>1. CardsInit => CardsInv
  BY CardsInitInv
<1>2. CardsInv /\ [CardsNext]_cardVars => CardsInv'
  BY CardsStep
<1>3. CardsInv => SavesReachWECamp
  BY DEF CardsInv, Accounted, SavesReachWECamp
<1> QED BY <1>1, <1>2, <1>3, PTL DEF CardsSpec
=============================================================================

----------------------------- MODULE UpdaterProps -----------------------------
\* What the updater must not do to an installation.
EXTENDS Updater

\* "Every file is checked against the manifest's sha256": a file that was not completely received
\* and checked is never installed, whichever process is killed.
InstalledIsChecked == \A f \in Files : disk[f]["full"] # Part

\* "Nada foi alterado": after a failure, whichever file it was, everything installed is what
\* it was before.  As long as no process was killed, what is reported as installed is one release
\* and not a mixture, and no file that was not completely received and checked is installed: a
\* download that failed, was cancelled or did not fit on the disk leaves no "<file>.new" for the
\* SwapInPendingUpdate of a later start to pick up.  Not if the undoing itself was refused: a DLL
\* that could go neither in nor back leaves its place empty, and the package may not contain it.
AllOrNothing ==
  /\ (told = "unchanged" /\ ~undoFailed) => \A f \in Files : disk[f]["full"] = before[f]
  /\ kills = 0 => \A f \in Files : disk[f]["full"] # Part
  /\ (pc = "done" /\ told = "package" /\ kills = 0 /\ ~undoFailed) =>
       \E r \in Releases : \A f \in Files : disk[f]["full"] = BuiltIn[f][r]

\* No file gives way to one of an older release: a tester's build or a commit past the last
\* tag is not taken back to what the site has, not even the files the DLL's version says
\* nothing of.
NoDowngrade ==
  [][ /\ (version # 0 /\ disk'[Self]["full"] \in Releases) => disk'[Self]["full"] >= version
      /\ (told' = "package" /\ told # "package") =>
            \A f \in Files : disk'[f]["full"] >= before[f] ]_uvars
=============================================================================

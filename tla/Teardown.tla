------------------------------- MODULE Teardown -------------------------------
(***************************************************************************)
(* The connection to a server between the two threads that hold it: the    *)
(* window's thread makes it and deletes it (ConnectToServer), the loop of  *)
(* kailleraSelectServerDialog uses it in kaillera_step.  Nothing but the   *)
(* order of two accesses on each side keeps the one from deleting what the *)
(* other uses.  Every access is an action of its own, in program order.    *)
(***************************************************************************)
EXTENDS Integers
CONSTANT MaxConnects      \* bounds the connections
ASSUME TeardownAssumption == MaxConnects \in Nat

VARIABLES
  stepping,         \* where kaillera_step is
  inUse,            \* the k_message it works with
  connecting,       \* where the window's thread is
  toDelete,         \* conn of kaillera_core_cleanup
  coreInitialized,  \* KAILLERA_CORE_INITIALIZED
  connection,       \* KAILLERAC.connection: the number of the k_message, or 0
  allocated,        \* the k_messages not deleted
  unbound,          \* history: those that found no port
  stepActive,       \* kaillera_step_active
  userstat,         \* USERSTAT > 1
  opened            \* history: connections made
teardownVars == <<stepping, inUse, connecting, toDelete, coreInitialized, connection, allocated, unbound,
                  stepActive, userstat, opened>>

TeardownInit ==
  /\ stepping = "out" /\ inUse = 0 /\ connecting = "list" /\ toDelete = 0
  /\ coreInitialized = FALSE /\ connection = 0 /\ allocated = {} /\ unbound = {} /\ stepActive = FALSE
  /\ userstat = FALSE /\ opened = 0

Window == <<connecting, toDelete, coreInitialized, connection, allocated, unbound, opened>>
Step == <<stepping, inUse, stepActive>>

-----------------------------------------------------------------------------
\* kaillera_step.
StepEnters ==
  /\ stepping = "out" /\ coreInitialized /\ stepping' = "first"
  /\ UNCHANGED <<inUse, stepActive, userstat, Window>>
StepTests ==
  /\ stepping = "first" /\ stepping' = (IF connection = 0 THEN "out" ELSE "flag")
  /\ UNCHANGED <<inUse, stepActive, userstat, Window>>
StepActivates ==
  /\ stepping = "flag" /\ stepping' = "recheck" /\ stepActive' = TRUE
  /\ UNCHANGED <<inUse, userstat, Window>>
StepTestsAndUses(c) ==
  /\ inUse' = c /\ stepping' = (IF c = 0 THEN "leave" ELSE "use")
  /\ UNCHANGED <<stepActive, userstat, Window>>
StepRechecks == stepping = "recheck" /\ StepTestsAndUses(connection)
\* The while loop tests the pointer again before each has_data and each receive_instruction.
StepLoops == stepping = "while" /\ StepTestsAndUses(connection)
StepReceives ==
  /\ stepping = "use"
  /\ \/ stepping' = "while" /\ userstat' \in {userstat, TRUE}       \* LONGSUCC logs in
     \/ stepping' = "timer" /\ UNCHANGED userstat                   \* no data
  /\ UNCHANGED <<inUse, stepActive, Window>>
\* TMOUTRST: the pointer is tested, and after a call read again.
StepTimer ==
  /\ stepping = "timer"
  /\ \/ stepping' = "leave"
     \/ userstat /\ connection # 0 /\ stepping' = "send"
  /\ UNCHANGED <<inUse, stepActive, userstat, Window>>
StepSends ==
  /\ stepping = "send" /\ connection # 0 /\ inUse' = connection /\ stepping' = "sent"
  /\ UNCHANGED <<stepActive, userstat, Window>>
\* It has become 0: the exception ends in the handler of the loop, and the flag stays set.
StepFaults ==
  /\ stepping = "send" /\ connection = 0 /\ stepping' = "out"
  /\ UNCHANGED <<inUse, stepActive, userstat, Window>>
StepLeaves ==
  /\ stepping \in {"leave", "sent"} /\ stepping' = "out" /\ stepActive' = FALSE
  /\ UNCHANGED <<inUse, userstat, Window>>

-----------------------------------------------------------------------------
\* ConnectToServer with kaillera_core_initialize, kaillera_disconnect and kaillera_core_cleanup.
ConnectOpens ==
  /\ connecting = "list" /\ opened < MaxConnects
  /\ connecting' = "open" /\ coreInitialized' = TRUE
  /\ UNCHANGED <<toDelete, connection, allocated, unbound, opened, userstat, Step>>
InitializeCore ==
  /\ connecting = "open" /\ opened' = opened + 1 /\ userstat' = FALSE
  /\ connection' = opened' /\ allocated' = allocated \cup {opened'}
  /\ connecting' \in {"dialog", "noPort"}
  /\ UNCHANGED <<unbound, toDelete, coreInitialized, Step>>
\* k_message::initialize binds no port: the connection goes without a look at kaillera_step_active.
NoPort ==
  /\ connecting = "noPort" /\ connecting' = "list" /\ unbound' = unbound \cup {connection}
  /\ allocated' = allocated \ {connection} /\ connection' = 0
  /\ UNCHANGED <<toDelete, coreInitialized, opened, userstat, Step>>
DialogCloses ==
  /\ connecting = "dialog" /\ connecting' = "disconnect" /\ coreInitialized' = FALSE
  /\ UNCHANGED <<toDelete, connection, allocated, unbound, opened, userstat, Step>>
Disconnect ==
  /\ connecting = "disconnect" /\ connecting' = "cleanup" /\ userstat' = FALSE
  /\ UNCHANGED <<toDelete, coreInitialized, connection, allocated, unbound, opened, Step>>
CleanupNulls ==
  /\ connecting = "cleanup" /\ connecting' = "wait" /\ toDelete' = connection /\ connection' = 0
  /\ UNCHANGED <<coreInitialized, allocated, unbound, opened, userstat, Step>>
CleanupWaitsNot ==                     \* mutant: the step in flight is not waited for
  /\ connecting = "wait" /\ connecting' = "delete"
  /\ UNCHANGED <<toDelete, coreInitialized, connection, allocated, unbound, opened, userstat, Step>>
CleanupWaits ==
  /\ connecting = "wait" /\ ~stepActive /\ connecting' = "delete"
  /\ UNCHANGED <<toDelete, coreInitialized, connection, allocated, unbound, opened, userstat, Step>>
CleanupDeletes ==
  /\ connecting = "delete" /\ connecting' = "list" /\ allocated' = allocated \ {toDelete}
  /\ userstat' = FALSE
  /\ UNCHANGED <<unbound, toDelete, coreInitialized, connection, opened, Step>>

TeardownNext ==
  \/ StepEnters \/ StepTests \/ StepActivates \/ StepRechecks \/ StepLoops \/ StepReceives
  \/ StepTimer \/ StepSends \/ StepFaults \/ StepLeaves
  \/ ConnectOpens \/ InitializeCore \/ NoPort \/ DialogCloses \/ Disconnect
  \/ CleanupNulls \/ CleanupWaits \/ CleanupDeletes

TeardownSpec == TeardownInit /\ [][TeardownNext]_teardownVars
-----------------------------------------------------------------------------
\* What kaillera_step_active is for: kaillera_core_cleanup never deletes the connection under
\* kaillera_step.  Whichever of the two looks second sees what the other wrote first, the flag or
\* the pointer.  (A connection that found no port is deleted without that look.)
StepKeepsConnection == stepping \in {"use", "sent"} => inUse \in allocated \cup unbound
=============================================================================

------------------------------- MODULE MCWaits -------------------------------
(***************************************************************************)
(* TLC's instance of the waits that must end whatever the network loses: a *)
(* player's for the other's input (P2PGame, with a delay of one, every     *)
(* message sent twice), the netsync loop's for the start (KNetSync) and a  *)
(* search by code (Traversal).  The three share no state; one behaviour    *)
(* runs one of them, with the others standing still.                       *)
(***************************************************************************)
EXTENDS MCP2PGame, KNetSync, Traversal

CONSTANT ana

VARIABLE part
waitVars == <<part, vars, syncVars, travVars>>

\* A loop that is over, with nothing on its way.
SyncOver ==
  /\ pstat = 0 /\ now = 0 /\ tit = RetryInterval /\ resends = 0
  /\ uplink = FALSE /\ heard = TRUE
  /\ srvSent = <<>> /\ inNet = {} /\ socket = <<>> /\ lost = {} /\ got = 0
  /\ passed = 0 /\ inCache = {} /\ strayed = FALSE

WaitInit ==
  /\ Init /\ TravInit
  /\ \/ part = "p2p" /\ SyncOver
     \/ part = "netsync" /\ SyncInit
     \/ part = "search" /\ SyncOver
  /\ part # "search" => passable = {}

WaitNext ==
  /\ UNCHANGED part
  /\ \/ part = "p2p" /\ Next /\ UNCHANGED <<syncVars, travVars>>
     \/ part = "netsync" /\ SyncNext /\ UNCHANGED <<vars, travVars>>
     \/ part = "search" /\ TravNext /\ UNCHANGED <<vars, syncVars>>

\* P2PGame's FairSpec, KNetSync's SyncFairSpec and Traversal's TravFairSpec, each for the part
\* that runs.
WaitSpec ==
  /\ WaitInit /\ [][WaitNext]_waitVars
  /\ \A p \in Players :
       /\ WF_vars(part = "p2p" /\ \E v \in Inputs[p] : Call(p, v))
       /\ WF_vars(part = "p2p" /\ Return(p))
       /\ WF_vars(part = "p2p" /\ Fail(p))
       /\ WF_vars(part = "p2p" /\ Retransmit(p))
       /\ SF_vars(part = "p2p" /\ \E b \in net[p] : b.newest > Newest(p) /\ Receive(p, b))
       /\ WF_vars(part = "p2p" /\ status[Peer(p)] = 1 /\ DataTimeout(p))
  /\ WF_syncVars(part = "netsync" /\ TurnReceive)
  /\ WF_syncVars(part = "netsync" /\ TurnIdle)
  /\ WF_travVars(part = "search" /\ \E m \in wire : Arrives(m))
  /\ SF_travVars(part = "search" /\ HostTimer)
  /\ \A j \in Joiners : SF_travVars(part = "search" /\ JoinerTimer(j))
=============================================================================

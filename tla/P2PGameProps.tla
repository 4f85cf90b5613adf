---------------------------- MODULE P2PGameProps ----------------------------
(***************************************************************************)
(* What a game between two players must do, stated over P2PGame.           *)
(***************************************************************************)
EXTENDS P2PGame

CONSTANT Nothing     \* Lockstep's filling, which this mode never uses

AllInputs == UNION {Inputs[p] : p \in Players}

ASSUME NothingAssumption == Nothing \notin AllInputs

Frame == [Players -> AllInputs]

TypeOK ==
  /\ status \in [Players -> {1, 3}]
  /\ inCall \in [Players -> BOOLEAN]
  /\ frameno \in [Players -> Nat]
  /\ userdata \in [Players -> Seq(AllInputs)]
  /\ peerdata \in [Players -> Seq(AllInputs)]
  /\ sent \in [Players -> Seq({Data(v) : v \in AllInputs} \cup {DropMsg})]
  /\ net \in [Players -> SUBSET [newest : Nat \ {0}, count : Nat \ {0}]]
  /\ last \in [Players -> 0 .. SerialMod - 1]
  /\ typed \in [Players -> Seq(AllInputs)]
  /\ given \in [Players -> Seq(Frame)]

\* The two emulators see one sequence of frames, each with what both typed for it, as
\* long as the network never loses or delays the first datagrams of default_ipm messages
\* in a row, and whatever it does to the retransmissions.
Session == INSTANCE Lockstep WITH
  Inputs <- AllInputs,
  left <- {p \in Players : status[p] = 1}
LockstepSpec == Session!Spec

\* Neither player runs away from the other: however long a datagram takes, the one who
\* is ahead has called at most the delay and one call more often, which is what bounds
\* PEERDATA, in_cache and the messages out_cache must still have.
LeadBounded == \A p \in Players :
  /\ Len(typed[p]) <= Len(typed[Peer(p)]) + Throughput + 1
  /\ Len(peerdata[p]) <= 2 * Throughput + 2

\* The threads run, and the network does not lose every datagram for ever.  A call whose
\* peer has left reaches the 320th retransmission.
FairSpec == Spec /\ \A p \in Players :
  /\ WF_vars(\E v \in Inputs[p] : Call(p, v))
  /\ WF_vars(Return(p)) /\ WF_vars(Fail(p)) /\ WF_vars(Retransmit(p))
  /\ SF_vars(\E b \in net[p] : b.newest > Newest(p) /\ Receive(p, b))
  /\ WF_vars(status[Peer(p)] = 1 /\ DataTimeout(p))

\* The two never wait for each other for ever: what the network may lose, later datagrams repeat
\* early enough, with nobody acknowledging anything.  And when one leaves, the other's game ends
\* too, even if every DROP is lost.
NobodyWaitsForever ==
  /\ (\A p \in Players : Waits(p)) ~> (\E p \in Players : ~Waits(p))
  /\ \A p \in Players : (status[p] = 1) ~> (status[Peer(p)] = 1)
=============================================================================

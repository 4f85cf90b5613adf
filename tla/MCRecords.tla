------------------------------ MODULE MCRecords ------------------------------
(***************************************************************************)
(* TLC's instance of what a client writes in one place and reads in        *)
(* another: the messages of the two protocols, field by field (Instruction)*)
(* and in sequence over a network that loses little (KMessage), a recorded *)
(* game (Recording), the memory card of a match (MatchCards) and the login *)
(* that two windows share (Account).  The five share no state; one         *)
(* behaviour runs one of them, chosen at the start, with the others        *)
(* standing still.                                                         *)
(***************************************************************************)
EXTENDS MCKMessage, Instruction, Recording, MatchCards, Account

CONSTANTS own, gst, v1, v2

VARIABLE part
recordsVars == <<part, vars, instructionVars, recordingVars, cardVars, accountVars>>

RecordsInit ==
  /\ part \in {"messages", "fields", "recording", "cards", "account"}
  /\ Init /\ InstructionInit /\ RecordingInit /\ CardsInit /\ AccountInit
  /\ part # "fields" => codec = "p2p"
  /\ part # "recording" => inputLen = Max(InputLens) /\ Len(disk) = 2
  /\ part # "cards" => ~iso /\ multiBase /\ withLogin = PCs
  /\ part # "account" => valid = {} /\ discord = {}

RecordsNext ==
  /\ UNCHANGED part
  /\ \/ /\ part = "messages" /\ Next
        /\ UNCHANGED <<instructionVars, recordingVars, cardVars, accountVars>>
     \/ /\ part = "fields" /\ InstructionNext
        /\ UNCHANGED <<vars, recordingVars, cardVars, accountVars>>
     \/ /\ part = "recording" /\ RecordingNext
        /\ UNCHANGED <<vars, instructionVars, cardVars, accountVars>>
     \/ /\ part = "cards" /\ CardsNext
        /\ UNCHANGED <<vars, instructionVars, recordingVars, accountVars>>
     \/ /\ part = "account" /\ AccountNext
        /\ UNCHANGED <<vars, instructionVars, recordingVars, cardVars>>

RecordsSpec == RecordsInit /\ [][RecordsNext]_recordsVars
=============================================================================

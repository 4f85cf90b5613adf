----------------------------- MODULE Instruction -----------------------------
(***************************************************************************)
(* How a message of the two protocols is put together field by field, goes *)
(* on the wire and is taken apart: k_instruction (kcore/k_instruction.h) to a*)
(* server, p2p_instruction (core/p2p_instruction.cpp) between two players, *)
(* with the length byte that p2p_message::send gives it.                   *)
(*                                                                         *)
(* A byte is 0, the NUL, or tells which field it belongs to.  Sizes are the*)
(* real ones.                                                              *)
(***************************************************************************)
EXTENDS Integers, Sequences, SequencesExt, FiniteSetsExt

CONSTANTS
  NumLens,     \* the sizes of numbers and of fixed fields (store_sstring and the like)
  StrLens,     \* the lengths of the strings, as typed
  StrCaps,     \* the sizes of what they are read into
  MaxFields    \* bound

ASSUME InstructionAssumption == {NumLens, StrCaps} \subseteq SUBSET (Nat \ {0}) /\ StrLens \subseteq Nat

VARIABLES
  codec,       \* "server" or "p2p"
  fields,      \* history: what was stored
  body,        \* buffer, inst.body: before sending what was stored, after it what is left to load
  phase,       \* "storing" or "loading"
  typeKept,    \* whether the receiver sees the type it was sent as
  loadedFields \* history: what the receiver made of the fields
instructionVars == <<codec, fields, body, phase, typeKept, loadedFields>>

Numbers == [type : {"number"}, len : NumLens, zero : BOOLEAN]
Strings == [type : {"string"}, len : StrLens, cap : StrCaps]

Byte(i, k) == 1000 * i + k
Uninitialised == <<-1>>

\* The bytes of field i.
Characters(i, n) == [k \in 1 .. n |-> Byte(i, k)]
NumberBytes(i, f) == [k \in 1 .. f.len |-> IF f.zero THEN 0 ELSE Byte(i, k)]
UpTo(s, n) == SubSeq(s, 1, Min({n, Len(s)}))
Rest(s, n) == SubSeq(s, n + 1, Len(s))
-----------------------------------------------------------------------------
\* A k_instruction grows as it must; a p2p_instruction stops at 255 bytes without a word.
StoreBytes(b, bytes) == IF codec = "p2p" THEN UpTo(b \o bytes, 255) ELSE b \o bytes

\* store_vstring takes 250 characters at most, and ends them.
StoreString(b, i, n) ==
  StoreBytes(b, Characters(i, IF codec = "p2p" THEN Min({n, 250}) ELSE n) \o <<0>>)

StoreField(f) ==
  LET i == Len(fields) + 1 IN
  /\ phase = "storing" /\ Len(fields) < MaxFields
  /\ fields' = Append(fields, f)
  /\ body' = (IF f.type = "string" THEN StoreString(body, i, f.len) ELSE StoreBytes(body, NumberBytes(i, f)))
  /\ UNCHANGED <<codec, phase, typeKept, loadedFields>>

WireInstruction(length, arrived) ==
  /\ phase = "storing" /\ phase' = "loading"
  /\ typeKept' = (length > 0) /\ body' = arrived
  /\ UNCHANGED <<codec, fields, loadedFields>>

\* k_instruction.h: the type, the user's name and what was stored, far below the 32767 bytes that go.
SendToServer == codec = "server" /\ WireInstruction(1 + Len(body), body)

\* p2p_message::send: the type and the body, counted in one byte.
WireLength == (1 + Len(body)) % 256

\* p2p_instruction.cpp: of a message of length 0 the receiver makes type 0, flags 0: a LOGN_REQ
\* without a body.
SendToPeer == codec = "p2p" /\ WireInstruction(WireLength, IF WireLength > 0 THEN UpTo(body, WireLength - 1) ELSE <<>>)
-----------------------------------------------------------------------------
\* load_bytes: a k_instruction gives what it has, a p2p_instruction all or nothing.
LoadBytes(b, n) ==
  IF b = <<>> \/ (codec = "p2p" /\ Len(b) < n) THEN [value |-> Uninitialised, left |-> b]
  ELSE [value |-> UpTo(b, n), left |-> Rest(b, n)]

LoadStringWhatFits(b, cap) ==   \* mutant: the rest of a long string is left for the next field
  LET nuls == {k \in DOMAIN b : b[k] = 0}
      consume == Min({cap - 1, IF nuls = {} THEN Len(b) ELSE Min(nuls)})
  IN [value |-> SelectSeq(UpTo(b, consume), LAMBDA c : c # 0), left |-> Rest(b, consume)]

\* load_str and load_vstring: to the NUL, or to the end; what does not fit the reader is skipped.
LoadString(b, cap) ==
  LET nuls == {k \in DOMAIN b : b[k] = 0}
      consume == IF nuls = {} THEN Len(b) ELSE Min(nuls)
  IN [value |-> SelectSeq(UpTo(b, Min({cap - 1, consume})), LAMBDA c : c # 0), left |-> Rest(b, consume)]

LoadField ==
  LET f == fields[Len(loadedFields) + 1]
      load == IF f.type = "string" THEN LoadString(body, f.cap) ELSE LoadBytes(body, f.len)
  IN /\ phase = "loading" /\ Len(loadedFields) < Len(fields)
     /\ body' = load.left /\ loadedFields' = Append(loadedFields, load.value)
     /\ UNCHANGED <<codec, fields, phase, typeKept>>
-----------------------------------------------------------------------------
InstructionInit ==
  /\ codec \in {"server", "p2p"} /\ fields = <<>> /\ body = <<>> /\ phase = "storing"
  /\ typeKept = TRUE /\ loadedFields = <<>>

InstructionNext == (\E f \in Numbers \cup Strings : StoreField(f)) \/ SendToServer \/ SendToPeer \/ LoadField
InstructionSpec == InstructionInit /\ [][InstructionNext]_instructionVars
-----------------------------------------------------------------------------
Size(f) == IF f.type = "string" THEN 1 + (IF codec = "p2p" THEN Min({f.len, 250}) ELSE f.len) ELSE f.len
StoredSize == FoldLeft(LAMBDA n, f : n + Size(f), 0, fields)

\* Every field arrives as it was stored, a string cut to what it is read into, and the fields after a
\* string that was cut as well; unless a p2p_instruction is full.
FieldsArrive ==
  (codec = "p2p" => StoredSize < 255) =>
    \A i \in DOMAIN loadedFields :
      LET f == fields[i] IN
      loadedFields[i] = (IF f.type = "string" THEN Characters(i, Min({f.len, f.cap - 1})) ELSE NumberBytes(i, f))

\* "vstring is NUL-terminated and capped to 251 bytes": behind the 4 bytes of a chat line's frame number
\* the longest one fills the 255 bytes of a p2p_instruction, and the receiver sees a message of that type.
LongestFits == StoredSize <= 255 => typeKept
=============================================================================

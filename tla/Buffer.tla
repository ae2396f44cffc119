------------------------------- MODULE Buffer -------------------------------
(***************************************************************************)
(* What Buffer reads and writes between the framing of module Framing and  *)
(* the messages: [data, position], where data are the m_dataSize bytes     *)
(* that are in use.  How the memory behind them grows is left out.         *)
(*                                                                         *)
(* A scalar that the library only copies is the sequence of its bytes in   *)
(* memory, which is what readCopyable and writeCopyable copy.  Lengths,    *)
(* counts and codes are numbers.                                           *)
(***************************************************************************)
EXTENDS Integers, Sequences

Byte       == 0 .. 255
SIZE_BYTES == 4                              (* SIZE_SIZE of the code        *)

(* An int32 in memory, and the int32 that four bytes are.                  *)
LittleEndian(n) ==
  << n % 256, (n \div 256) % 256, ((n \div 256) \div 256) % 256,
     (((n \div 256) \div 256) \div 256) % 256 >>

Number(s) ==
  s[1] + 256 * (s[2] + 256 * (s[3] + 256 * (IF s[4] < 128 THEN s[4] ELSE s[4] - 256)))

(* A Buffer that is new or was reset.                                      *)
reset == [data |-> << 0, 0, 0, 0 >>, position |-> SIZE_BYTES]

resetPosition(b) == [b EXCEPT !.position = SIZE_BYTES]

(* What is sent: the data with the size put in front.                      *)
getBuffer(b) ==
  [i \in 1 .. Len(b.data) |->
     IF i <= SIZE_BYTES THEN LittleEndian(Len(b.data))[i] ELSE b.data[i]]

(* The position may be inside the data, when it was set by hand.           *)
write_bytes(b, s) ==
  LET end == b.position + Len(s) IN
  [data     |-> [i \in 1 .. IF end > Len(b.data) THEN end ELSE Len(b.data) |->
                   IF i \in b.position + 1 .. end THEN s[i - b.position] ELSE b.data[i]],
   position |-> end]

write_uint8(b, n)  == write_bytes(b, << n >>)
write_int32(b, n)  == write_bytes(b, LittleEndian(n))
write_string(b, s) == write_bytes(write_int32(b, Len(s)), s)
write_blob(b, s)   == write_string(b, s)
write_bool(b, item) == write_uint8(b, IF item THEN 1 ELSE 0)
-----------------------------------------------------------------------------
(* A read gives the item and the buffer it leaves behind, or it throws.    *)
(* No writer writes a negative length, and what a read does with one is    *)
(* left out.                                                               *)
Result(item, b) == [ok |-> TRUE, item |-> item, buffer |-> b]
Thrown(b)       == [ok |-> FALSE, item |-> << >>, buffer |-> b]

checkBufferSize_Read(b, n) == n >= 0 /\ b.position + n <= Len(b.data)

read_bytes(b, n) ==
  IF checkBufferSize_Read(b, n)
  THEN Result(SubSeq(b.data, b.position + 1, b.position + n), [b EXCEPT !.position = @ + n])
  ELSE Thrown(b)

read_uint8(b) ==
  LET r == read_bytes(b, 1) IN IF r.ok THEN Result(r.item[1], r.buffer) ELSE r

read_int32(b) ==
  LET r == read_bytes(b, 4) IN IF r.ok THEN Result(Number(r.item), r.buffer) ELSE r

read_string(b) ==
  LET length == read_int32(b) IN
  IF length.ok THEN read_bytes(length.buffer, length.item) ELSE length

read_blob(b) == read_string(b)

read_bool(b) ==
  LET r == read_uint8(b) IN IF r.ok THEN Result(r.item = 1, r.buffer) ELSE r
-----------------------------------------------------------------------------
(* NetworkMessageHeader.  The subscription ID is the four bytes of it, the *)
(* action its code.                                                        *)
serialize(b, header) ==
  LET id      == write_bytes(b, header.subscriptionID)
      subject == write_string(id, header.subject)
      reply   == write_string(subject, header.replySubject)
  IN  write_uint8(reply, header.action)

(* Whatever throws ends it.                                                *)
deserialize(b) ==
  LET id      == read_bytes(b, 4)
      subject == read_string(id.buffer)
      reply   == read_string(subject.buffer)
      action  == read_uint8(reply.buffer)
  IN  IF id.ok /\ subject.ok /\ reply.ok /\ action.ok
      THEN Result([subscriptionID |-> id.item, subject |-> subject.item,
                   replySubject |-> reply.item, action |-> action.item], action.buffer)
      ELSE Thrown(b)

(* Socket writes the ID of each receiver into its copy of the bytes.       *)
overrideSubscriptionID(s, id) ==
  [i \in 1 .. Len(s) |->
     IF i \in SIZE_BYTES + 1 .. SIZE_BYTES + 4 THEN id[i - SIZE_BYTES] ELSE s[i]]
=============================================================================

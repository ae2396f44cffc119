------------------------------- MODULE Framing -------------------------------
(***************************************************************************)
(* How messages become the bytes of a TCP stream and messages again: the   *)
(* coalescing of queued writes (Socket::getWriteRequests and, in the .NET  *)
(* library, ClientSocket.getSendBufferInfos) and the reader of Buffer.     *)
(* A message is its size, a subscription ID and the rest.  Bytes are       *)
(* numbers below ByteValues; the bytes of an ID all have its value.        *)
(***************************************************************************)
EXTENDS Naturals, Sequences, SequencesExt

CONSTANTS SIZE_SIZE,                      (* 4: the bytes of a size        *)
          ID_SIZE,                        (* 4: those of a subscription ID *)
          SMALL_MESSAGE_SEND_BUFFER_SIZE, (* 8192                          *)
          ByteValues                      (* 256                           *)

ASSUME FramingAssumption ==
  /\ SIZE_SIZE \in Nat \ {0}
  /\ ID_SIZE \in Nat \ {0}
  /\ ByteValues \in Nat \ {0, 1}
  /\ SMALL_MESSAGE_SEND_BUFFER_SIZE \in Nat
  /\ SMALL_MESSAGE_SEND_BUFFER_SIZE >= SIZE_SIZE + ID_SIZE

SIZE_PLUS_SUBSCRIPTION_ID == SIZE_SIZE + ID_SIZE

(* What is left of a number when its first i bytes are written.            *)
Remaining(n) ==
  LET rest[i \in 0 .. SIZE_SIZE] == IF i = 0 THEN n ELSE rest[i - 1] \div ByteValues
  IN  rest

(* The sizes of messages: there is a subscription ID, and nothing is left. *)
Sizes == {n \in Nat : n >= SIZE_PLUS_SUBSCRIPTION_ID /\ Remaining(n)[SIZE_SIZE] = 0}

(* The size is written in little-endian order and includes its own bytes.  *)
SizeBytes(n) == [i \in 1 .. SIZE_SIZE |-> Remaining(n)[i - 1] % ByteValues]
SizeOf(m)    == FoldRight(LAMBDA b, n : b + ByteValues * n, SubSeq(m, 1, SIZE_SIZE), 0)

(* The bytes of a message whose payload shows the mark.                    *)
MessageBytes(size, id, mark) ==
  SizeBytes(size) \o [i \in 1 .. size - SIZE_SIZE |-> IF i <= ID_SIZE THEN id ELSE mark]
-----------------------------------------------------------------------------
(* A queued write is [data, override]; 0 overrides nothing.  The piece of  *)
(* a buffer that begins with its size gets the overridden ID.              *)
Patched(piece, id) ==
  [i \in 1 .. Len(piece) |->
     IF id # 0 /\ i \in SIZE_SIZE + 1 .. SIZE_PLUS_SUBSCRIPTION_ID THEN id ELSE piece[i]]

(* The send requests made so far, and the one for small messages that is   *)
(* being filled.                                                           *)
NoRequests == [made |-> << >>, small |-> << >>]

Flushed(r) ==
  IF r.small = << >> THEN r
  ELSE [made |-> Append(r.made, r.small), small |-> << >>]

Room(r) == SMALL_MESSAGE_SEND_BUFFER_SIZE - Len(r.small)

(* What fits goes into the request for small messages, the remainder into  *)
(* the next one.                                                           *)
Filled(r, piece, rest) ==
  LET small == r.small \o piece \o rest
      size  == SMALL_MESSAGE_SEND_BUFFER_SIZE
  IN  IF Len(small) < size THEN [r EXCEPT !.small = small]
      ELSE [made  |-> Append(r.made, SubSeq(small, 1, size)),
            small |-> SubSeq(small, size + 1, Len(small))]

(* Variant: size and ID may be split between two requests.                 *)
AddSmall_SplitsID(r, b) ==
  LET n == Min({Len(b.data), Room(r)})
  IN  Filled(r, Patched(SubSeq(b.data, 1, n), b.override),
             SubSeq(b.data, n + 1, Len(b.data)))

(* Size and ID are never split: a request with no room for them is sent.   *)
AddSmall(r, b) ==
  LET start == IF Room(r) < SIZE_PLUS_SUBSCRIPTION_ID THEN Flushed(r) ELSE r
      n     == Min({Len(b.data), Room(start)})
  IN  Filled(start, Patched(SubSeq(b.data, 1, n), b.override),
             SubSeq(b.data, n + 1, Len(b.data)))

AddLarge(r, b) ==
  [Flushed(r) EXCEPT !.made = Append(@, Patched(b.data, b.override))]

AddBuffer(r, b) ==
  IF Len(b.data) < SIZE_PLUS_SUBSCRIPTION_ID THEN r
  ELSE IF Len(b.data) <= SMALL_MESSAGE_SEND_BUFFER_SIZE THEN AddSmall(r, b)
  ELSE AddLarge(r, b)

getWriteRequests(buffers) == Flushed(FoldLeft(AddBuffer, NoRequests, buffers)).made

(* The .NET library overrides no IDs and splits small messages anywhere.   *)
AddBuffer_NET(r, data) ==
  IF Len(data) <= SMALL_MESSAGE_SEND_BUFFER_SIZE
  THEN Filled(r, SubSeq(data, 1, Min({Len(data), Room(r)})),
              SubSeq(data, Min({Len(data), Room(r)}) + 1, Len(data)))
  ELSE [Flushed(r) EXCEPT !.made = Append(@, data)]

getSendBufferInfos(buffers) == Flushed(FoldLeft(AddBuffer_NET, NoRequests, buffers)).made
-----------------------------------------------------------------------------
(* The message being read: the bytes of it that have come.                 *)
hasAllData(m) == Len(m) >= SIZE_SIZE /\ Len(m) = SizeOf(m)

(* How many bytes of a chunk belong to the size of the message m.          *)
readNetworkMessageSize(m, chunk) ==
  IF Len(m) >= SIZE_SIZE THEN 0 ELSE Min({SIZE_SIZE - Len(m), Len(chunk)})

(* How many bytes of the chunk belong to the message m: no more than it    *)
(* lacks, which is known when its size has been read.                      *)
readNetworkMessage(m, chunk) ==
  LET n   == readNetworkMessageSize(m, chunk)
      got == m \o SubSeq(chunk, 1, n)
  IN  IF Len(got) < SIZE_SIZE THEN n
      ELSE n + Min({SizeOf(got) - Len(got), Len(chunk) - n})
=============================================================================

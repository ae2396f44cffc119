---------------------------- MODULE BufferProofs ----------------------------
(***************************************************************************)
(* What NetworkMessageHeader writes to a Buffer is what it reads from the  *)
(* bytes that are sent, whatever follows it, and an ID that was overridden *)
(* on the way changes the ID and nothing else.                             *)
(***************************************************************************)
EXTENDS Buffer, TLAPS

Bytes == Seq(Byte)

(* What an int32 can be the length of: less than 2^31 bytes.               *)
Length  == {n \in Nat : n < 2147483648}
Strings == {s \in Bytes : Len(s) \in Length}

Header ==
  [subscriptionID : {s \in Bytes : Len(s) = 4}, subject : Strings,
   replySubject : Strings, action : Byte]

(* A buffer whose position is inside its data, or at its end.              *)
IsBuffer(b) ==
  /\ b = [data |-> b.data, position |-> b.position]
  /\ b.data \in Bytes
  /\ b.position \in SIZE_BYTES .. Len(b.data)

AtEnd(b) == IsBuffer(b) /\ b.position = Len(b.data)

(* The bytes s are in data behind the position p.                          *)
Holds(data, p, s) ==
  /\ p + Len(s) <= Len(data)
  /\ \A i \in 1 .. Len(s) : data[p + i] = s[i]

StringAt(data, p, s) ==
  Holds(data, p, LittleEndian(Len(s))) /\ Holds(data, p + 4, s)

(* The buffer b with another position.                                     *)
At(b, p) == [data |-> b.data, position |-> p]

(* The data of b are where they were in c.                                 *)
Extends(c, b) ==
  /\ Len(b.data) <= Len(c.data)
  /\ \A i \in 1 .. Len(b.data) : c.data[i] = b.data[i]
-----------------------------------------------------------------------------
LEMMA ElementIsByte ==
  ASSUME NEW s \in Bytes, NEW i \in 1 .. Len(s)
  PROVE  s[i] \in Byte
BY DEF Bytes

LEMMA DivideByte ==
  ASSUME NEW n \in Nat
  PROVE  n \div 256 \in Nat /\ n % 256 \in Byte /\ n = 256 * (n \div 256) + (n % 256)
BY SMT DEF Byte

(* A length survives its way through memory.                               *)
LEMMA LengthReadsBack ==
  ASSUME NEW n \in Length
  PROVE  /\ LittleEndian(n) \in Bytes
         /\ Len(LittleEndian(n)) = 4
         /\ Number(LittleEndian(n)) = n
<1>0. n \in Nat /\ n < 2147483648
  BY SMT DEF Length
<1> DEFINE n1 == n \div 256
           n2 == n1 \div 256
           n3 == n2 \div 256
<1>1. n1 \in Nat /\ n % 256 \in Byte /\ n = 256 * n1 + (n % 256)
  BY <1>0, DivideByte
<1>2. n2 \in Nat /\ n1 % 256 \in Byte /\ n1 = 256 * n2 + (n1 % 256)
  <2> HIDE DEF n1
  <2> QED BY <1>1, DivideByte
<1>3. n3 \in Nat /\ n2 % 256 \in Byte /\ n2 = 256 * n3 + (n2 % 256)
  <2> HIDE DEF n1, n2
  <2> QED BY <1>2, DivideByte
<1>4. LittleEndian(n) = << n % 256, n1 % 256, n2 % 256, n3 % 256 >>
  BY DEF LittleEndian
<1> HIDE DEF n1, n2, n3
<1>5. n3 < 128 /\ n3 % 256 = n3
  <2>1. n1 < 8388608
    BY <1>0, <1>1, SMT DEF Byte
  <2>2. n2 < 32768
    BY <2>1, <1>1, <1>2, SMT DEF Byte
  <2>3. n3 < 128
    BY <2>2, <1>2, <1>3, SMT DEF Byte
  <2> QED BY <2>3, <1>3, SMT
<1>6. LittleEndian(n) = << n % 256, n1 % 256, n2 % 256, n3 >>
  BY <1>4, <1>5
<1>7. n3 \in Byte
  BY <1>3, <1>5, SMT DEF Byte
<1>8. LittleEndian(n) \in Bytes /\ Len(LittleEndian(n)) = 4
  BY <1>1, <1>2, <1>3, <1>6, <1>7, SMT DEF Bytes
<1>9. Number(LittleEndian(n)) = (n % 256) + 256 * ((n1 % 256) + 256 * ((n2 % 256) + 256 * n3))
  BY <1>5, <1>6, SMT DEF Number
<1>10. Number(LittleEndian(n)) = n
  BY <1>1, <1>2, <1>3, <1>9, SMT DEF Byte
<1> QED BY <1>8, <1>10

(* Bytes written at the end are there, and the rest is left alone.         *)
LEMMA WriteAppends ==
  ASSUME NEW b, AtEnd(b), NEW s \in Bytes
  PROVE  /\ AtEnd(write_bytes(b, s))
         /\ Holds(write_bytes(b, s).data, b.position, s)
         /\ Extends(write_bytes(b, s), b)
         /\ write_bytes(b, s).position = b.position + Len(s)
<1> DEFINE w == write_bytes(b, s)
           end == b.position + Len(s)
<1>1. b.position = Len(b.data) /\ b.data \in Bytes /\ b.position \in Nat /\ b.position >= 4
  BY DEF AtEnd, IsBuffer, SIZE_BYTES, Bytes
<1>2. Len(s) \in Nat /\ end \in Nat /\ end >= Len(b.data)
  BY <1>1 DEF Bytes
<1>3. (IF end > Len(b.data) THEN end ELSE Len(b.data)) = end
  BY <1>1, <1>2
<1>4. w = [data |-> [i \in 1 .. end |->
                      IF i \in b.position + 1 .. end THEN s[i - b.position] ELSE b.data[i]],
           position |-> end]
  BY <1>3 DEF write_bytes
<1>5. \A i \in 1 .. end : w.data[i] = IF i \in b.position + 1 .. end
                                      THEN s[i - b.position] ELSE b.data[i]
  BY <1>4
<1>6. w.data \in Bytes /\ Len(w.data) = end
  <2>1. ASSUME NEW i \in 1 .. end PROVE w.data[i] \in Byte
    <3>1. CASE i \in b.position + 1 .. end
      <4>1. i - b.position \in 1 .. Len(s)
        BY <1>1, <1>2, <3>1
      <4> QED BY <1>5, <3>1, <4>1, ElementIsByte
    <3>2. CASE i \notin b.position + 1 .. end
      <4>1. i \in 1 .. Len(b.data)
        BY <1>1, <1>2, <3>2
      <4> QED BY <1>1, <1>5, <3>2, <4>1, ElementIsByte
    <3> QED BY <3>1, <3>2
  <2>2. w.data \in [1 .. end -> Byte]
    BY <1>4, <2>1
  <2> QED BY <2>2, <1>2 DEF Bytes
<1>7. AtEnd(w)
  BY <1>1, <1>2, <1>4, <1>6 DEF AtEnd, IsBuffer, SIZE_BYTES
<1>8. Holds(w.data, b.position, s)
  <2>1. ASSUME NEW i \in 1 .. Len(s)
        PROVE  w.data[b.position + i] = s[i]
    <3>1. b.position + i \in 1 .. end /\ b.position + i \in b.position + 1 .. end
      BY <1>1, <1>2
    <3>2. (b.position + i) - b.position = i
      BY <1>1, <1>2
    <3> HIDE DEF w, end
    <3> QED BY <1>5, <3>1, <3>2
  <2> HIDE DEF w
  <2> QED BY <1>1, <1>2, <1>6, <2>1 DEF Holds
<1>9. Extends(w, b)
  BY <1>1, <1>2, <1>5, <1>6 DEF Extends
<1>10. w.position = end
  BY <1>4
<1> QED BY <1>7, <1>8, <1>9, <1>10

LEMMA ExtendsTransitive ==
  ASSUME NEW b, NEW c, NEW d, AtEnd(c), Extends(c, b), Extends(d, c), AtEnd(b), AtEnd(d)
  PROVE  Extends(d, b)
<1>1. Len(b.data) \in Nat /\ Len(c.data) \in Nat /\ Len(d.data) \in Nat
  BY DEF AtEnd, IsBuffer, Bytes
<1>2. Len(b.data) <= Len(d.data)
  BY <1>1 DEF Extends
<1>3. ASSUME NEW i \in 1 .. Len(b.data) PROVE d.data[i] = b.data[i]
  BY <1>1 DEF Extends
<1> QED BY <1>2, <1>3 DEF Extends

(* Writing leaves alone what was written before.                           *)
LEMMA HoldsInExtension ==
  ASSUME NEW b, NEW c, IsBuffer(b), Extends(c, b), c.data \in Bytes,
         NEW p \in Nat, NEW s \in Bytes, Holds(b.data, p, s)
  PROVE  Holds(c.data, p, s)
<1>1. Len(b.data) \in Nat /\ Len(c.data) \in Nat /\ Len(s) \in Nat
  BY DEF IsBuffer, Bytes
<1>2. p + Len(s) <= Len(c.data)
  BY <1>1 DEF Holds, Extends
<1>3. ASSUME NEW i \in 1 .. Len(s) PROVE c.data[p + i] = s[i]
  <2>1. p + i \in 1 .. Len(b.data)
    BY <1>1 DEF Holds
  <2> QED BY <2>1 DEF Holds, Extends
<1> QED BY <1>2, <1>3 DEF Holds

LEMMA ResultFields ==
  \A item, b : Result(item, b).ok /\ Result(item, b).item = item /\ Result(item, b).buffer = b
BY DEF Result

(* A read takes the bytes that are there.                                  *)
LEMMA ReadTakes ==
  ASSUME NEW b, IsBuffer(b), NEW s \in Bytes, Holds(b.data, b.position, s)
  PROVE  /\ read_bytes(b, Len(s)) = Result(s, At(b, b.position + Len(s)))
         /\ IsBuffer(At(b, b.position + Len(s)))
<1>1. /\ b.position \in Nat /\ Len(s) \in Nat /\ Len(b.data) \in Nat
      /\ b.position + Len(s) <= Len(b.data) /\ b.position >= 4
  BY DEF IsBuffer, Bytes, SIZE_BYTES, Holds
<1>2. checkBufferSize_Read(b, Len(s))
  BY <1>1 DEF checkBufferSize_Read
<1> DEFINE t == SubSeq(b.data, b.position + 1, b.position + Len(s))
<1>3. t \in Bytes /\ Len(t) = Len(s)
  BY <1>1 DEF IsBuffer, Bytes
<1>4. \A i \in 1 .. Len(s) : t[i] = b.data[b.position + i]
  BY <1>1 DEF IsBuffer, Bytes
<1> HIDE DEF t
<1>5. \A i \in 1 .. Len(s) : t[i] = s[i]
  BY <1>4 DEF Holds
<1>6. t = s
  BY <1>3, <1>5 DEF Bytes
<1>7. IsBuffer(At(b, b.position + Len(s)))
  BY <1>1 DEF IsBuffer, At, SIZE_BYTES
<1>8. [b EXCEPT !.position = b.position + Len(s)] = At(b, b.position + Len(s))
  <2> DEFINE d == b.data
             q == b.position
  <2>1. b = [data |-> d, position |-> q]
    BY DEF IsBuffer
  <2> HIDE DEF d, q
  <2>2. [b EXCEPT !.position = q + Len(s)] = [data |-> d, position |-> q + Len(s)]
    BY <2>1
  <2> QED BY <2>2 DEF At, d, q
<1> QED BY <1>2, <1>6, <1>7, <1>8 DEF read_bytes, t

LEMMA WriteStringAppends ==
  ASSUME NEW b, AtEnd(b), NEW s \in Strings
  PROVE  /\ AtEnd(write_string(b, s))
         /\ StringAt(write_string(b, s).data, b.position, s)
         /\ Extends(write_string(b, s), b)
         /\ write_string(b, s).position = b.position + 4 + Len(s)
<1> DEFINE c == write_int32(b, Len(s))
           d == write_bytes(c, s)
<1>1. s \in Bytes /\ Len(s) \in Length /\ Len(s) \in Nat /\ b.position \in Nat
  BY DEF Strings, Bytes, AtEnd, IsBuffer, SIZE_BYTES
<1>2. /\ AtEnd(c) /\ Extends(c, b) /\ c.position = b.position + 4
      /\ Holds(c.data, b.position, LittleEndian(Len(s)))
  BY <1>1, LengthReadsBack, WriteAppends DEF write_int32
<1> HIDE DEF c
<1>3. AtEnd(d) /\ Extends(d, c) /\ d.position = c.position + Len(s) /\ Holds(d.data, c.position, s)
  BY <1>1, <1>2, WriteAppends
<1>4. Holds(d.data, b.position, LittleEndian(Len(s)))
  <2> HIDE DEF d
  <2> QED BY <1>1, <1>2, <1>3, LengthReadsBack, HoldsInExtension DEF AtEnd, IsBuffer
<1>5. Extends(d, b)
  BY <1>2, <1>3, ExtendsTransitive
<1>6. write_string(b, s) = d
  BY DEF write_string, c
<1> HIDE DEF d
<1>7. d.position = b.position + 4 + Len(s)
  BY <1>1, <1>2, <1>3
<1> QED BY <1>2, <1>3, <1>4, <1>5, <1>6, <1>7 DEF StringAt

LEMMA ReadStringTakes ==
  ASSUME NEW b, IsBuffer(b), NEW s \in Strings, StringAt(b.data, b.position, s)
  PROVE  /\ read_string(b) = Result(s, At(b, b.position + 4 + Len(s)))
         /\ IsBuffer(At(b, b.position + 4 + Len(s)))
<1> DEFINE c == At(b, b.position + 4)
<1>1. s \in Bytes /\ Len(s) \in Length /\ Len(s) \in Nat /\ b.position \in Nat
  BY DEF Strings, Bytes, IsBuffer, SIZE_BYTES
<1>2. read_bytes(b, 4) = Result(LittleEndian(Len(s)), c) /\ IsBuffer(c)
  BY <1>1, LengthReadsBack, ReadTakes DEF StringAt
<1>3. c.data = b.data /\ c.position = b.position + 4
  BY DEF At
<1> HIDE DEF c
<1>4. read_int32(b) = Result(Len(s), c)
  <2> DEFINE r == read_bytes(b, 4)
  <2>1. r = Result(LittleEndian(Len(s)), c)
    BY <1>2
  <2>2. read_int32(b) = IF r.ok THEN Result(Number(r.item), r.buffer) ELSE r
    BY DEF read_int32
  <2> HIDE DEF r
  <2>3. r.ok /\ r.item = LittleEndian(Len(s)) /\ r.buffer = c
    BY <2>1, ResultFields
  <2> QED BY <1>1, <2>2, <2>3, LengthReadsBack
<1>5. read_bytes(c, Len(s)) = Result(s, At(c, c.position + Len(s))) /\ IsBuffer(At(c, c.position + Len(s)))
  BY <1>1, <1>2, <1>3, ReadTakes DEF StringAt
<1>6. At(c, c.position + Len(s)) = At(b, b.position + 4 + Len(s))
  BY <1>1, <1>3 DEF At
<1>7. read_string(b) = read_bytes(c, Len(s))
  BY <1>4, ResultFields DEF read_string
<1> QED BY <1>5, <1>6, <1>7
-----------------------------------------------------------------------------
(* The header h is in data behind the position p, and the position at its  *)
(* end.                                                                    *)
HeaderAt(data, p, h) ==
  /\ Holds(data, p, h.subscriptionID)
  /\ StringAt(data, p + 4, h.subject)
  /\ StringAt(data, p + 8 + Len(h.subject), h.replySubject)
  /\ Holds(data, p + 12 + Len(h.subject) + Len(h.replySubject), << h.action >>)

HeaderEnd(p, h) == p + 13 + Len(h.subject) + Len(h.replySubject)

LEMMA HeaderFields ==
  ASSUME NEW h \in Header
  PROVE  /\ h.subscriptionID \in Bytes /\ Len(h.subscriptionID) = 4
         /\ h.subject \in Strings /\ h.replySubject \in Strings
         /\ h.subject \in Bytes /\ h.replySubject \in Bytes
         /\ Len(h.subject) \in Nat /\ Len(h.replySubject) \in Nat
         /\ h.action \in Byte
         /\ << h.action >> \in Bytes /\ Len(<< h.action >>) = 1
BY DEF Header, Strings, Bytes

LEMMA StringInExtension ==
  ASSUME NEW b, NEW c, IsBuffer(b), Extends(c, b), c.data \in Bytes,
         NEW p \in Nat, NEW s \in Strings, StringAt(b.data, p, s)
  PROVE  StringAt(c.data, p, s)
<1>1. s \in Bytes /\ Len(s) \in Length /\ Len(s) \in Nat /\ p + 4 \in Nat
  BY DEF Strings, Bytes
<1> QED BY <1>1, LengthReadsBack, HoldsInExtension DEF StringAt

LEMMA SerializeAppends ==
  ASSUME NEW b, AtEnd(b), NEW h \in Header
  PROVE  /\ AtEnd(serialize(b, h))
         /\ HeaderAt(serialize(b, h).data, b.position, h)
         /\ serialize(b, h).position = HeaderEnd(b.position, h)
<1>0. /\ h.subscriptionID \in Bytes /\ Len(h.subscriptionID) = 4
      /\ h.subject \in Strings /\ h.replySubject \in Strings
      /\ h.action \in Byte
      /\ << h.action >> \in Bytes /\ Len(<< h.action >>) = 1
  BY HeaderFields
<1> DEFINE m == Len(h.subject)
           n == Len(h.replySubject)
<1>n. m \in Nat /\ n \in Nat
  BY HeaderFields
<1>end. \A p : HeaderEnd(p, h) = p + 13 + m + n
  BY DEF HeaderEnd
<1>at. \A data, p : HeaderAt(data, p, h) <=>
         /\ Holds(data, p, h.subscriptionID)
         /\ StringAt(data, p + 4, h.subject)
         /\ StringAt(data, p + 8 + m, h.replySubject)
         /\ Holds(data, p + 12 + m + n, << h.action >>)
  BY DEF HeaderAt
<1>w. /\ \A b1 : AtEnd(b1) => LET s1 == write_string(b1, h.subject) IN
           /\ AtEnd(s1) /\ StringAt(s1.data, b1.position, h.subject)
           /\ Extends(s1, b1) /\ s1.position = b1.position + 4 + m
      /\ \A b1 : AtEnd(b1) => LET s1 == write_string(b1, h.replySubject) IN
           /\ AtEnd(s1) /\ StringAt(s1.data, b1.position, h.replySubject)
           /\ Extends(s1, b1) /\ s1.position = b1.position + 4 + n
  BY <1>0, WriteStringAppends
<1> HIDE DEF m, n
<1> DEFINE p == b.position
           c == write_bytes(b, h.subscriptionID)
           d == write_string(c, h.subject)
           e == write_string(d, h.replySubject)
           f == write_bytes(e, << h.action >>)
<1>1. p \in Nat
  BY DEF AtEnd, IsBuffer, SIZE_BYTES
<1>2. AtEnd(c) /\ Holds(c.data, p, h.subscriptionID) /\ c.position = p + 4
  BY WriteAppends, <1>0
<1>3. serialize(b, h) = f
  BY DEF serialize, write_uint8
<1> HIDE DEF c
<1>4. AtEnd(d) /\ StringAt(d.data, p + 4, h.subject) /\ Extends(d, c)
      /\ d.position = p + 8 + m
  BY <1>1, <1>2, <1>w, <1>n
<1> HIDE DEF d
<1>5. AtEnd(e) /\ StringAt(e.data, p + 8 + m, h.replySubject) /\ Extends(e, d)
      /\ e.position = p + 12 + m + n
  BY <1>1, <1>4, <1>w, <1>n
<1> HIDE DEF e
<1>6. AtEnd(f) /\ Holds(f.data, e.position, << h.action >>) /\ Extends(f, e)
      /\ f.position = HeaderEnd(p, h)
  <2>1. /\ AtEnd(f) /\ Holds(f.data, e.position, << h.action >>) /\ Extends(f, e)
        /\ f.position = e.position + 1
    BY <1>5, WriteAppends, <1>0
  <2> HIDE DEF f
  <2>2. f.position = HeaderEnd(p, h)
    BY <1>1, <1>5, <2>1, <1>n, <1>end
  <2> QED BY <2>1, <2>2
<1> HIDE DEF f, p
<1>7. /\ IsBuffer(c) /\ IsBuffer(d) /\ IsBuffer(e)
      /\ d.data \in Bytes /\ e.data \in Bytes /\ f.data \in Bytes
  BY <1>2, <1>4, <1>5, <1>6 DEF AtEnd, IsBuffer
<1>8. Holds(f.data, p, h.subscriptionID)
  <2>1. Holds(d.data, p, h.subscriptionID)
    BY <1>1, <1>2, <1>4, <1>7, HoldsInExtension, <1>0
  <2>2. Holds(e.data, p, h.subscriptionID)
    BY <2>1, <1>1, <1>5, <1>7, HoldsInExtension, <1>0
  <2> QED BY <2>2, <1>1, <1>6, <1>7, HoldsInExtension, <1>0
<1>9. StringAt(f.data, p + 4, h.subject)
  <2>0. p + 4 \in Nat
    BY <1>1
  <2>1. StringAt(e.data, p + 4, h.subject)
    BY <2>0, <1>4, <1>5, <1>7, StringInExtension, <1>0
  <2> QED BY <2>0, <2>1, <1>6, <1>7, StringInExtension, <1>0
<1>10. StringAt(f.data, p + 8 + m, h.replySubject)
  <2>1. p + 8 + m \in Nat
    BY <1>1, <1>n
  <2> QED BY <2>1, <1>5, <1>6, <1>7, StringInExtension, <1>0
<1>11. HeaderAt(f.data, p, h)
  BY <1>5, <1>6, <1>8, <1>9, <1>10, <1>at
<1> QED BY <1>3, <1>6, <1>11 DEF p

LEMMA DeserializeTakes ==
  ASSUME NEW b, IsBuffer(b), NEW h \in Header, HeaderAt(b.data, b.position, h)
  PROVE  deserialize(b) = Result(h, At(b, HeaderEnd(b.position, h)))
<1>0. /\ h.subscriptionID \in Bytes /\ Len(h.subscriptionID) = 4
      /\ h.subject \in Strings /\ h.replySubject \in Strings
      /\ h.action \in Byte
      /\ << h.action >> \in Bytes /\ Len(<< h.action >>) = 1
  BY HeaderFields
<1> DEFINE m == Len(h.subject)
           n == Len(h.replySubject)
<1>n. m \in Nat /\ n \in Nat
  BY HeaderFields
<1>end. \A p : HeaderEnd(p, h) = p + 13 + m + n
  BY DEF HeaderEnd
<1>at. \A data, p : HeaderAt(data, p, h) <=>
         /\ Holds(data, p, h.subscriptionID)
         /\ StringAt(data, p + 4, h.subject)
         /\ StringAt(data, p + 8 + m, h.replySubject)
         /\ Holds(data, p + 12 + m + n, << h.action >>)
  BY DEF HeaderAt
<1>r. /\ \A b1 : IsBuffer(b1) /\ StringAt(b1.data, b1.position, h.subject) =>
           /\ read_string(b1) = Result(h.subject, At(b1, b1.position + 4 + m))
           /\ IsBuffer(At(b1, b1.position + 4 + m))
      /\ \A b1 : IsBuffer(b1) /\ StringAt(b1.data, b1.position, h.replySubject) =>
           /\ read_string(b1) = Result(h.replySubject, At(b1, b1.position + 4 + n))
           /\ IsBuffer(At(b1, b1.position + 4 + n))
  BY <1>0, ReadStringTakes
<1> HIDE DEF m, n
<1> DEFINE p == b.position
           c == At(b, p + 4)
           d == At(b, p + 8 + m)
           e == At(b, p + 12 + m + n)
           f == At(b, HeaderEnd(p, h))
<1>1. p \in Nat
  BY DEF IsBuffer, SIZE_BYTES
<1>2. /\ c.data = b.data /\ c.position = p + 4
      /\ d.data = b.data /\ d.position = p + 8 + m
      /\ e.data = b.data /\ e.position = p + 12 + m + n
  BY DEF At
<1>3. \A q : At(c, q) = At(b, q) /\ At(d, q) = At(b, q) /\ At(e, q) = At(b, q)
  BY DEF At
<1>4. read_bytes(b, 4) = Result(h.subscriptionID, c) /\ IsBuffer(c)
  BY ReadTakes, <1>0, <1>at
<1> HIDE DEF c
<1>5. read_string(c) = Result(h.subject, d) /\ IsBuffer(d)
  <2>1. c.position + 4 + m = p + 8 + m
    BY <1>1, <1>2, <1>n
  <2>2. StringAt(c.data, c.position, h.subject)
    BY <1>2, <1>at
  <2> QED BY <1>3, <1>4, <2>1, <2>2, <1>r
<1> HIDE DEF d
<1>6. read_string(d) = Result(h.replySubject, e) /\ IsBuffer(e)
  <2>1. d.position + 4 + n = p + 12 + m + n
    BY <1>1, <1>2, <1>n
  <2>2. StringAt(d.data, d.position, h.replySubject)
    BY <1>2, <1>at
  <2> QED BY <1>3, <1>5, <2>1, <2>2, <1>r
<1> HIDE DEF e
<1>7. read_bytes(e, 1) = Result(<< h.action >>, f)
  <2>1. e.position + 1 = HeaderEnd(p, h)
    BY <1>1, <1>2, <1>n, <1>end
  <2>2. Holds(e.data, e.position, << h.action >>)
    BY <1>2, <1>at
  <2> QED BY <1>3, <1>6, <2>1, <2>2, ReadTakes, <1>0
<1> HIDE DEF f
<1>8. read_uint8(e) = Result(h.action, f)
  <2>1. << h.action >>[1] = h.action
    OBVIOUS
  <2> QED BY <1>7, <2>1, ResultFields DEF read_uint8
<1>9. h = [subscriptionID |-> h.subscriptionID, subject |-> h.subject,
           replySubject |-> h.replySubject, action |-> h.action]
  BY DEF Header
<1>10. deserialize(b) = Result([subscriptionID |-> h.subscriptionID, subject |-> h.subject,
                                replySubject |-> h.replySubject, action |-> h.action], f)
  BY <1>4, <1>5, <1>6, <1>8, ResultFields DEF deserialize
<1> QED BY <1>9, <1>10 DEF f, p
-----------------------------------------------------------------------------
(* The bytes of a size.                                                    *)
LEMMA SizeInBytes ==
  ASSUME NEW n \in Nat
  PROVE  \A i \in 1 .. 4 : LittleEndian(n)[i] \in Byte
<1> DEFINE n1 == n \div 256
           n2 == n1 \div 256
           n3 == n2 \div 256
<1>1. n1 \in Nat /\ n % 256 \in Byte
  BY DivideByte
<1>2. n2 \in Nat /\ n1 % 256 \in Byte
  BY <1>1, DivideByte
<1>3. n3 \in Nat /\ n2 % 256 \in Byte
  BY <1>2, DivideByte
<1>4. n3 % 256 \in Byte
  BY <1>3, DivideByte
<1>5. LittleEndian(n) = << n % 256, n1 % 256, n2 % 256, n3 % 256 >>
  BY DEF LittleEndian
<1> HIDE DEF n1, n2, n3
<1>6. ASSUME NEW w, NEW x, NEW y, NEW z, NEW i \in 1 .. 4,
             w \in Byte, x \in Byte, y \in Byte, z \in Byte
      PROVE  << w, x, y, z >>[i] \in Byte
  <2>1. i = 1 \/ i = 2 \/ i = 3 \/ i = 4
    OBVIOUS
  <2> QED BY <1>6, <2>1
<1> QED BY <1>1, <1>2, <1>3, <1>4, <1>5, <1>6

(* The pieces of a header behind the ID, at the beginning of a message.    *)
Pieces(data, h) ==
  LET m == Len(h.subject)
      n == Len(h.replySubject)
  IN  /\ Holds(data, 8, LittleEndian(m)) /\ Holds(data, 12, h.subject)
      /\ Holds(data, 12 + m, LittleEndian(n)) /\ Holds(data, 16 + m, h.replySubject)
      /\ Holds(data, 16 + m + n, << h.action >>)

LEMMA HeaderPieces ==
  ASSUME NEW h \in Header, NEW data
  PROVE  HeaderAt(data, SIZE_BYTES, h) <=> Holds(data, 4, h.subscriptionID) /\ Pieces(data, h)
<1> DEFINE m == Len(h.subject)
           n == Len(h.replySubject)
<1>1. m \in Nat /\ n \in Nat
  BY HeaderFields
<1>2. HeaderAt(data, 4, h) <=>
        /\ Holds(data, 4, h.subscriptionID)
        /\ Holds(data, 4 + 4, LittleEndian(m)) /\ Holds(data, 4 + 4 + 4, h.subject)
        /\ Holds(data, 4 + 8 + m, LittleEndian(n)) /\ Holds(data, 4 + 8 + m + 4, h.replySubject)
        /\ Holds(data, 4 + 12 + m + n, << h.action >>)
  BY Zenon DEF HeaderAt, StringAt
<1>3. Pieces(data, h) <=>
        /\ Holds(data, 8, LittleEndian(m)) /\ Holds(data, 12, h.subject)
        /\ Holds(data, 12 + m, LittleEndian(n)) /\ Holds(data, 16 + m, h.replySubject)
        /\ Holds(data, 16 + m + n, << h.action >>)
  BY DEF Pieces
<1> HIDE DEF m, n
<1>4. /\ 4 + 4 = 8 /\ 4 + 4 + 4 = 12 /\ 4 + 8 + m = 12 + m
      /\ 4 + 8 + m + 4 = 16 + m /\ 4 + 12 + m + n = 16 + m + n
  BY <1>1
<1>5. SIZE_BYTES = 4
  BY DEF SIZE_BYTES
<1> QED BY <1>2, <1>3, <1>4, <1>5, Zenon

LEMMA PieceTypes ==
  ASSUME NEW h \in Header
  PROVE  /\ LittleEndian(Len(h.subject)) \in Bytes /\ LittleEndian(Len(h.replySubject)) \in Bytes
         /\ 12 + Len(h.subject) \in Nat /\ 12 + Len(h.subject) >= 8
         /\ 16 + Len(h.subject) \in Nat /\ 16 + Len(h.subject) >= 8
         /\ 16 + Len(h.subject) + Len(h.replySubject) \in Nat
         /\ 16 + Len(h.subject) + Len(h.replySubject) >= 8
<1> DEFINE m == Len(h.subject)
           n == Len(h.replySubject)
<1>1. m \in Nat /\ n \in Nat
  BY HeaderFields
<1>2. m \in Length /\ n \in Length
  BY HeaderFields DEF Strings
<1>3. LittleEndian(m) \in Bytes /\ LittleEndian(n) \in Bytes
  BY <1>2, LengthReadsBack
<1> HIDE DEF m, n
<1>4. /\ 12 + m \in Nat /\ 12 + m >= 8 /\ 16 + m \in Nat /\ 16 + m >= 8
      /\ 16 + m + n \in Nat /\ 16 + m + n >= 8
  BY <1>1
<1> QED BY <1>3, <1>4 DEF m, n

(* The pieces behind the ID, in bytes that are the same from there on.     *)
LEMMA PiecesMove ==
  ASSUME NEW h \in Header, NEW r, NEW s, Pieces(r, h),
         \A p \in Nat, t \in Bytes : p >= 8 /\ Holds(r, p, t) => Holds(s, p, t)
  PROVE  Pieces(s, h)
<1> DEFINE m == Len(h.subject)
           n == Len(h.replySubject)
<1>1. /\ h.subject \in Bytes /\ h.replySubject \in Bytes /\ << h.action >> \in Bytes
      /\ LittleEndian(m) \in Bytes /\ LittleEndian(n) \in Bytes
      /\ 12 + m \in Nat /\ 12 + m >= 8 /\ 16 + m \in Nat /\ 16 + m >= 8
      /\ 16 + m + n \in Nat /\ 16 + m + n >= 8
  BY HeaderFields, PieceTypes
<1>2. 8 \in Nat /\ 8 >= 8 /\ 12 \in Nat /\ 12 >= 8
  OBVIOUS
<1>3. /\ Holds(r, 8, LittleEndian(m)) /\ Holds(r, 12, h.subject)
      /\ Holds(r, 12 + m, LittleEndian(n)) /\ Holds(r, 16 + m, h.replySubject)
      /\ Holds(r, 16 + m + n, << h.action >>)
  BY DEF Pieces
<1>4. /\ Holds(s, 8, LittleEndian(m)) /\ Holds(s, 12, h.subject)
      /\ Holds(s, 12 + m, LittleEndian(n)) /\ Holds(s, 16 + m, h.replySubject)
      /\ Holds(s, 16 + m + n, << h.action >>)
  BY <1>1, <1>2, <1>3
<1> QED BY <1>4 DEF Pieces

(* The bytes that are sent for a header and a payload behind it.           *)
Sent(h, payload) == getBuffer(write_bytes(serialize(reset, h), payload))

Received(s) == [data |-> s, position |-> SIZE_BYTES]

(* Bytes with the same header behind their size.                           *)
LEMMA HeaderIsSent ==
  ASSUME NEW h \in Header, NEW payload \in Bytes
  PROVE  /\ IsBuffer(Received(Sent(h, payload)))
         /\ HeaderAt(Sent(h, payload), SIZE_BYTES, h)
         /\ Len(Sent(h, payload)) = HeaderEnd(SIZE_BYTES, h) + Len(payload)
<1> DEFINE b == serialize(reset, h)
           c == write_bytes(b, payload)
           s == Sent(h, payload)
<1>1. AtEnd(reset) /\ reset.position = SIZE_BYTES
  BY DEF AtEnd, IsBuffer, reset, SIZE_BYTES, Bytes, Byte
<1>2. AtEnd(b) /\ HeaderAt(b.data, SIZE_BYTES, h) /\ b.position = HeaderEnd(SIZE_BYTES, h)
  BY <1>1, SerializeAppends
<1> HIDE DEF b
<1>3. AtEnd(c) /\ Extends(c, b) /\ c.position = b.position + Len(payload)
  BY <1>2, WriteAppends
<1>4. s = getBuffer(c)
  BY DEF Sent, b
<1> HIDE DEF c, s
<1>5. /\ c.data \in Bytes /\ Len(c.data) \in Nat /\ Len(c.data) >= 4
      /\ b.data \in Bytes /\ Len(b.data) \in Nat
      /\ Len(c.data) = HeaderEnd(SIZE_BYTES, h) + Len(payload)
  BY <1>2, <1>3 DEF AtEnd, IsBuffer, SIZE_BYTES, Bytes
<1>6. \A i \in 1 .. 4 : LittleEndian(Len(c.data))[i] \in Byte
  BY <1>5, SizeInBytes
<1>7. s = [i \in 1 .. Len(c.data) |->
             IF i <= 4 THEN LittleEndian(Len(c.data))[i] ELSE c.data[i]]
  BY <1>4 DEF getBuffer, SIZE_BYTES
<1>8. s \in Bytes /\ Len(s) = Len(c.data)
  <2>1. \A i \in 1 .. Len(c.data) : s[i] \in Byte
    <3> HIDE DEF Byte
    <3>1. \A i \in 1 .. Len(c.data) : c.data[i] \in Byte
      BY <1>5 DEF Bytes
    <3> QED BY <1>5, <1>6, <1>7, <3>1
  <2>2. s \in [1 .. Len(c.data) -> Byte]
    BY <1>7, <2>1
  <2> QED BY <2>2, <1>5 DEF Bytes
<1>9. \A i \in 1 .. Len(c.data) : i > 4 => s[i] = c.data[i]
  BY <1>7, <1>5
<1>10. IsBuffer(Received(s))
  BY <1>5, <1>8 DEF IsBuffer, Received, SIZE_BYTES
<1>11. \A p \in Nat, t \in Bytes : p >= 4 /\ Holds(b.data, p, t) => Holds(s, p, t)
  <2> SUFFICES ASSUME NEW p \in Nat, NEW t \in Bytes, p >= 4, Holds(b.data, p, t)
               PROVE  Holds(s, p, t)
    OBVIOUS
  <2>1. Holds(c.data, p, t)
    BY <1>2, <1>3, <1>5, HoldsInExtension DEF AtEnd
  <2>2. Len(t) \in Nat /\ p + Len(t) <= Len(c.data)
    BY <2>1 DEF Holds, Bytes
  <2>3. ASSUME NEW i \in 1 .. Len(t) PROVE s[p + i] = t[i]
    <3>1. p + i \in 1 .. Len(c.data) /\ p + i > 4
      BY <2>2, <1>5
    <3>2. c.data[p + i] = t[i]
      BY <2>1 DEF Holds
    <3> QED BY <3>1, <3>2, <1>9
  <2> QED BY <1>8, <2>2, <2>3 DEF Holds
<1>12. HeaderAt(s, SIZE_BYTES, h)
  <2>1. Pieces(b.data, h) /\ Holds(b.data, 4, h.subscriptionID)
    BY <1>2, HeaderPieces
  <2>2. Holds(s, 4, h.subscriptionID)
    <3>1. h.subscriptionID \in Bytes
      BY HeaderFields
    <3>2. 4 \in Nat /\ 4 >= 4
      OBVIOUS
    <3> QED BY <2>1, <3>1, <3>2, <1>11
  <2>3. \A p \in Nat, t \in Bytes : p >= 8 /\ Holds(b.data, p, t) => Holds(s, p, t)
    BY <1>11
  <2>4. Pieces(s, h)
    BY <2>1, <2>3, PiecesMove
  <2> QED BY <2>2, <2>4, HeaderPieces
<1> QED BY <1>5, <1>8, <1>10, <1>12 DEF s

(***************************************************************************)
(* What a gateway or a client reads as the header of a message is what the *)
(* sender wrote, for all subjects and whatever the message contains, and   *)
(* the reader is then at the first byte of the message itself              *)
(* (NetworkMessageHeader::serialize and deserialize).                      *)
(***************************************************************************)
THEOREM HeaderReadsBack ==
  \A h \in Header, payload \in Bytes :
    deserialize(Received(Sent(h, payload)))
      = Result(h, At(Received(Sent(h, payload)), HeaderEnd(SIZE_BYTES, h)))
<1> SUFFICES ASSUME NEW h \in Header, NEW payload \in Bytes
             PROVE  deserialize(Received(Sent(h, payload)))
                      = Result(h, At(Received(Sent(h, payload)), HeaderEnd(SIZE_BYTES, h)))
  OBVIOUS
<1> DEFINE b == Received(Sent(h, payload))
<1>1. b.data = Sent(h, payload) /\ b.position = SIZE_BYTES
  BY DEF Received
<1>2. IsBuffer(b) /\ HeaderAt(b.data, b.position, h)
  BY <1>1, HeaderIsSent
<1> HIDE DEF b
<1>3. deserialize(b) = Result(h, At(b, HeaderEnd(SIZE_BYTES, h)))
  BY <1>1, <1>2, DeserializeTakes
<1> QED BY <1>3 DEF b

(***************************************************************************)
(* One buffer is sent to all subscribers, with the ID of each written into *)
(* its copy (Socket::getWriteRequests).  Each of them reads the message    *)
(* with the ID that is meant for it, and nothing else has changed.         *)
(***************************************************************************)
THEOREM OverrideChangesOnlyID ==
  \A h \in Header, payload \in Bytes, id \in {s \in Bytes : Len(s) = 4} :
    LET b == Received(overrideSubscriptionID(Sent(h, payload), id)) IN
    /\ deserialize(b) = Result([h EXCEPT !.subscriptionID = id], At(b, HeaderEnd(SIZE_BYTES, h)))
    /\ \A i \in 1 .. Len(Sent(h, payload)) :
         i \notin 5 .. 8 => b.data[i] = Sent(h, payload)[i]
<1> SUFFICES ASSUME NEW h \in Header, NEW payload \in Bytes,
                    NEW id \in {s \in Bytes : Len(s) = 4}
             PROVE  LET b == Received(overrideSubscriptionID(Sent(h, payload), id)) IN
                    /\ deserialize(b) = Result([h EXCEPT !.subscriptionID = id],
                                               At(b, HeaderEnd(SIZE_BYTES, h)))
                    /\ \A i \in 1 .. Len(Sent(h, payload)) :
                         i \notin 5 .. 8 => b.data[i] = Sent(h, payload)[i]
  OBVIOUS
<1> DEFINE s == Sent(h, payload)
           t == overrideSubscriptionID(s, id)
           b == Received(t)
           k == [h EXCEPT !.subscriptionID = id]
<1>0. id \in Bytes /\ Len(id) = 4
  OBVIOUS
<1> HIDE DEF t, k
<1>1. /\ s \in Bytes /\ Len(s) \in Nat
      /\ HeaderAt(s, SIZE_BYTES, h) /\ Holds(s, 4, h.subscriptionID)
  <2>1. IsBuffer(Received(s)) /\ HeaderAt(s, SIZE_BYTES, h)
    BY HeaderIsSent
  <2> HIDE DEF s
  <2>2. s \in Bytes
    BY <2>1 DEF IsBuffer, Received
  <2>3. Holds(s, 4, h.subscriptionID)
    BY <2>1 DEF HeaderAt, SIZE_BYTES
  <2> QED BY <2>1, <2>2, <2>3 DEF Bytes
<1> HIDE DEF s
<1>2. 8 <= Len(s)
  <2>1. Len(h.subscriptionID) = 4
    BY HeaderFields
  <2> QED BY <1>1, <2>1 DEF Holds
<1> USE DEF t
<1>3. t = [i \in 1 .. Len(s) |-> IF i \in 5 .. 8 THEN id[i - 4] ELSE s[i]]
  BY DEF overrideSubscriptionID, SIZE_BYTES
<1>4. \A i \in 1 .. 4 : id[i] \in Byte
  BY <1>0, ElementIsByte
<1>5. t \in Bytes /\ Len(t) = Len(s)
  <2>1. \A i \in 1 .. Len(s) : t[i] \in Byte
    <3>1. \A i \in 1 .. Len(s) : s[i] \in Byte
      BY <1>1 DEF Bytes
    <3>2. \A i \in 5 .. 8 : i - 4 \in 1 .. 4
      OBVIOUS
    <3> QED BY <1>3, <1>4, <3>1, <3>2
  <2>2. t \in [1 .. Len(s) -> Byte]
    BY <1>3, <2>1
  <2> QED BY <2>2, <1>1 DEF Bytes
<1>6. \A i \in 1 .. Len(s) : i \notin 5 .. 8 => t[i] = s[i]
  BY <1>3
<1>7. \A i \in 1 .. 4 : t[4 + i] = id[i]
  <2> SUFFICES ASSUME NEW i \in 1 .. 4 PROVE t[4 + i] = id[i]
    OBVIOUS
  <2>1. 4 + i \in 5 .. 8 /\ 4 + i \in 1 .. Len(s) /\ (4 + i) - 4 = i
    BY <1>1, <1>2
  <2> QED BY <1>3, <2>1
<1> HIDE DEF t
<1>8. IsBuffer(b) /\ b.data = t /\ b.position = SIZE_BYTES
  BY <1>1, <1>2, <1>5 DEF IsBuffer, Received, SIZE_BYTES
<1> USE DEF k
<1>9. k \in Header /\ k.subscriptionID = id /\ k.subject = h.subject
      /\ k.replySubject = h.replySubject /\ k.action = h.action
  BY DEF Header
<1> HIDE DEF k
<1>10. \A p \in Nat, u \in Bytes : p >= 8 /\ Holds(s, p, u) => Holds(t, p, u)
  <2> SUFFICES ASSUME NEW p \in Nat, NEW u \in Bytes, p >= 8, Holds(s, p, u)
               PROVE  Holds(t, p, u)
    OBVIOUS
  <2>1. Len(u) \in Nat /\ p + Len(u) <= Len(s)
    BY DEF Holds, Bytes
  <2>2. ASSUME NEW i \in 1 .. Len(u) PROVE t[p + i] = u[i]
    <3>1. p + i \in 1 .. Len(s) /\ p + i \notin 5 .. 8
      BY <2>1, <1>1
    <3>2. s[p + i] = u[i]
      BY DEF Holds
    <3> QED BY <3>1, <3>2, <1>6
  <2> QED BY <1>5, <2>1, <2>2 DEF Holds
<1>11. Holds(t, 4, id)
  BY <1>0, <1>2, <1>5, <1>7, <1>1 DEF Holds
<1>12. HeaderAt(t, SIZE_BYTES, k)
  <2>1. Pieces(s, h)
    BY <1>1, HeaderPieces
  <2>2. Pieces(s, k)
    BY <1>1, <1>9, <2>1 DEF Pieces
  <2>3. Pieces(t, k)
    BY <1>9, <1>10, <2>2, PiecesMove
  <2> QED BY <1>9, <1>11, <2>3, HeaderPieces
<1>13. deserialize(b) = Result(k, At(b, HeaderEnd(SIZE_BYTES, k)))
  BY <1>8, <1>9, <1>12, DeserializeTakes
<1>14. HeaderEnd(SIZE_BYTES, k) = HeaderEnd(SIZE_BYTES, h)
  BY <1>9 DEF HeaderEnd
<1> QED BY <1>6, <1>8, <1>13, <1>14 DEF b, k, s, t
=============================================================================

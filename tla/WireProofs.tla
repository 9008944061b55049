----------------------------- MODULE WireProofs -----------------------------
(***************************************************************************)
(* Wire implements Messages, for any senders and frames, and however few   *)
(* bytes the sockets hold or hand over at a time.                          *)
(***************************************************************************)
EXTENDS Wire, TLAPS

CONSTANTS Types, Ids, Bytes   \* what frames are made of

WireFrame ==
    [type : Types \cup {Garbage.type}, id : Ids \cup {Garbage.id}, payload : Seq(Bytes)]
WireByte ==
    [type : Types \cup {Garbage.type}, id : Ids \cup {Garbage.id}]
    \cup [length : Nat] \cup [byte : Bytes]

Step == WireNext \/ \E t \in Threads, f \in WireFrame : Begin(t, f)
WireSpec == WireInit /\ [][Step]_wire

Size(f) == HeaderSize + Len(f.payload)

-----------------------------------------------------------------------------
(* Frames and their bytes.                                                  *)

\* What a broken stream of bytes reads as is a frame too.
LEMMA GarbageIsFrame == Garbage \in WireFrame
BY DEF Garbage, WireFrame

\* The bytes of a frame: a header, and the payload.
LEMMA SizeIs == \A f \in WireFrame : Size(f) \in Nat /\ Size(f) >= HeaderSize /\ HeaderSize = 2
BY DEF Size, HeaderSize, WireFrame

\* One sequence of bytes behind another.
LEMMA Concatenated ==
    ASSUME NEW a \in Seq(WireByte), NEW b \in Seq(WireByte), NEW c, c = a \o b
    PROVE  /\ c \in Seq(WireByte) /\ Len(c) = Len(a) + Len(b)
           /\ Len(a) \in Nat /\ Len(b) \in Nat
           /\ \A i \in 1..Len(a) : c[i] = a[i]
           /\ \A i \in 1..Len(b) : c[Len(a) + i] = b[i]
OBVIOUS

HeaderOf(f) == <<[type |-> f.type, id |-> f.id], [length |-> Len(f.payload)]>>
PayloadOf(f) == [i \in DOMAIN f.payload |-> [byte |-> f.payload[i]]]

\* The header of the bytes of a frame, and its payload behind it.
LEMMA Encoded ==
    ASSUME NEW f \in WireFrame
    PROVE  /\ Encode(f) \in Seq(WireByte) /\ Len(Encode(f)) = Size(f)
           /\ Encode(f)[1] = [type |-> f.type, id |-> f.id]
           /\ Encode(f)[2] = [length |-> Len(f.payload)]
           /\ \A i \in 1..Len(f.payload) : Encode(f)[HeaderSize + i] = [byte |-> f.payload[i]]
<1>1. f.payload \in Seq(Bytes) /\ Len(f.payload) \in Nat
      /\ f.type \in Types \cup {Garbage.type} /\ f.id \in Ids \cup {Garbage.id}
  BY DEF WireFrame
<1>2. [type |-> f.type, id |-> f.id] \in WireByte
  BY <1>1 DEF WireByte
<1>3. [length |-> Len(f.payload)] \in WireByte
  BY <1>1 DEF WireByte
<1>4. \A i \in 1..Len(f.payload) : [byte |-> f.payload[i]] \in WireByte
  BY <1>1 DEF WireByte
<1>5. HeaderOf(f) \in Seq(WireByte) /\ Len(HeaderOf(f)) = 2
      /\ HeaderOf(f)[1] = [type |-> f.type, id |-> f.id]
      /\ HeaderOf(f)[2] = [length |-> Len(f.payload)]
  BY <1>2, <1>3 DEF HeaderOf
<1>6. PayloadOf(f) \in Seq(WireByte) /\ Len(PayloadOf(f)) = Len(f.payload)
      /\ \A i \in 1..Len(f.payload) : PayloadOf(f)[i] = [byte |-> f.payload[i]]
  <2>1. DOMAIN f.payload = 1..Len(f.payload)
    BY <1>1
  <2>2. PayloadOf(f) \in [1..Len(f.payload) -> WireByte]
    BY <2>1, <1>4 DEF PayloadOf
  <2>3. \A i \in 1..Len(f.payload) : PayloadOf(f)[i] = [byte |-> f.payload[i]]
    BY <2>1 DEF PayloadOf
  <2>4. PayloadOf(f) \in Seq(WireByte) /\ Len(PayloadOf(f)) = Len(f.payload)
    <3>1. \A n \in Nat : \A g \in [1..n -> WireByte] : g \in Seq(WireByte) /\ Len(g) = n
      OBVIOUS
    <3> QED BY <3>1, <2>2, <1>1
  <2> QED BY <2>3, <2>4
<1>7. Encode(f) = HeaderOf(f) \o PayloadOf(f)
  BY DEF Encode, HeaderOf, PayloadOf
<1>8. /\ Encode(f) \in Seq(WireByte) /\ Len(Encode(f)) = Len(HeaderOf(f)) + Len(PayloadOf(f))
      /\ \A i \in 1..Len(HeaderOf(f)) : Encode(f)[i] = HeaderOf(f)[i]
      /\ \A i \in 1..Len(PayloadOf(f)) : Encode(f)[Len(HeaderOf(f)) + i] = PayloadOf(f)[i]
  <2>1. HeaderOf(f) \in Seq(WireByte) /\ PayloadOf(f) \in Seq(WireByte)
    BY <1>5, <1>6
  <2> QED BY <2>1, <1>7, Concatenated
<1>9. 1 \in 1..Len(HeaderOf(f)) /\ 2 \in 1..Len(HeaderOf(f))
  BY <1>5
<1> QED BY <1>1, <1>5, <1>6, <1>8, <1>9 DEF Size, HeaderSize

\* The beginning of the bytes of a frame.
Begins(bytes, f) ==
    bytes \in Seq(WireByte) /\ Len(bytes) <= Size(f)
    /\ \A i \in 1..Len(bytes) : bytes[i] = Encode(f)[i]

\* Once the header is there, it is recognised and read right.
LEMMA HeaderSeen ==
    ASSUME NEW f \in WireFrame, NEW bytes, Begins(bytes, f), Len(bytes) >= HeaderSize
    PROVE  IsHeader(bytes) /\ bytes[2].length = Len(f.payload)
           /\ bytes[1].type = f.type /\ bytes[1].id = f.id
<1>1. bytes[1] = [type |-> f.type, id |-> f.id] /\ bytes[2] = [length |-> Len(f.payload)]
  BY Encoded, SizeIs DEF Begins, HeaderSize
<1>2. "type" \in DOMAIN [type |-> f.type, id |-> f.id]
  OBVIOUS
<1>3. "length" \in DOMAIN [length |-> Len(f.payload)]
  OBVIOUS
<1> QED BY <1>1, <1>2, <1>3 DEF IsHeader

\* The reader waits for the header, then for the rest of the frame.
LEMMA WantedIs ==
    ASSUME NEW f \in WireFrame, NEW bytes, Begins(bytes, f)
    PROVE  Wanted(bytes) = IF Len(bytes) >= HeaderSize THEN Size(f) ELSE HeaderSize
BY HeaderSeen DEF Wanted, Size, HeaderSize

\* What it makes of a whole frame is the frame.
LEMMA DecodeIs ==
    ASSUME NEW f \in WireFrame, NEW bytes, Begins(bytes, f), Len(bytes) = Size(f)
    PROVE  Decode(bytes) = f
<1>1. IsHeader(bytes) /\ bytes[1].type = f.type /\ bytes[1].id = f.id
  BY HeaderSeen, SizeIs
<1>2. f.payload \in Seq(Bytes) /\ Len(f.payload) \in Nat
      /\ f = [type |-> f.type, id |-> f.id, payload |-> f.payload]
  BY DEF WireFrame
<1>3. \A i \in 1..Len(f.payload) : bytes[HeaderSize + i] = [byte |-> f.payload[i]]
  <2>1. TAKE i \in 1..Len(f.payload)
  <2>2. HeaderSize + i \in 1..Len(bytes)
    BY <1>2 DEF Size, HeaderSize
  <2> QED BY <2>2, Encoded DEF Begins
<1>4. \A i \in HeaderSize + 1..Len(bytes) : "byte" \in DOMAIN bytes[i]
  <2>1. TAKE i \in HeaderSize + 1..Len(bytes)
  <2>2. i - HeaderSize \in 1..Len(f.payload) /\ HeaderSize + (i - HeaderSize) = i
    BY <1>2 DEF Size, HeaderSize
  <2>3. bytes[i] = [byte |-> f.payload[i - HeaderSize]]
    BY <2>2, <1>3
  <2>4. "byte" \in DOMAIN [byte |-> f.payload[i - HeaderSize]]
    OBVIOUS
  <2> QED BY <2>3, <2>4
<1>5. [i \in 1..Len(bytes) - HeaderSize |-> bytes[i + HeaderSize].byte] = f.payload
  <2>1. Len(bytes) - HeaderSize = Len(f.payload)
    BY <1>2 DEF Size, HeaderSize
  <2>2. \A i \in 1..Len(f.payload) : bytes[i + HeaderSize].byte = f.payload[i]
    <3>1. \A x : [byte |-> x].byte = x
      OBVIOUS
    <3>2. \A i \in 1..Len(f.payload) : i + HeaderSize = HeaderSize + i
      BY <1>2 DEF HeaderSize
    <3> QED BY <1>3, <3>1, <3>2
  <2>3. f.payload = [i \in 1..Len(f.payload) |-> f.payload[i]]
    BY <1>2
  <2> QED BY <2>1, <2>2, <2>3
<1> QED BY <1>1, <1>2, <1>4, <1>5 DEF Decode

-----------------------------------------------------------------------------
(* Where the bytes are.  All that is ever written is one line of bytes, B;  *)
(* the frames P lie on it one behind the other, the k-th from behind off[k  *)
(* - 1] up to off[k].  The last of them, behind those of sent, is the one a *)
(* thread is writing, or any.                                               *)

Typed ==
    /\ todo \in [Threads -> Seq(WireByte)] /\ frame \in [Threads -> WireFrame]
    /\ pipe \in Seq(WireByte) /\ got \in Seq(WireByte)
    /\ sent \in Seq(WireFrame) /\ received \in Seq(WireFrame)

\* Only one thread is writing.
Alone == \A t, u \in Threads : todo[t] # <<>> /\ todo[u] # <<>> => t = u

Shape(P, off, B) == P \in [Nat -> WireFrame] /\ off \in [Nat -> Nat] /\ B \in [Nat -> WireByte]

Laid(P, off, B, m) ==
    /\ \A k \in 1..m : off[k] = off[k - 1] + Size(P[k])
    /\ \A j, k \in 0..m : j <= k => off[j] <= off[k]
    /\ \A k \in 1..m : \A i \in 1..Size(P[k]) : B[off[k - 1] + i] = Encode(P[k])[i]

\* Where the pipe begins, and where it ends.
At(off) == off[Len(received)] + Len(got)
End(off) == At(off) + Len(pipe)

Arrived(P, off, B) ==
    /\ Len(received) <= Len(sent)
    /\ \A k \in 1..Len(sent) : sent[k] = P[k]
    /\ \A i \in 1..Len(got) : got[i] = B[off[Len(received)] + i]
    /\ Len(got) < Size(P[Len(received) + 1])

UnderWay(off, B) ==
    /\ \A i \in 1..Len(pipe) : pipe[i] = B[At(off) + i]
    /\ End(off) < off[Len(sent) + 1]

\* What a thread has still to write goes on where the pipe ends.
ToWrite(P, off, B) ==
    link =>
        /\ (\A t \in Threads : todo[t] = <<>>) => End(off) = off[Len(sent)]
        /\ \A t \in Threads : todo[t] # <<>> =>
              /\ frame[t] = P[Len(sent) + 1]
              /\ End(off) + Len(todo[t]) = off[Len(sent) + 1]
              /\ \A i \in 1..Len(todo[t]) : todo[t][i] = B[End(off) + i]

Placed(P, off, B) ==
    /\ Shape(P, off, B) /\ Laid(P, off, B, Len(sent) + 1)
    /\ Arrived(P, off, B) /\ UnderWay(off, B) /\ ToWrite(P, off, B)

WireInv == Typed /\ Alone /\ \E P, off, B : Placed(P, off, B)

-----------------------------------------------------------------------------

\* Parts of a sequence of bytes.
LEMMA Parts ==
    ASSUME NEW a \in Seq(WireByte), NEW n \in 0..Len(a), NEW b, NEW c,
           b = SubSeq(a, 1, n), c = SubSeq(a, n + 1, Len(a))
    PROVE  /\ b \in Seq(WireByte) /\ Len(b) = n /\ \A i \in 1..n : b[i] = a[i]
           /\ c \in Seq(WireByte) /\ Len(c) = Len(a) - n
           /\ \A i \in 1..Len(a) - n : c[i] = a[n + i]
OBVIOUS

FramesWith(P, m, f) == [P EXCEPT ![m + 1] = f]
OffsetsWith(off, m, f) == [off EXCEPT ![m + 1] = off[m] + Size(f)]
BytesWith(off, B, m, f) ==
    [x \in Nat |-> IF x - off[m] \in 1..Size(f) THEN Encode(f)[x - off[m]] ELSE B[x]]

\* The line with the frame f behind the first m.
Longer(P, off, B, P2, off2, B2, m, f) ==
    /\ Shape(P2, off2, B2) /\ Laid(P2, off2, B2, m + 1)
    /\ P2[m + 1] = f /\ off2[m + 1] = off[m] + Size(f)
    /\ \A k \in Nat : k # m + 1 => P2[k] = P[k] /\ off2[k] = off[k]
    /\ \A x \in Nat : x <= off[m] => B2[x] = B[x]
    /\ \A i \in 1..Size(f) : B2[off[m] + i] = Encode(f)[i]

\* Any frame can be laid behind the first m; what lies before it stays.
LEMMA LayOne ==
    ASSUME NEW P, NEW off, NEW B, NEW m \in Nat, NEW f \in WireFrame,
           Shape(P, off, B), Laid(P, off, B, m)
    PROVE  \E P2, off2, B2 : Longer(P, off, B, P2, off2, B2, m, f)
<1> DEFINE P2 == FramesWith(P, m, f)
           off2 == OffsetsWith(off, m, f)
           B2 == BytesWith(off, B, m, f)
<1>1. /\ Size(f) \in Nat /\ Size(f) >= 2 /\ off[m] \in Nat
      /\ \A i \in 1..Size(f) : Encode(f)[i] \in WireByte
  <2>1. Size(f) \in Nat /\ Size(f) >= 2
    BY SizeIs
  <2>2. off[m] \in Nat
    BY DEF Shape
  <2>3. Encode(f) \in Seq(WireByte) /\ Len(Encode(f)) = Size(f)
    BY Encoded
  <2> QED BY <2>1, <2>2, <2>3
<1>2. P2 \in [Nat -> WireFrame] /\ P2[m + 1] = f /\ \A k \in Nat : k # m + 1 => P2[k] = P[k]
  BY DEF Shape, FramesWith
<1>3. /\ off2 \in [Nat -> Nat] /\ off2[m + 1] = off[m] + Size(f)
      /\ \A k \in Nat : k # m + 1 => off2[k] = off[k]
  BY <1>1 DEF Shape, OffsetsWith
<1>4. B2 \in [Nat -> WireByte]
  <2>1. \A x \in Nat : (IF x - off[m] \in 1..Size(f) THEN Encode(f)[x - off[m]] ELSE B[x]) \in WireByte
    BY <1>1 DEF Shape
  <2> QED BY <2>1 DEF BytesWith
<1>5. \A x \in Nat : x <= off[m] => B2[x] = B[x]
  BY <1>1 DEF BytesWith
<1>6. \A i \in 1..Size(f) : B2[off[m] + i] = Encode(f)[i]
  <2>1. TAKE i \in 1..Size(f)
  <2>2. off[m] + i \in Nat /\ (off[m] + i) - off[m] = i
    BY <1>1
  <2> QED BY <2>2 DEF BytesWith
<1>7. Laid(P2, off2, B2, m + 1)
  <2>1. ASSUME NEW k \in 1..m + 1
        PROVE  /\ off2[k] = off2[k - 1] + Size(P2[k])
               /\ \A i \in 1..Size(P2[k]) : B2[off2[k - 1] + i] = Encode(P2[k])[i]
    <3>1. CASE k = m + 1
      <4>1. off2[k - 1] = off[m] /\ P2[k] = f
        BY <1>2, <1>3, <3>1
      <4> QED BY <4>1, <3>1, <1>3, <1>6
    <3>2. CASE k \in 1..m
      <4>1. off2[k - 1] = off[k - 1] /\ off2[k] = off[k] /\ P2[k] = P[k] /\ P[k] \in WireFrame
            /\ off[k - 1] \in Nat /\ off[k] \in Nat
        BY <1>2, <1>3, <3>2 DEF Shape
      <4>2. off[k] = off[k - 1] + Size(P[k]) /\ off[k] <= off[m] /\ Size(P[k]) \in Nat
        BY <3>2, <4>1, SizeIs DEF Laid
      <4>3. ASSUME NEW i \in 1..Size(P[k])
            PROVE  B2[off[k - 1] + i] = Encode(P[k])[i]
        <5>1. off[k - 1] + i \in Nat /\ off[k - 1] + i <= off[m]
          BY <4>1, <4>2, <1>1
        <5>2. B[off[k - 1] + i] = Encode(P[k])[i]
          BY <3>2 DEF Laid
        <5> QED BY <5>1, <5>2, <1>5
      <4> QED BY <4>1, <4>2, <4>3
    <3> QED BY <3>1, <3>2
  <2>2. ASSUME NEW j \in 0..m + 1, NEW k \in 0..m + 1, j <= k
        PROVE  off2[j] <= off2[k]
    <3>1. CASE j = m + 1
      <4>1. k = m + 1
        BY <3>1, <2>2
      <4> QED BY <4>1, <3>1, <1>1, <1>3
    <3>2. CASE j \in 0..m /\ k = m + 1
      <4>1. off2[j] = off[j] /\ off[j] \in Nat /\ off[j] <= off[m]
        BY <3>2, <1>3 DEF Shape, Laid
      <4> QED BY <4>1, <3>2, <1>1, <1>3
    <3>3. CASE j \in 0..m /\ k \in 0..m
      <4>1. off2[j] = off[j] /\ off2[k] = off[k]
        BY <3>3, <1>3
      <4> QED BY <4>1, <3>3, <2>2 DEF Laid
    <3> QED BY <3>1, <3>2, <3>3
  <2> QED BY <2>1, <2>2 DEF Laid
<1> HIDE DEF P2, off2, B2
<1>8. Longer(P, off, B, P2, off2, B2, m, f)
  BY <1>2, <1>3, <1>4, <1>5, <1>6, <1>7 DEF Shape, Longer
<1> QED BY <1>8

\* What holds of m + 1 frames holds of m.
LEMMA LaidLess ==
    ASSUME NEW P, NEW off, NEW B, NEW m \in Nat, Shape(P, off, B), Laid(P, off, B, m + 1)
    PROVE  Laid(P, off, B, m)
<1>1. \A k \in 1..m : k \in 1..m + 1
  OBVIOUS
<1>2. \A k \in 0..m : k \in 0..m + 1
  OBVIOUS
<1> QED BY <1>1, <1>2 DEF Laid

\* The numbers the steps reckon with.
LEMMA Numbers ==
    ASSUME Typed, NEW P, NEW off, NEW B, Placed(P, off, B)
    PROVE  /\ Len(sent) \in Nat /\ Len(received) \in Nat /\ Len(pipe) \in Nat /\ Len(got) \in Nat
           /\ At(off) \in Nat /\ End(off) = At(off) + Len(pipe) /\ End(off) \in Nat
           /\ At(off) = off[Len(received)] + Len(got)
           /\ \A k \in Nat : off[k] \in Nat
           /\ \A k \in Nat : P[k] \in WireFrame /\ Size(P[k]) \in Nat /\ Size(P[k]) >= 2
           /\ \A t \in Threads : Len(todo[t]) \in Nat /\ todo[t] \in Seq(WireByte)
<1>1. Len(sent) \in Nat /\ Len(received) \in Nat /\ Len(pipe) \in Nat /\ Len(got) \in Nat
  BY DEF Typed
<1>2. P \in [Nat -> WireFrame] /\ off \in [Nat -> Nat]
  BY DEF Placed, Shape
<1>3. \A k \in Nat : P[k] \in WireFrame /\ Size(P[k]) \in Nat /\ Size(P[k]) >= 2
  BY <1>2, SizeIs
<1>4. \A t \in Threads : Len(todo[t]) \in Nat /\ todo[t] \in Seq(WireByte)
  BY DEF Typed
<1>5. off[Len(received)] \in Nat
  BY <1>1, <1>2
<1>6. At(off) \in Nat /\ End(off) = At(off) + Len(pipe) /\ End(off) \in Nat
  BY <1>1, <1>5 DEF At, End
<1>7. \A k \in Nat : off[k] \in Nat
  BY <1>2
<1>8. At(off) = off[Len(received)] + Len(got)
  BY DEF At
<1> QED BY <1>1, <1>3, <1>4, <1>6, <1>7, <1>8

\* No byte was written yet.
LEMMA InitPlaced == WireInit => WireInv
<1> SUFFICES ASSUME WireInit PROVE WireInv
  OBVIOUS
<1>1. Typed /\ Alone
  BY GarbageIsFrame DEF WireInit, Typed, Alone
<1>2. PICK P0 \in [Nat -> WireFrame] : TRUE
  <2>1. [k \in Nat |-> Garbage] \in [Nat -> WireFrame]
    BY GarbageIsFrame
  <2> QED BY <2>1
<1>3. PICK off0 \in [Nat -> Nat] : off0[0] = 0
  <2>1. [k \in Nat |-> 0] \in [Nat -> Nat] /\ [k \in Nat |-> 0][0] = 0
    OBVIOUS
  <2> QED BY <2>1
<1>4. PICK B0 \in [Nat -> WireByte] : TRUE
  <2>1. [length |-> 0] \in WireByte
    BY DEF WireByte
  <2>2. [k \in Nat |-> [length |-> 0]] \in [Nat -> WireByte]
    BY <2>1
  <2> QED BY <2>2
<1>5. Shape(P0, off0, B0) /\ Laid(P0, off0, B0, 0)
  BY <1>2, <1>3, <1>4 DEF Shape, Laid
<1>6. PICK P, off, B : Longer(P0, off0, B0, P, off, B, 0, Garbage)
  BY <1>5, GarbageIsFrame, LayOne
<1>7. sent = <<>> /\ received = <<>> /\ pipe = <<>> /\ got = <<>> /\ Len(<<>>) = 0
      /\ \A t \in Threads : todo[t] = <<>>
  BY DEF WireInit
<1>8. Size(Garbage) = 2
  BY DEF Size, Garbage, HeaderSize
<1>9. At(off) = 0 /\ End(off) = 0 /\ off[1] = 2 /\ P[1] = Garbage
  BY <1>3, <1>6, <1>7, <1>8 DEF At, End, Longer
<1>10. Arrived(P, off, B)
  BY <1>7, <1>8, <1>9 DEF Arrived
<1>11. UnderWay(off, B)
  BY <1>7, <1>9 DEF UnderWay
<1>12. ToWrite(P, off, B)
  BY <1>3, <1>6, <1>7, <1>9 DEF ToWrite, Longer
<1>13. Shape(P, off, B) /\ Laid(P, off, B, Len(sent) + 1)
  BY <1>6, <1>7 DEF Longer
<1> QED BY <1>1, <1>10, <1>11, <1>12, <1>13 DEF WireInv, Placed

-----------------------------------------------------------------------------
(* The steps.                                                               *)

\* A send that gives up writes no more bytes, and no other does after it.
LEMMA WriteFailsKeeps == ASSUME WireInv, NEW t \in Threads, WriteFails(t) PROVE WireInv'
<1>1. PICK P, off, B : Placed(P, off, B)
  BY DEF WireInv
<1>2. Typed' /\ Alone'
  BY DEF WireInv, Typed, Alone, WriteFails, reading
<1>3. ~link' /\ UNCHANGED <<pipe, got, sent, received>>
  BY DEF WriteFails, reading
<1>4. Placed(P, off, B)'
  BY <1>1, <1>3 DEF Placed, Laid, Arrived, UnderWay, ToWrite, At, End
<1> QED BY <1>2, <1>4 DEF WireInv

\* The end of the connection leaves what was read alone.
LEMMA ReadFailsKeeps == ASSUME WireInv, ReadFails PROVE WireInv'
<1>1. PICK P, off, B : Placed(P, off, B)
  BY DEF WireInv
<1>2. UNCHANGED <<todo, frame, link, pipe, got, sent, received>>
  BY DEF ReadFails, sending
<1>3. Typed' /\ Alone'
  BY <1>2 DEF WireInv, Typed, Alone
<1>4. Placed(P, off, B)'
  BY <1>1, <1>2 DEF Placed, Laid, Arrived, UnderWay, ToWrite, At, End
<1> QED BY <1>3, <1>4 DEF WireInv

\* Bytes that are lost are the last ones of the pipe.
LEMMA BreakKeeps == ASSUME WireInv, Break PROVE WireInv'
<1>1. PICK P, off, B : Placed(P, off, B)
  BY DEF WireInv
<1>2. PICK n \in 0..Len(pipe) : pipe' = SubSeq(pipe, 1, n)
  BY DEF Break
<1>3. ~link' /\ UNCHANGED <<todo, frame, got, sent, received>>
  BY DEF Break, sending, reading
<1>4. pipe' \in Seq(WireByte) /\ Len(pipe') = n /\ \A i \in 1..n : pipe'[i] = pipe[i]
  <2>1. pipe \in Seq(WireByte)
    BY DEF WireInv, Typed
  <2> QED BY <1>2, <2>1, Parts
<1>5. Typed' /\ Alone'
  BY <1>3, <1>4 DEF WireInv, Typed, Alone
<1>6. Laid(P, off, B, Len(sent) + 1)' /\ Arrived(P, off, B)' /\ ToWrite(P, off, B)'
  BY <1>1, <1>3 DEF Placed, Laid, Arrived, ToWrite
<1>7. UnderWay(off, B)'
  <2>1. Len(pipe) \in Nat /\ At(off) \in Nat /\ End(off) = At(off) + Len(pipe)
    BY <1>1, Numbers DEF WireInv
  <2>2. At(off)' = At(off) /\ End(off)' = At(off) + n
    BY <1>3, <1>4 DEF At, End
  <2>3. End(off)' < off[Len(sent) + 1]
    <3>1. Len(sent) + 1 \in Nat
      BY DEF WireInv, Typed
    <3>2. off[Len(sent) + 1] \in Nat /\ End(off) < off[Len(sent) + 1]
      BY <1>1, <3>1 DEF Placed, Shape, UnderWay
    <3> QED BY <2>1, <2>2, <3>2
  <2>4. \A i \in 1..n : pipe'[i] = B[At(off) + i]
    BY <1>1, <1>4, <2>1 DEF Placed, UnderWay
  <2> QED BY <1>3, <1>4, <2>2, <2>3, <2>4 DEF UnderWay
<1> QED BY <1>1, <1>5, <1>6, <1>7 DEF WireInv, Placed, Shape

\* The lock: the frame is laid where the pipe ends, behind the last one.
LEMMA BeginKeeps == ASSUME WireInv, NEW t \in Threads, NEW f \in WireFrame, Begin(t, f) PROVE WireInv'
<1>1. PICK P0, off0, B0 : Placed(P0, off0, B0)
  BY DEF WireInv
<1>2. /\ \A u \in Threads : todo[u] = <<>>
      /\ UNCHANGED <<link, pipe, got, sent, received>>
      /\ frame' = [frame EXCEPT ![t] = f]
      /\ todo' = [todo EXCEPT ![t] = IF usable THEN Encode(f) ELSE <<>>]
  BY DEF Begin, reading
<1>3. Encode(f) \in Seq(WireByte) /\ Len(Encode(f)) = Size(f) /\ Size(f) \in Nat /\ Size(f) >= 2
  BY Encoded, SizeIs
<1>4. todo' \in [Threads -> Seq(WireByte)] /\ frame' \in [Threads -> WireFrame]
  BY <1>2, <1>3 DEF WireInv, Typed
<1>5. frame'[t] = f /\ todo'[t] \in {Encode(f), <<>>} /\ \A u \in Threads : u # t => todo'[u] = <<>>
  BY <1>2 DEF WireInv, Typed
<1>6. Typed' /\ Alone'
  BY <1>2, <1>4, <1>5 DEF WireInv, Typed, Alone
<1>7. CASE ~link \/ todo'[t] = <<>>
  <2>1. ToWrite(P0, off0, B0)'
    BY <1>1, <1>2, <1>5, <1>7 DEF Placed, ToWrite, At, End
  <2>2. Placed(P0, off0, B0)'
    BY <1>1, <1>2, <2>1 DEF Placed, Laid, Arrived, UnderWay, At, End
  <2> QED BY <1>6, <2>2 DEF WireInv
<1>8. CASE link /\ todo'[t] = Encode(f)
  <2> DEFINE m == Len(sent)
             r == Len(received)
  <2>1. /\ m \in Nat /\ r \in Nat /\ r <= m /\ Len(got) \in Nat /\ Len(pipe) \in Nat
        /\ off0[m] \in Nat /\ off0[r] \in Nat /\ At(off0) \in Nat
        /\ At(off0) = off0[r] + Len(got) /\ End(off0) = At(off0) + Len(pipe)
    BY <1>1, Numbers DEF WireInv, Placed, Arrived
  <2>2. End(off0) = off0[m]
    BY <1>1, <1>2, <1>8 DEF Placed, ToWrite
  <2>3. Shape(P0, off0, B0) /\ Laid(P0, off0, B0, m)
    <3>1. Shape(P0, off0, B0) /\ Laid(P0, off0, B0, m + 1)
      BY <1>1 DEF Placed
    <3>2. Laid(P0, off0, B0, m)
      BY <3>1, <2>1, LaidLess
    <3> QED BY <3>1, <3>2
  <2>4. PICK P, off, B : Longer(P0, off0, B0, P, off, B, m, f)
    BY <2>1, <2>3, LayOne
  <2>5. Laid(P, off, B, Len(sent) + 1)' /\ Shape(P, off, B)
    BY <1>2, <2>4 DEF Longer
  <2>6. P[m + 1] = f /\ off[m + 1] = off0[m] + Size(f) /\ off[m] = off0[m] /\ off[r] = off0[r]
    BY <2>1, <2>4 DEF Longer
  <2>7. At(off)' = At(off0) /\ End(off)' = off0[m]
    BY <1>2, <2>1, <2>2, <2>6 DEF At, End
  <2>8. Arrived(P, off, B)'
    <3>1. \A k \in 1..m : sent[k] = P[k]
      <4>1. \A k \in 1..m : k \in Nat /\ k # m + 1
        BY <2>1
      <4> QED BY <1>1, <2>4, <4>1 DEF Placed, Arrived, Longer
    <3>2. \A i \in 1..Len(got) : got[i] = B[off[r] + i]
      <4>1. \A i \in 1..Len(got) : off0[r] + i \in Nat /\ off0[r] + i <= off0[m]
        BY <2>1, <2>2
      <4>2. \A i \in 1..Len(got) : B[off0[r] + i] = B0[off0[r] + i]
        BY <2>4, <4>1 DEF Longer
      <4> QED BY <1>1, <2>6, <4>2 DEF Placed, Arrived
    <3>3. Len(got) < Size(P[r + 1])
      <4>1. CASE r = m
        BY <4>1, <2>1, <2>2, <2>6, <1>3
      <4>2. CASE r < m
        <5>1. P[r + 1] = P0[r + 1]
          BY <4>2, <2>1, <2>4 DEF Longer
        <5> QED BY <5>1, <1>1 DEF Placed, Arrived
      <4> QED BY <4>1, <4>2, <2>1
    <3> QED BY <1>2, <2>1, <3>1, <3>2, <3>3 DEF Arrived
  <2>9. UnderWay(off, B)'
    <3>1. \A i \in 1..Len(pipe) : At(off0) + i \in Nat /\ At(off0) + i <= off0[m]
      BY <2>1, <2>2
    <3>2. \A i \in 1..Len(pipe) : pipe[i] = B[At(off0) + i]
      BY <1>1, <2>4, <3>1 DEF Placed, UnderWay, Longer
    <3>3. off0[m] < off[m + 1]
      BY <2>1, <2>6, <1>3
    <3> QED BY <1>2, <2>7, <3>2, <3>3 DEF UnderWay
  <2>10. ToWrite(P, off, B)'
    <3>1. todo'[t] # <<>>
      BY <1>8, <1>3
    <3>2. \A u \in Threads : todo'[u] # <<>> => u = t
      BY <1>5
    <3>3. \A i \in 1..Len(todo'[t]) : todo'[t][i] = B[off0[m] + i]
      BY <1>3, <1>8, <2>4 DEF Longer
    <3>4. off0[m] + Len(todo'[t]) = off[m + 1]
      BY <1>3, <1>8, <2>6
    <3> QED BY <1>2, <1>5, <2>6, <2>7, <3>1, <3>2, <3>3, <3>4 DEF ToWrite
  <2>11. Placed(P, off, B)'
    BY <2>5, <2>8, <2>9, <2>10 DEF Placed
  <2> QED BY <1>6, <2>11 DEF WireInv
<1> QED BY <1>5, <1>7, <1>8

\* The bytes of a part of a frame, or of the rest of it, go behind the pipe.
LEMMA WriteKeeps == ASSUME WireInv, NEW t \in Threads, Write(t) PROVE WireInv'
<1>1. PICK P0, off0, B0 : Placed(P0, off0, B0)
  BY DEF WireInv
<1>2. PICK n \in 1..Len(todo[t]) :
          /\ pipe' = pipe \o SubSeq(todo[t], 1, n)
          /\ todo' = [todo EXCEPT ![t] = SubSeq(@, n + 1, Len(@))]
          /\ IF n = Len(todo[t]) THEN sent' = Append(sent, frame[t]) ELSE sent' = sent
  BY DEF Write
<1>3. link /\ UNCHANGED <<frame, link, got, received>>
  BY DEF Write, reading
<1> DEFINE m == Len(sent)
           r == Len(received)
<1>4. /\ m \in Nat /\ r \in Nat /\ r <= m /\ Len(got) \in Nat /\ Len(pipe) \in Nat
      /\ At(off0) \in Nat /\ End(off0) = At(off0) + Len(pipe)
      /\ At(off0) = off0[r] + Len(got)
      /\ Len(todo[t]) \in Nat /\ todo[t] \in Seq(WireByte) /\ pipe \in Seq(WireByte)
  <2>1. r <= m
    BY <1>1 DEF Placed, Arrived
  <2>2. pipe \in Seq(WireByte) /\ Typed
    BY DEF WireInv, Typed
  <2> QED BY <1>1, <2>1, <2>2, Numbers
<1>5. off0[r] \in Nat /\ off0[m] \in Nat /\ off0[m + 1] \in Nat
  BY <1>1, <1>4 DEF Placed, Shape
<1>6. todo[t] # <<>> /\ n \in 0..Len(todo[t]) /\ n >= 1
  BY <1>2, <1>4
<1>7. /\ frame[t] = P0[m + 1]
      /\ End(off0) + Len(todo[t]) = off0[m + 1]
      /\ \A i \in 1..Len(todo[t]) : todo[t][i] = B0[End(off0) + i]
  BY <1>1, <1>3, <1>6 DEF Placed, ToWrite
<1>8. PICK a, b : /\ a = SubSeq(todo[t], 1, n) /\ b = SubSeq(todo[t], n + 1, Len(todo[t]))
  OBVIOUS
<1>9. /\ a \in Seq(WireByte) /\ Len(a) = n /\ \A i \in 1..n : a[i] = todo[t][i]
      /\ b \in Seq(WireByte) /\ Len(b) = Len(todo[t]) - n
      /\ \A i \in 1..Len(todo[t]) - n : b[i] = todo[t][n + i]
  BY <1>4, <1>6, <1>8, Parts
<1>10. /\ pipe' \in Seq(WireByte) /\ Len(pipe') = Len(pipe) + n
       /\ \A i \in 1..Len(pipe) : pipe'[i] = pipe[i]
       /\ \A i \in 1..n : pipe'[Len(pipe) + i] = a[i]
  BY <1>2, <1>4, <1>8, <1>9, Concatenated
<1>11. todo' \in [Threads -> Seq(WireByte)] /\ todo'[t] = b
       /\ \A u \in Threads : u # t => todo'[u] = <<>>
  <2>1. todo \in [Threads -> Seq(WireByte)] /\ \A u \in Threads : u # t => todo[u] = <<>>
    BY <1>6 DEF WireInv, Typed, Alone
  <2> QED BY <1>2, <1>8, <1>9, <2>1
<1>12. sent' \in Seq(WireFrame)
  <2>1. sent \in Seq(WireFrame) /\ frame[t] \in WireFrame
    BY DEF WireInv, Typed
  <2>2. Append(sent, frame[t]) \in Seq(WireFrame)
    BY <2>1
  <2>3. sent' \in {Append(sent, frame[t]), sent}
    BY <1>2
  <2> QED BY <2>1, <2>2, <2>3
<1>13. Typed' /\ Alone'
  BY <1>3, <1>10, <1>11, <1>12 DEF WireInv, Typed, Alone
<1>14. \A i \in 1..Len(pipe') : pipe'[i] = B0[At(off0) + i]
  <2>1. TAKE i \in 1..Len(pipe')
  <2>2. CASE i \in 1..Len(pipe)
    BY <1>1, <1>10, <2>2 DEF Placed, UnderWay
  <2>3. CASE i - Len(pipe) \in 1..n
    <3> DEFINE j == i - Len(pipe)
    <3>1. j \in 1..n /\ i = Len(pipe) + j
      BY <2>3, <1>4
    <3>2. j \in 1..Len(todo[t]) /\ End(off0) + j = At(off0) + i
      BY <2>3, <1>4, <1>6
    <3> HIDE DEF j
    <3>3. pipe'[i] = a[j] /\ a[j] = todo[t][j]
      BY <3>1, <1>9, <1>10
    <3> QED BY <3>2, <3>3, <1>7
  <2> QED BY <2>2, <2>3, <1>4, <1>6, <1>10
<1>15. At(off0)' = At(off0) /\ End(off0)' = End(off0) + n
  BY <1>3, <1>4, <1>6, <1>10 DEF At, End
<1>16. CASE n < Len(todo[t])
  <2>1. UNCHANGED sent
    BY <1>2, <1>16
  <2>2. Laid(P0, off0, B0, Len(sent) + 1)' /\ Arrived(P0, off0, B0)'
    BY <1>1, <1>3, <2>1 DEF Placed, Arrived
  <2>3. UnderWay(off0, B0)'
    <3>1. End(off0) + n < off0[m + 1]
      BY <1>4, <1>6, <1>7, <1>16
    <3> QED BY <1>14, <1>15, <2>1, <3>1 DEF UnderWay
  <2>4. ToWrite(P0, off0, B0)'
    <3>1. b # <<>> /\ (End(off0) + n) + Len(b) = off0[m + 1]
      <4>1. Len(b) > 0 /\ (End(off0) + n) + Len(b) = off0[m + 1]
        <5>1. Len(b) = Len(todo[t]) - n
          BY <1>9
        <5>2. End(off0) + Len(todo[t]) = off0[m + 1]
          BY <1>7
        <5>3. End(off0) \in Nat /\ Len(todo[t]) \in Nat /\ n \in Nat
          BY <1>4, <1>6
        <5> QED BY <5>1, <5>2, <5>3, <1>16
      <4> QED BY <4>1
    <3>2. \A i \in 1..Len(b) : b[i] = B0[(End(off0) + n) + i]
      <4>1. TAKE i \in 1..Len(b)
      <4>2. n + i \in 1..Len(todo[t]) /\ End(off0) + (n + i) = (End(off0) + n) + i
        BY <1>4, <1>6, <1>9
      <4> QED BY <4>2, <1>7, <1>9
    <3> QED BY <1>3, <1>7, <1>11, <1>15, <2>1, <3>1, <3>2 DEF ToWrite
  <2>5. Placed(P0, off0, B0)'
    BY <1>1, <2>2, <2>3, <2>4 DEF Placed, Shape
  <2> QED BY <1>13, <2>5 DEF WireInv
<1>17. CASE n = Len(todo[t])
  <2>1. sent' = Append(sent, P0[m + 1]) /\ Len(sent') = m + 1 /\ sent'[m + 1] = P0[m + 1]
        /\ \A k \in 1..m : sent'[k] = sent[k]
    <3>1. sent \in Seq(WireFrame) /\ P0[m + 1] \in WireFrame
      BY <1>1, <1>4 DEF WireInv, Typed, Placed, Shape
    <3> QED BY <3>1, <1>2, <1>7, <1>17
  <2>2. PICK P, off, B : Longer(P0, off0, B0, P, off, B, m + 1, Garbage)
    <3>1. m + 1 \in Nat /\ Shape(P0, off0, B0) /\ Laid(P0, off0, B0, m + 1)
      BY <1>1, <1>4 DEF Placed
    <3> QED BY <3>1, GarbageIsFrame, LayOne
  <2>3. Shape(P, off, B) /\ Laid(P, off, B, Len(sent) + 1)'
    BY <2>1, <2>2 DEF Longer
  <2>4. Size(Garbage) = 2
    BY DEF Size, Garbage, HeaderSize
  <2>5. /\ P[m + 1] = P0[m + 1] /\ off[m + 1] = off0[m + 1] /\ off[r] = off0[r]
        /\ P[r + 1] = P0[r + 1] /\ off[(m + 1) + 1] = off0[m + 1] + 2
    BY <1>4, <2>2, <2>4 DEF Longer
  <2>6. At(off)' = At(off0) /\ End(off)' = off0[m + 1]
    BY <1>3, <1>4, <1>6, <1>7, <1>10, <1>17, <2>5 DEF At, End
  <2>7. off0[r] + Len(got) <= off0[m + 1] /\ At(off0) + (Len(pipe) + n) = off0[m + 1]
    <3>1. At(off0) = off0[r] + Len(got) /\ End(off0) = At(off0) + Len(pipe)
          /\ End(off0) + Len(todo[t]) = off0[m + 1]
      BY <1>4, <1>7
    <3>2. off0[r] \in Nat /\ Len(got) \in Nat /\ Len(pipe) \in Nat /\ n \in Nat
          /\ At(off0) \in Nat /\ End(off0) \in Nat
      BY <1>4, <1>5, <1>6
    <3>3. End(off0) + n = off0[m + 1]
      BY <3>1, <1>17
    <3>4. At(off0) + (Len(pipe) + n) = off0[m + 1]
      BY <3>1, <3>2, <3>3
    <3>5. off0[r] + Len(got) <= off0[m + 1]
      BY <3>1, <3>2, <3>4
    <3> QED BY <3>4, <3>5
  <2>8. Arrived(P, off, B)'
    <3>1. \A k \in 1..m + 1 : sent'[k] = P[k]
      <4>1. \A k \in 1..m : k \in Nat /\ k # (m + 1) + 1
        BY <1>4
      <4>2. \A k \in 1..m : sent'[k] = P[k]
        BY <1>1, <2>1, <2>2, <4>1 DEF Placed, Arrived, Longer
      <4>3. \A k \in 1..m + 1 : k \in 1..m \/ k = m + 1
        BY <1>4
      <4> QED BY <2>1, <2>5, <4>2, <4>3
    <3>2. \A i \in 1..Len(got) : got[i] = B[off[r] + i]
      <4>1. \A i \in 1..Len(got) : off0[r] + i \in Nat /\ off0[r] + i <= off0[m + 1]
        <5>1. off0[r] + Len(got) <= off0[m + 1]
          BY <2>7
        <5>2. off0[r] \in Nat /\ Len(got) \in Nat /\ off0[m + 1] \in Nat
          BY <1>4, <1>5
        <5> QED BY <5>1, <5>2
      <4>2. \A i \in 1..Len(got) : B[off0[r] + i] = B0[off0[r] + i]
        BY <2>2, <4>1 DEF Longer
      <4> QED BY <1>1, <2>5, <4>2 DEF Placed, Arrived
    <3>3. Len(got) < Size(P[r + 1])
      BY <1>1, <2>5 DEF Placed, Arrived
    <3>4. r <= m + 1
      BY <1>4
    <3> QED BY <1>3, <2>1, <3>1, <3>2, <3>3, <3>4 DEF Arrived
  <2>9. UnderWay(off, B)'
    <3>1. \A i \in 1..Len(pipe') : At(off0) + i \in Nat /\ At(off0) + i <= off0[m + 1]
      <4>1. TAKE i \in 1..Len(pipe')
      <4>2. i \in Nat /\ i <= Len(pipe) + n
        BY <1>4, <1>6, <1>10
      <4>3. At(off0) \in Nat /\ Len(pipe) \in Nat /\ n \in Nat
        BY <1>4, <1>6
      <4> QED BY <4>2, <4>3, <2>7
    <3>2. \A i \in 1..Len(pipe') : pipe'[i] = B[At(off0) + i]
      BY <1>14, <2>2, <3>1 DEF Longer
    <3>3. off0[m + 1] < off[(m + 1) + 1]
      BY <1>5, <2>5
    <3> QED BY <2>1, <2>6, <3>2, <3>3 DEF UnderWay
  <2>10. ToWrite(P, off, B)'
    <3>1. \A u \in Threads : todo'[u] = <<>>
      BY <1>9, <1>11, <1>17, <1>4
    <3> QED BY <2>1, <2>5, <2>6, <3>1 DEF ToWrite
  <2>11. Placed(P, off, B)'
    BY <2>3, <2>8, <2>9, <2>10 DEF Placed
  <2> QED BY <1>13, <2>11 DEF WireInv
<1> QED BY <1>4, <1>6, <1>16, <1>17

\* What a read of n bytes finds: the next of the frame behind those received, at
\* most all of them, and then the frame that was sent.
Finds(P, off, B, n, now) ==
    /\ now \in Seq(WireByte) /\ Len(now) = Len(got) + n
    /\ \A i \in 1..Len(now) : now[i] = B[off[Len(received)] + i]
    /\ Len(now) <= Size(P[Len(received) + 1])
    /\ Len(now) >= HeaderSize /\ Len(now) = Wanted(now) <=> Len(now) = Size(P[Len(received) + 1])
    /\ Len(now) = Size(P[Len(received) + 1]) =>
          /\ Len(received) < Len(sent) /\ Decode(now) = sent[Len(received) + 1]
          /\ off[Len(received) + 1] = At(off) + n

\* recv_exact never reads past the frame, and decodes only what is whole.
LEMMA Found ==
    ASSUME Typed, NEW P, NEW off, NEW B, Placed(P, off, B),
           NEW n \in 1..Len(pipe), n <= Wanted(got) - Len(got),
           NEW now, now = got \o SubSeq(pipe, 1, n)
    PROVE  Finds(P, off, B, n, now)
<1> DEFINE r == Len(received)
           f == P[r + 1]
           m == Len(sent)
<1>1. /\ m \in Nat /\ r \in Nat /\ Len(got) \in Nat /\ Len(pipe) \in Nat
      /\ At(off) = off[r] + Len(got) /\ End(off) = At(off) + Len(pipe)
      /\ off[r] \in Nat /\ f \in WireFrame /\ Size(f) \in Nat /\ Size(f) >= 2
      /\ off[r + 1] \in Nat
  <2>1. Len(sent) \in Nat /\ Len(received) \in Nat
    BY Numbers
  <2>2. r + 1 \in Nat /\ r \in Nat
    BY <2>1
  <2> QED BY <2>1, <2>2, Numbers
<1>2. r <= m /\ Len(got) < Size(f) /\ \A i \in 1..Len(got) : got[i] = B[off[r] + i]
  BY DEF Placed, Arrived
<1>3. off[r + 1] = off[r] + Size(f) /\ \A i \in 1..Size(f) : B[off[r] + i] = Encode(f)[i]
  <2>1. r + 1 \in 1..m + 1 /\ (r + 1) - 1 = r
    BY <1>1, <1>2
  <2>2. Laid(P, off, B, m + 1)
    BY DEF Placed
  <2> QED BY <2>1, <2>2 DEF Laid
<1>4. got \in Seq(WireByte) /\ pipe \in Seq(WireByte) /\ n \in 0..Len(pipe) /\ n >= 1
  BY <1>1 DEF Typed
<1>5. PICK a : a = SubSeq(pipe, 1, n)
  OBVIOUS
<1>6. a \in Seq(WireByte) /\ Len(a) = n /\ \A i \in 1..n : a[i] = pipe[i]
  <2>1. PICK c : c = SubSeq(pipe, n + 1, Len(pipe))
    OBVIOUS
  <2> QED BY <1>4, <1>5, <2>1, Parts
<1>7. /\ now \in Seq(WireByte) /\ Len(now) = Len(got) + n
      /\ \A i \in 1..Len(got) : now[i] = got[i]
      /\ \A i \in 1..n : now[Len(got) + i] = a[i]
  BY <1>4, <1>5, <1>6, Concatenated
<1>8. \A i \in 1..Len(now) : now[i] = B[off[r] + i]
  <2>1. TAKE i \in 1..Len(now)
  <2>2. CASE i \in 1..Len(got)
    BY <2>2, <1>2, <1>7
  <2>3. CASE i - Len(got) \in 1..n
    <3> DEFINE j == i - Len(got)
    <3>1. j \in 1..n /\ i = Len(got) + j
      BY <2>3, <1>1
    <3>2. j \in 1..Len(pipe) /\ At(off) + j = off[r] + i
      BY <2>3, <1>1, <1>4
    <3> HIDE DEF j
    <3>3. now[i] = pipe[j]
      BY <3>1, <1>6, <1>7
    <3>4. pipe[j] = B[At(off) + j]
      BY <3>2 DEF Placed, UnderWay
    <3> QED BY <3>2, <3>3, <3>4
  <2> QED BY <2>2, <2>3, <1>1, <1>4, <1>7
<1>9. Begins(got, f)
  <2>1. \A i \in 1..Len(got) : i \in 1..Size(f)
    BY <1>1, <1>2
  <2>2. Len(got) <= Size(f)
    BY <1>1, <1>2
  <2> QED BY <2>1, <2>2, <1>2, <1>3, <1>4 DEF Begins
<1>10. Len(now) <= Size(f)
  <2>1. Wanted(got) \in {Size(f), 2} /\ Wanted(got) <= Size(f) /\ Wanted(got) \in Nat
    BY <1>1, <1>9, WantedIs, SizeIs
  <2>2. Len(got) + n <= Wanted(got)
    BY <2>1, <1>1, <1>4
  <2> QED BY <2>1, <2>2, <1>1, <1>4, <1>7
<1>11. Begins(now, f)
  <2>1. \A i \in 1..Len(now) : i \in 1..Size(f)
    BY <1>1, <1>10
  <2> QED BY <2>1, <1>3, <1>7, <1>8, <1>10 DEF Begins
<1>12. Len(now) >= HeaderSize /\ Len(now) = Wanted(now) <=> Len(now) = Size(f)
  BY <1>1, <1>11, WantedIs, SizeIs
<1>13. ASSUME Len(now) = Size(f)
       PROVE  r < m /\ Decode(now) = sent[r + 1] /\ off[r + 1] = At(off) + n
  <2>1. off[r + 1] = At(off) + n
    BY <1>1, <1>3, <1>4, <1>7, <1>13
  <2>2. r # m
    <3>1. At(off) + n <= End(off) /\ End(off) < off[m + 1]
      BY <1>1, <1>4 DEF Placed, UnderWay
    <3>2. off[m + 1] # At(off) + n
      <4>1. off[m + 1] \in Nat
        BY <1>1 DEF Placed, Shape
      <4> QED BY <4>1, <3>1, <1>1, <1>4
    <3> QED BY <2>1, <3>2
  <2>3. r < m /\ r + 1 \in 1..m
    BY <2>2, <1>1, <1>2
  <2>4. sent[r + 1] = f
    BY <2>3 DEF Placed, Arrived
  <2>5. Decode(now) = f
    BY <1>1, <1>11, <1>13, DecodeIs
  <2> QED BY <2>1, <2>3, <2>4, <2>5
<1> QED BY <1>7, <1>8, <1>10, <1>12, <1>13 DEF Finds

\* The step of the reader that takes n bytes and then has these.
WhatIsRead(n, now) ==
    /\ now = got \o SubSeq(pipe, 1, n)
    /\ n <= Wanted(got) - Len(got)
    /\ pipe' = SubSeq(pipe, n + 1, Len(pipe))
    /\ IF Len(now) >= HeaderSize /\ Len(now) = Wanted(now)
       THEN got' = <<>> /\ received' = Append(received, Decode(now))
       ELSE got' = now /\ UNCHANGED received

\* A read leaves the reader with the beginning of a frame, or with the frame.
LEMMA ReadKeeps == ASSUME WireInv, Read PROVE WireInv' /\ (UNCHANGED received \/ Channel!Receive)
<1>1. PICK P, off, B : Placed(P, off, B)
  BY DEF WireInv
<1>2a. PICK n \in 1..Len(pipe) : \E now : WhatIsRead(n, now)
  BY DEF Read, WhatIsRead
<1>2. PICK now : WhatIsRead(n, now)
  BY <1>2a
<1>3. UNCHANGED <<todo, frame, link, sent>>
  BY DEF Read, sending
<1> DEFINE m == Len(sent)
           r == Len(received)
<1>4. /\ now \in Seq(WireByte) /\ Len(now) = Len(got) + n
      /\ \A i \in 1..Len(now) : now[i] = B[off[r] + i]
      /\ Len(now) <= Size(P[r + 1])
      /\ Len(now) >= HeaderSize /\ Len(now) = Wanted(now) <=> Len(now) = Size(P[r + 1])
      /\ Len(now) = Size(P[r + 1]) =>
            r < m /\ Decode(now) = sent[r + 1] /\ off[r + 1] = At(off) + n
  <2>1. Typed
    BY DEF WireInv
  <2>2. now = got \o SubSeq(pipe, 1, n) /\ n <= Wanted(got) - Len(got)
    BY <1>2 DEF WhatIsRead
  <2>3. Finds(P, off, B, n, now)
    BY <2>1, <2>2, <1>1, Found
  <2> QED BY <2>3 DEF Finds
<1>5. /\ m \in Nat /\ r \in Nat /\ Len(got) \in Nat /\ Len(pipe) \in Nat
      /\ At(off) = off[r] + Len(got) /\ End(off) = At(off) + Len(pipe) /\ At(off) \in Nat
      /\ off[r] \in Nat /\ n \in 1..Len(pipe)
  BY <1>1, Numbers DEF WireInv
<1>6. pipe' \in Seq(WireByte) /\ Len(pipe') = Len(pipe) - n
      /\ \A i \in 1..Len(pipe) - n : pipe'[i] = pipe[n + i]
  <2>1. pipe \in Seq(WireByte) /\ n \in 0..Len(pipe)
    BY <1>5 DEF WireInv, Typed
  <2>2. PICK a : a = SubSeq(pipe, 1, n)
    OBVIOUS
  <2> QED BY <2>1, <2>2, <1>2, Parts DEF WhatIsRead
<1>7. ASSUME At(off)' = At(off) + n, Arrived(P, off, B)', got' \in Seq(WireByte), received' \in Seq(WireFrame)
      PROVE  WireInv'
  <2>1. End(off)' = End(off)
    <3>1. End(off)' = (At(off) + n) + (Len(pipe) - n)
      BY <1>6, <1>7 DEF End
    <3> QED BY <3>1, <1>5
  <2>2. UnderWay(off, B)'
    <3>1. \A i \in 1..Len(pipe') : pipe'[i] = B[(At(off) + n) + i]
      <4>1. TAKE i \in 1..Len(pipe')
      <4>2. n + i \in 1..Len(pipe) /\ At(off) + (n + i) = (At(off) + n) + i /\ i \in 1..Len(pipe) - n
        <5>1. i \in 1..Len(pipe) - n
          BY <1>6
        <5> QED BY <5>1, <1>5
      <4> QED BY <4>2, <1>1, <1>6 DEF Placed, UnderWay
    <3>2. End(off) < off[m + 1]
      BY <1>1 DEF Placed, UnderWay
    <3> QED BY <1>3, <1>7, <2>1, <3>1, <3>2 DEF UnderWay
  <2>3. ToWrite(P, off, B)'
    BY <1>1, <1>3, <2>1 DEF Placed, ToWrite
  <2>4. Placed(P, off, B)'
    BY <1>1, <1>3, <1>7, <2>2, <2>3 DEF Placed, Shape
  <2>5. Typed' /\ Alone'
    BY <1>3, <1>6, <1>7 DEF WireInv, Typed, Alone
  <2> QED BY <2>4, <2>5 DEF WireInv
<1>8. CASE Len(now) = Size(P[r + 1])
  <2>1. /\ got' = <<>> /\ received' = Append(received, sent[r + 1])
        /\ r < m /\ off[r + 1] = At(off) + n
    BY <1>2, <1>4, <1>8 DEF WhatIsRead
  <2>2. received' \in Seq(WireFrame) /\ Len(received') = r + 1 /\ Len(got') = 0
    <3>1. sent \in Seq(WireFrame) /\ received \in Seq(WireFrame) /\ r + 1 \in 1..m
      BY <1>5, <2>1 DEF WireInv, Typed
    <3> QED BY <2>1, <3>1
  <2>3. At(off)' = At(off) + n
    <3>1. At(off)' = off[r + 1] + 0
      BY <2>2 DEF At
    <3> QED BY <3>1, <2>1, <1>5
  <2>4. Arrived(P, off, B)'
    <3>1. r + 1 <= m /\ 0 < Size(P[(r + 1) + 1])
      <4>1. (r + 1) + 1 \in Nat /\ r + 1 <= m
        BY <1>5, <2>1
      <4>2. Size(P[(r + 1) + 1]) \in Nat /\ Size(P[(r + 1) + 1]) >= 2
        BY <4>1, <1>1, Numbers DEF WireInv
      <4> QED BY <4>1, <4>2
    <3>2. \A k \in 1..m : sent[k] = P[k]
      BY <1>1 DEF Placed, Arrived
    <3> QED BY <1>3, <2>2, <3>1, <3>2 DEF Arrived
  <2>5. got' \in Seq(WireByte)
    BY <2>1
  <2>6. Channel!Receive
    BY <2>1, <1>3 DEF Channel!Receive
  <2> QED BY <1>7, <2>2, <2>3, <2>4, <2>5, <2>6
<1>9. CASE Len(now) # Size(P[r + 1])
  <2>1. got' = now /\ UNCHANGED received
    BY <1>2, <1>4, <1>9 DEF WhatIsRead
  <2>2. At(off)' = At(off) + n
    <3>1. At(off)' = off[r] + (Len(got) + n)
      BY <1>4, <2>1 DEF At
    <3> QED BY <3>1, <1>5
  <2>3. Arrived(P, off, B)'
    <3>1. Len(now) < Size(P[r + 1])
      <4>1. r + 1 \in Nat
        BY <1>5
      <4>2. Size(P[r + 1]) \in Nat
        BY <4>1, <1>1, Numbers DEF WireInv
      <4>3. Len(now) <= Size(P[r + 1]) /\ Len(now) \in Nat
        BY <1>4, <1>5
      <4> QED BY <4>2, <4>3, <1>9
    <3> QED BY <1>1, <1>3, <1>4, <2>1, <3>1 DEF Placed, Arrived
  <2>4. got' \in Seq(WireByte) /\ received' \in Seq(WireFrame)
    BY <1>4, <2>1 DEF WireInv, Typed
  <2> QED BY <1>7, <2>1, <2>2, <2>3, <2>4
<1> QED BY <1>8, <1>9

-----------------------------------------------------------------------------
(* The theorem.                                                             *)

\* Every step keeps the invariant.
LEMMA StepKeeps == WireInv /\ [Step]_wire => WireInv'
<1> SUFFICES ASSUME WireInv, [Step]_wire PROVE WireInv'
  OBVIOUS
<1>1. CASE UNCHANGED wire
  <2>1. PICK P, off, B : Placed(P, off, B)
    BY DEF WireInv
  <2>2. UNCHANGED <<todo, frame, link, pipe, got, sent, received>>
    BY <1>1 DEF wire
  <2>3. Typed' /\ Alone'
    BY <2>2 DEF WireInv, Typed, Alone
  <2>4. Placed(P, off, B)'
    BY <2>1, <2>2 DEF Placed, Laid, Arrived, UnderWay, ToWrite, At, End
  <2> QED BY <2>3, <2>4 DEF WireInv
<1>2. CASE Step
  BY <1>2, WriteKeeps, WriteFailsKeeps, ReadKeeps, ReadFailsKeeps, BreakKeeps, BeginKeeps
     DEF Step, WireNext
<1> QED BY <1>1, <1>2

\* Every step is one of Messages, or leaves its variables alone.
LEMMA StepRefines == WireInv /\ [Step]_wire => [Channel!Next]_(Channel!vars)
<1> SUFFICES ASSUME WireInv, [Step]_wire PROVE Channel!Send \/ Channel!Receive \/ UNCHANGED <<sent, received>>
  BY DEF Channel!Next, Channel!vars
<1>1. ASSUME NEW t \in Threads, Write(t)
      PROVE  Channel!Send \/ UNCHANGED <<sent, received>>
  <2>1. sent' = Append(sent, frame[t]) \/ UNCHANGED sent
    BY <1>1 DEF Write
  <2>2. UNCHANGED received
    BY <1>1 DEF Write, reading
  <2>3. sent \in Seq(WireFrame) /\ frame[t] \in WireFrame
    BY DEF WireInv, Typed
  <2>4. ASSUME sent' = Append(sent, frame[t])
        PROVE  Channel!Send
    BY <2>2, <2>3, <2>4 DEF Channel!Send
  <2> QED BY <2>1, <2>2, <2>4
<1>2. ASSUME Read
      PROVE  Channel!Receive \/ UNCHANGED <<sent, received>>
  BY <1>2, ReadKeeps DEF Read
<1>3. ASSUME NEW t \in Threads, NEW f, WriteFails(t) \/ Begin(t, f)
      PROVE  UNCHANGED <<sent, received>>
  BY <1>3 DEF WriteFails, Begin, reading
<1>4. ASSUME ReadFails \/ Break
      PROVE  UNCHANGED <<sent, received>>
  BY <1>4 DEF ReadFails, Break, reading
<1>5. CASE UNCHANGED wire
  BY <1>5 DEF wire
<1> QED BY <1>1, <1>2, <1>3, <1>4, <1>5 DEF Step, WireNext

\* Frames arrive whole, once and in the order in which they were written:
\* AgentSession::send holds its lock for both writes of a frame, and recv_exact
\* reads on until the length in the header is there, however the bytes come.
THEOREM WireImplementsMessages == WireSpec => FramesInOrder
<1>1. WireInit => Channel!Init
  BY DEF WireInit, Channel!Init
<1> QED BY <1>1, InitPlaced, StepKeeps, StepRefines, PTL DEF WireSpec, FramesInOrder, Channel!Spec
-----------------------------------------------------------------------------
(* A send that failed.                                                      *)

Results == result \in [Threads -> {"none", "ok", "failed"}]

\* The senders can be told apart by what they send: nobody begins with a frame
\* that was written before.
Written(f) == \E k \in 1..Len(sent) : sent[k] = f
NewStep == WireNext \/ \E t \in Threads, f \in WireFrame : Begin(t, f) /\ ~Written(f)

\* The frame that is being written, or was given up, is none of those written to
\* the end: after a failure the session is never used again.
Unwritten ==
    /\ \A t \in Threads : todo[t] # <<>> \/ result[t] = "failed" => ~Written(frame[t])
    /\ \A t \in Threads : result[t] = "failed" => ~usable
    /\ ~usable => \A t \in Threads : todo[t] = <<>>

LEMMA InitUnwritten == WireInit => Unwritten
BY DEF WireInit, Unwritten

LEMMA UnwrittenKeeps ==
    ASSUME WireInv, Results, Unwritten, [NewStep]_wire
    PROVE  Unwritten'
<1>1. todo \in [Threads -> Seq(WireByte)] /\ sent \in Seq(WireFrame) /\ frame \in [Threads -> WireFrame]
      /\ result \in [Threads -> {"none", "ok", "failed"}]
  BY DEF WireInv, Typed, Results
<1>2. \A t, u \in Threads : todo[t] # <<>> /\ todo[u] # <<>> => t = u
  BY DEF WireInv, Alone
<1>3. ASSUME NEW t \in Threads, Write(t)
      PROVE  Unwritten'
  <2>1. PICK n \in 1..Len(todo[t]) :
          /\ todo' = [todo EXCEPT ![t] = SubSeq(todo[t], n + 1, Len(todo[t]))]
          /\ IF n = Len(todo[t])
             THEN sent' = Append(sent, frame[t]) /\ result' = [result EXCEPT ![t] = "ok"]
             ELSE UNCHANGED <<sent, result>>
    BY <1>3 DEF Write
  <2>2. UNCHANGED <<frame, usable>>
    BY <1>3 DEF Write
  <2>3. todo[t] # <<>> /\ Len(todo[t]) \in Nat
    BY <1>1, <2>1
  <2>4. usable /\ \A u \in Threads : result[u] # "failed"
    BY <2>3 DEF Unwritten
  <2>5. \A u \in Threads : u # t => todo'[u] = todo[u] /\ todo[u] = <<>>
    BY <1>1, <1>2, <2>1, <2>3
  <2>6. \A u \in Threads : result'[u] # "failed"
    <3>1. result' = [result EXCEPT ![t] = "ok"] \/ UNCHANGED result
      BY <2>1
    <3> QED BY <1>1, <2>4, <3>1
  <2>7. CASE n = Len(todo[t])
    <3>1. todo'[t] = <<>>
      BY <1>1, <2>1, <2>7
    <3> QED BY <2>2, <2>4, <2>5, <2>6, <3>1 DEF Unwritten
  <2>8. CASE n # Len(todo[t])
    <3>1. UNCHANGED sent
      BY <2>1, <2>8
    <3> QED BY <2>2, <2>3, <2>4, <2>5, <2>6, <3>1 DEF Unwritten, Written
  <2> QED BY <2>7, <2>8
<1>4. ASSUME NEW t \in Threads, WriteFails(t)
      PROVE  Unwritten'
  <2>1. \A u \in Threads : todo'[u] = <<>>
    BY <1>1, <1>2, <1>4 DEF WriteFails
  <2>2. \A u \in Threads : u # t => result'[u] = result[u]
    BY <1>4 DEF WriteFails
  <2>3. todo[t] # <<>> /\ UNCHANGED <<frame, sent>> /\ ~usable'
    BY <1>4 DEF WriteFails
  <2> QED BY <2>1, <2>2, <2>3 DEF Unwritten, Written
<1>5. ASSUME NEW t \in Threads, NEW f \in WireFrame, Begin(t, f), ~Written(f)
      PROVE  Unwritten'
  <2>1. /\ \A u \in Threads : todo[u] = <<>>
        /\ frame'[t] = f /\ \A u \in Threads : u # t => frame'[u] = frame[u]
        /\ UNCHANGED <<usable, sent>>
    BY <1>1, <1>5 DEF Begin
  <2>2. \A u \in Threads : u # t => todo'[u] = <<>> /\ result'[u] = result[u]
    BY <1>1, <1>5, <2>1 DEF Begin
  <2>3. \/ usable /\ result'[t] = "none"
        \/ ~usable /\ todo'[t] = <<>> /\ result'[t] = "failed"
    BY <1>1, <1>5 DEF Begin
  <2> QED BY <1>5, <2>1, <2>2, <2>3 DEF Unwritten, Written
<1>6. CASE Read \/ ReadFails \/ Break \/ UNCHANGED wire
  <2>1. UNCHANGED <<todo, frame, result, usable, sent>>
    BY <1>6 DEF Read, ReadFails, Break, sending, wire
  <2> QED BY <2>1 DEF Unwritten, Written
<1> QED BY <1>3, <1>4, <1>5, <1>6 DEF NewStep, WireNext

\* What arrives was written to the end, so a frame that was given up does not.
LEMMA GivenUpIsNotRead ==
    ASSUME Unwritten, DOMAIN received = 1..Len(received), Len(received) \in Nat, Len(sent) \in Nat,
           Len(received) <= Len(sent), \A k \in 1..Len(received) : received[k] = sent[k]
    PROVE  FailedNeverArrives
<1> SUFFICES ASSUME NEW t \in Threads, result[t] = "failed", NEW i \in DOMAIN received
             PROVE  received[i] # frame[t]
  BY DEF FailedNeverArrives
<1>1. i \in 1..Len(sent) /\ received[i] = sent[i]
  OBVIOUS
<1> QED BY <1>1 DEF Unwritten, Written

InOrder == Len(received) <= Len(sent) /\ \A k \in 1..Len(received) : received[k] = sent[k]

LEMMA OrderKeeps ==
    ASSUME WireInv, WireInv', InOrder, [Channel!Next]_(Channel!vars)
    PROVE  InOrder'
<1>1. /\ sent \in Seq(WireFrame) /\ received \in Seq(WireFrame)
      /\ sent' \in Seq(WireFrame) /\ received' \in Seq(WireFrame)
  BY DEF WireInv, Typed
<1>2. CASE Channel!Send
  <2>1. /\ Len(sent') = Len(sent) + 1 /\ SubSeq(sent', 1, Len(sent)) = sent /\ UNCHANGED received
    BY <1>2 DEF Channel!Send
  <2>2. \A k \in 1..Len(sent) : SubSeq(sent', 1, Len(sent))[k] = sent'[k]
    BY <1>1, <2>1
  <2> QED BY <1>1, <2>1, <2>2 DEF InOrder
<1>3. CASE Channel!Receive
  BY <1>1, <1>3 DEF Channel!Receive, InOrder
<1>4. CASE UNCHANGED <<sent, received>>
  BY <1>4 DEF InOrder
<1> QED BY <1>2, <1>3, <1>4 DEF Channel!Next, Channel!vars

LEMMA ResultsKeep == Results /\ [Step]_wire => Results'
<1> SUFFICES ASSUME Results, [Step]_wire PROVE Results'
  OBVIOUS
<1>1. \A t \in Threads : Write(t) \/ WriteFails(t) => Results'
  BY DEF Results, Write, WriteFails
<1>2. \A t \in Threads, f \in WireFrame : Begin(t, f) => Results'
  BY DEF Results, Begin
<1>3. Read \/ ReadFails \/ Break \/ UNCHANGED wire => Results'
  BY DEF Results, Read, ReadFails, Break, sending, wire
<1> QED BY <1>1, <1>2, <1>3 DEF Step, WireNext

\* A send that failed is over for good, wherever in its frame the connection
\* broke, as long as frames can be told apart (AgentSession::send gives the
\* session up, and recv_exact throws away a frame that is not whole).
THEOREM FailedStaysAway == WireInit /\ [][NewStep]_wire => []FailedNeverArrives
<1>1. WireInit => WireInv /\ Results /\ Unwritten /\ InOrder
  BY InitPlaced, InitUnwritten DEF WireInit, Results, InOrder
<1>2. [NewStep]_wire => [Step]_wire
  BY DEF NewStep, Step
<1>3. WireInv /\ Unwritten /\ InOrder => FailedNeverArrives
  <2> SUFFICES ASSUME WireInv, Unwritten, InOrder PROVE FailedNeverArrives
    OBVIOUS
  <2>1. sent \in Seq(WireFrame) /\ received \in Seq(WireFrame)
    BY DEF WireInv, Typed
  <2> QED BY <2>1, GivenUpIsNotRead DEF InOrder
<1>4. WireInv /\ InOrder /\ [Step]_wire => InOrder'
  BY StepKeeps, StepRefines, OrderKeeps
<1>5. WireInv /\ Results /\ Unwritten /\ [NewStep]_wire => Unwritten'
  BY UnwrittenKeeps
<1> QED BY <1>1, <1>2, <1>3, <1>4, <1>5, StepKeeps, ResultsKeep, PTL

=============================================================================

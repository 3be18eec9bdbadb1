-------------------------- MODULE SerialLinkProofs --------------------------
(***************************************************************************)
(* Proofs about SerialLink, for every size of the rings, all data that are *)
(* printed, all commands, and any number of frames, lost bytes and slots   *)
(* that stop the serial port.                                              *)
(*                                                                         *)
(* No frame is looked at as bytes that are parsed.  Where the framing did  *)
(* not go astray, the ring carries the frames the host has yet to read:    *)
(* each lies at a place of its own, and the places follow one another      *)
(* (Carries).  What the driver does moves the places, or adds a frame to   *)
(* the last; what it is about to do is where the host is in the first      *)
(* frame (Phase).                                                          *)
(***************************************************************************)
EXTENDS SerialLink, FiniteSetTheorems, SequenceTheorems, TLAPS

-----------------------------------------------------------------------------
(* The ring of the output.                                                 *)
-----------------------------------------------------------------------------
TxSize == SERIAL_OUTPUT_BUFFER_SIZE

LEMMA TxSizeType == TxSize \in 3 .. 256
BY OpenSerialAssumption DEF TxSize

LEMMA FlagIsByte == /\ START_FLAG \in 6 .. 255
                    /\ {REQUEST_FRAME, CONTROL_COMMAND, SERIAL_MSG_PKT, SERIAL_MSG_DEB,
                        SERIAL_MSG_RSP, SERIAL_MSG_ERR} \subseteq UINT8
BY OpenSerialAssumption DEF UINT8

(* A number reduced that is less than a lap off.                           *)
LEMMA Modulo ==
  ASSUME NEW n \in Nat \ {0}, NEW x \in Int
  PROVE  /\ x \in 0 .. n - 1 => x % n = x
         /\ x \in n .. 2 * n - 1 => x % n = x - n
         /\ 0 - n <= x /\ x < 0 => x % n = x + n
<1>1. x \in 0 .. n - 1 => x % n = x
  BY SMTT(20)
<1>2. x \in n .. 2 * n - 1 => x % n = x - n
  BY SMTT(20)
<1>3. 0 - n <= x /\ x < 0 => x % n = x + n
  BY SMTT(20)
<1> QED BY <1>1, <1>2, <1>3

(* A position in the ring, and one that is a lap too far or too near.       *)
Wrap(x) == IF x < 0 THEN x + TxSize
           ELSE IF x < TxSize THEN x ELSE x - TxSize

(* So does the driver reduce its indices.                                  *)
LEMMA WrapIsModulo ==
  ASSUME NEW x \in Int, 0 - TxSize <= x, x < 2 * TxSize
  PROVE  x % TxSize = Wrap(x)
<1>1. TxSize \in Nat \ {0}
  BY TxSizeType
<1>2. \/ x \in 0 .. TxSize - 1
      \/ x \in TxSize .. 2 * TxSize - 1
      \/ 0 - TxSize <= x /\ x < 0
  BY TxSizeType
<1>3. /\ x \in 0 .. TxSize - 1 => Wrap(x) = x
      /\ x \in TxSize .. 2 * TxSize - 1 => Wrap(x) = x - TxSize
      /\ 0 - TxSize <= x /\ x < 0 => Wrap(x) = x + TxSize
  BY TxSizeType DEF Wrap
<1> QED BY <1>1, <1>2, <1>3, Modulo

Contents(ring) ==
  [i \in 1 .. ring.fill_level |-> ring.buffer[Wrap(ring.tail + i - 1)]]

TxRing ==
  [buffer : [0 .. TxSize - 1 -> UINT8], head : 0 .. TxSize - 1,
   tail : 0 .. TxSize - 1, fill_level : 0 .. TxSize - 1]

IsTx(ring) ==
  ring \in TxRing /\ ring.head = Wrap(ring.tail + ring.fill_level)

LEMMA TxTypes ==
  ASSUME NEW ring, IsTx(ring)
  PROVE  /\ ring \in TxRing
         /\ ring.head \in Int /\ 0 <= ring.head /\ ring.head < TxSize
         /\ ring.tail \in Int /\ 0 <= ring.tail /\ ring.tail < TxSize
         /\ ring.fill_level \in Nat /\ ring.fill_level < TxSize
         /\ ring.head = Wrap(ring.tail + ring.fill_level)
BY TxSizeType DEF IsTx, TxRing

LEMMA FunctionIsSeq ==
  ASSUME NEW S, NEW n \in Nat, NEW f \in [1 .. n -> S]
  PROVE  f \in Seq(S) /\ Len(f) = n
OBVIOUS

LEMMA MaxLenTx ==
  ASSUME NEW ring, IsTx(ring)
  PROVE  maxLen(ring) = TxSize
<1>1. DOMAIN ring.buffer = 0 .. TxSize - 1
  BY DEF IsTx, TxRing, Wrap
<1>2. Cardinality(0 .. TxSize - 1) = TxSize
  BY FS_Interval, TxSizeType
<1> QED BY <1>1, <1>2 DEF maxLen

(* The bytes of the ring, from the tail on, are as many as its level.      *)
LEMMA ContentsType ==
  ASSUME NEW ring, IsTx(ring)
  PROVE  /\ Contents(ring) \in Seq(UINT8)
         /\ Len(Contents(ring)) = ring.fill_level
         /\ \A i \in 1 .. ring.fill_level :
              Contents(ring)[i] = ring.buffer[Wrap(ring.tail + i - 1)]
<1>1. \A i \in 1 .. ring.fill_level :
        Wrap(ring.tail + i - 1) \in 0 .. TxSize - 1
  BY TxSizeType DEF IsTx, TxRing, Wrap
<1>2. Contents(ring) \in [1 .. ring.fill_level -> UINT8]
  BY <1>1 DEF Contents, IsTx, TxRing, Wrap
<1>3. ring.fill_level \in Nat
  BY TxSizeType DEF IsTx, TxRing, Wrap
<1>4. Contents(ring) \in Seq(UINT8) /\ Len(Contents(ring)) = ring.fill_level
  BY <1>2, <1>3, FunctionIsSeq
<1> QED BY <1>4 DEF Contents

(* A pop takes the first byte, and leaves the second at the tail.          *)
LEMMA PopOfTx ==
  ASSUME NEW ring, IsTx(ring), ring.fill_level > 0
  PROVE  LET rest == circular_buffer_pop(ring)
         IN /\ IsTx(rest)
            /\ rest.fill_level = ring.fill_level - 1
            /\ rest.buffer = ring.buffer
            /\ Contents(rest) = Tail(Contents(ring))
            /\ Popped(ring) = Contents(ring)[1]
            /\ ring.fill_level >= 2 =>
                 rest.buffer[rest.tail] = Contents(ring)[2]
<1> DEFINE rest == circular_buffer_pop(ring)
<1>1. /\ ring.head # ring.tail
      /\ maxLen(ring) = TxSize
      /\ (ring.tail + 1) % TxSize = Wrap(ring.tail + 1)
      /\ (ring.fill_level - 1) % 256 = ring.fill_level - 1
  <2>1. ring.head # ring.tail
    BY TxSizeType DEF IsTx, TxRing, Wrap
  <2>2. ring.fill_level - 1 \in 0 .. 255
    BY TxSizeType, TxTypes
  <2>3. (ring.fill_level - 1) % 256 = ring.fill_level - 1
    BY <2>2
  <2>4. (ring.tail + 1) % TxSize = Wrap(ring.tail + 1)
    <3>1. /\ ring.tail + 1 \in Int
          /\ 0 - TxSize <= ring.tail + 1 /\ ring.tail + 1 < 2 * TxSize
      BY TxSizeType, TxTypes
    <3> QED BY <3>1, WrapIsModulo
  <2> QED BY <2>1, <2>3, <2>4, MaxLenTx
<1>2. rest = [buffer |-> ring.buffer, head |-> ring.head,
              tail |-> Wrap(ring.tail + 1),
              fill_level |-> ring.fill_level - 1]
  BY <1>1, ZenonT(30) DEF circular_buffer_pop, IsTx, TxRing, Wrap
<1> HIDE DEF rest
<1>3. IsTx(rest)
  <2>1. Wrap(ring.tail + 1) \in 0 .. TxSize - 1
    BY TxSizeType DEF IsTx, TxRing, Wrap
  <2>2. ring.head = Wrap(Wrap(ring.tail + 1) + (ring.fill_level - 1))
    BY TxSizeType DEF IsTx, TxRing, Wrap
  <2>3. ring.fill_level - 1 \in 0 .. TxSize - 1
    BY TxSizeType DEF IsTx, TxRing, Wrap
  <2> QED BY <1>2, <2>1, <2>2, <2>3 DEF IsTx, TxRing, Wrap
<1>4. \A i \in 1 .. ring.fill_level - 1 :
        Wrap(rest.tail + i - 1) = Wrap(ring.tail + (i + 1) - 1)
  BY <1>2, TxSizeType, SMTT(30) DEF IsTx, TxRing, Wrap
<1>5. Contents(rest) = Tail(Contents(ring))
  <2>1. /\ Contents(rest) \in Seq(UINT8)
        /\ Len(Contents(rest)) = ring.fill_level - 1
    BY <1>2, <1>3, ContentsType
  <2>2. /\ Tail(Contents(ring)) \in Seq(UINT8)
        /\ Len(Tail(Contents(ring))) = ring.fill_level - 1
        /\ \A i \in 1 .. ring.fill_level - 1 :
             Tail(Contents(ring))[i] = Contents(ring)[i + 1]
    <3>1. /\ Contents(ring) \in Seq(UINT8)
          /\ Len(Contents(ring)) = ring.fill_level
          /\ Contents(ring) # <<>>
      BY ContentsType
    <3> QED BY <3>1, HeadTailProperties
  <2>3. ASSUME NEW i \in 1 .. ring.fill_level - 1
        PROVE  Contents(rest)[i] = Tail(Contents(ring))[i]
    <3>1. Contents(rest)[i] = rest.buffer[Wrap(rest.tail + i - 1)]
      BY <1>2, <1>3, ContentsType
    <3>2. i + 1 \in 1 .. ring.fill_level
      BY TxSizeType DEF IsTx, TxRing, Wrap
    <3>3. Contents(ring)[i + 1] = ring.buffer[Wrap(ring.tail + (i + 1) - 1)]
      BY <3>2, ContentsType
    <3> QED BY <1>2, <1>4, <2>2, <3>1, <3>3
  <2> QED BY <2>1, <2>2, <2>3, SeqEqual
<1>6. Popped(ring) = Contents(ring)[1]
  <2>1. 1 \in 1 .. ring.fill_level
    BY TxSizeType DEF IsTx, TxRing, Wrap
  <2>2. Contents(ring)[1] = ring.buffer[Wrap(ring.tail + 1 - 1)]
    BY <2>1, ContentsType
  <2>3. Wrap(ring.tail + 1 - 1) = ring.tail
    BY TxSizeType DEF IsTx, TxRing, Wrap
  <2> QED BY <1>1, <2>2, <2>3 DEF Popped
<1>7. ASSUME ring.fill_level >= 2
      PROVE  rest.buffer[rest.tail] = Contents(ring)[2]
  <2>1. 2 \in 1 .. ring.fill_level
    BY <1>7, TxSizeType DEF IsTx, TxRing, Wrap
  <2>2. Contents(ring)[2] = ring.buffer[Wrap(ring.tail + 2 - 1)]
    BY <2>1, ContentsType
  <2>3. ring.tail + 2 - 1 = ring.tail + 1
    BY TxSizeType DEF IsTx, TxRing, Wrap
  <2> QED BY <1>2, <2>2, <2>3
<1>8. rest.fill_level = ring.fill_level - 1 /\ rest.buffer = ring.buffer
  BY <1>2
<1> QED BY <1>3, <1>5, <1>6, <1>7, <1>8 DEF rest

(* The byte after the tail is the second, unless it is sought behind the   *)
(* ring.                                                                   *)
LEMMA SecondByte ==
  ASSUME NEW ring, IsTx(ring), ring.fill_level >= 2, NEW beyond,
         ring.tail + 1 \in DOMAIN ring.buffer
  PROVE  At(ring, ring.tail + 1, beyond) = Contents(ring)[2]
<1>1. 2 \in 1 .. ring.fill_level
  BY TxSizeType DEF IsTx, TxRing, Wrap
<1>2. Contents(ring)[2] = ring.buffer[Wrap(ring.tail + 2 - 1)]
  BY <1>1, ContentsType
<1>3. Wrap(ring.tail + 2 - 1) = ring.tail + 1
  BY TxSizeType DEF IsTx, TxRing, Wrap
<1> QED BY <1>2, <1>3 DEF At

LEMMA MinOfTwo ==
  ASSUME NEW x \in Int, NEW y \in Int, x <= y
  PROVE  Min({x, y}) = x
<1>1. \A z \in {x, y} : x <= z
  OBVIOUS
<1>2. \A w \in {x, y} : (\A z \in {x, y} : w <= z) => w = x
  OBVIOUS
<1> QED BY <1>1, <1>2 DEF Min

(* Bytes that fit are added behind those in the ring.                      *)
LEMMA PushesOnTx ==
  ASSUME NEW ring, IsTx(ring), NEW bytes \in Seq(UINT8),
         Len(bytes) <= TxSize - 1 - ring.fill_level
  PROVE  LET full == circular_buffer_pushes(ring, bytes)
         IN /\ IsTx(full)
            /\ Contents(full) = Contents(ring) \o bytes
<1> DEFINE full == circular_buffer_pushes(ring, bytes)
           fit == Len(bytes)
           Behind(i) == Wrap(i - ring.head)
           buffer == [i \in 0 .. TxSize - 1 |->
                        IF Behind(i) < fit THEN bytes[Behind(i) + 1]
                        ELSE ring.buffer[i]]
<1>1. /\ fit \in Nat
      /\ fit <= TxSize - 1 - ring.fill_level
      /\ Min({Len(bytes), TxSize - 1 - ring.fill_level}) = fit
      /\ \A i \in 1 .. fit : bytes[i] \in UINT8
  <2>1. /\ fit \in Nat
        /\ \A i \in 1 .. fit : bytes[i] \in UINT8
    BY LenProperties, ElementOfSeq
  <2>2. TxSize - 1 - ring.fill_level \in Int
    BY TxSizeType, TxTypes
  <2> QED BY <2>1, <2>2, MinOfTwo
<1>2. full = [buffer |-> buffer, head |-> Wrap(ring.head + fit),
              tail |-> ring.tail, fill_level |-> ring.fill_level + fit]
  <2>1. DOMAIN ring.buffer = 0 .. TxSize - 1
    BY DEF IsTx, TxRing, Wrap
  <2>2. \A i \in 0 .. TxSize - 1 : (i - ring.head) % TxSize = Behind(i)
    <3> TAKE i \in 0 .. TxSize - 1
    <3>1. /\ i - ring.head \in Int
          /\ 0 - TxSize <= i - ring.head
          /\ i - ring.head < 2 * TxSize
      BY TxSizeType, SMTT(30) DEF IsTx, TxRing, Wrap
    <3> QED BY <3>1, WrapIsModulo
  <2>3. (ring.head + fit) % TxSize = Wrap(ring.head + fit)
    <3>1. /\ ring.head + fit \in Int
          /\ 0 - TxSize <= ring.head + fit
          /\ ring.head + fit < 2 * TxSize
      BY <1>1, TxSizeType, SMTT(30) DEF IsTx, TxRing, Wrap
    <3> QED BY <3>1, WrapIsModulo
  <2> DEFINE code == [i \in 0 .. TxSize - 1 |->
                        IF (i - ring.head) % TxSize < fit
                        THEN bytes[((i - ring.head) % TxSize) + 1]
                        ELSE ring.buffer[i]]
  <2>4. code = buffer
    BY <2>2
  <2>5. full = [ring EXCEPT !.buffer = code,
                            !.head = (ring.head + fit) % TxSize,
                            !.fill_level = ring.fill_level + fit]
    <3>1. /\ maxLen(ring) = TxSize
          /\ Min({Len(bytes), maxLen(ring) - 1 - ring.fill_level}) = fit
      BY <1>1, MaxLenTx
    <3> HIDE DEF fit
    <3> QED BY <2>1, <3>1, Zenon DEF circular_buffer_pushes, full, code
  <2> HIDE DEF full, code, buffer, fit
  <2> QED BY <2>3, <2>4, <2>5 DEF IsTx, TxRing, Wrap
<1>3. \A i \in 0 .. TxSize - 1 : Behind(i) \in 0 .. TxSize - 1
  BY TxSizeType, TxTypes, SMTT(30) DEF Wrap
<1>4. buffer \in [0 .. TxSize - 1 -> UINT8]
  <2>1. ASSUME NEW i \in 0 .. TxSize - 1, Behind(i) < fit
        PROVE  bytes[Behind(i) + 1] \in UINT8
    <3>1. Behind(i) \in 0 .. TxSize - 1
      BY <1>3
    <3> HIDE DEF Behind, fit
    <3>2. Behind(i) + 1 \in 1 .. fit
      BY <1>1, <2>1, <3>1, TxSizeType
    <3> QED BY <1>1, <3>2
  <2> QED BY <2>1 DEF IsTx, TxRing, Wrap
<1>5. ring.fill_level + fit \in 0 .. TxSize - 1
  BY <1>1, TxSizeType DEF IsTx, TxRing, Wrap
<1> HIDE DEF full, fit
<1>6. IsTx(full)
  <2>1. Wrap(ring.head + fit) \in 0 .. TxSize - 1
    BY <1>1, TxSizeType, SMTT(30) DEF IsTx, TxRing, Wrap
  <2>2. Wrap(ring.head + fit) = Wrap(ring.tail + (ring.fill_level + fit))
    BY <1>1, TxSizeType, SMTT(30) DEF IsTx, TxRing, Wrap
  <2> HIDE DEF buffer
  <2> QED BY <1>2, <1>4, <1>5, <2>1, <2>2 DEF IsTx, TxRing, Wrap
<1>7. /\ Contents(full) \in Seq(UINT8)
      /\ Len(Contents(full)) = ring.fill_level + fit
      /\ \A i \in 1 .. ring.fill_level + fit :
           Contents(full)[i] = buffer[Wrap(ring.tail + i - 1)]
  <2> HIDE DEF buffer
  <2> QED BY <1>2, <1>6, ContentsType
<1>8. /\ Contents(ring) \o bytes \in Seq(UINT8)
      /\ Len(Contents(ring) \o bytes) = ring.fill_level + fit
      /\ \A i \in 1 .. ring.fill_level + fit :
           (Contents(ring) \o bytes)[i] =
             IF i <= ring.fill_level THEN Contents(ring)[i]
             ELSE bytes[i - ring.fill_level]
  <2> DEFINE c == Contents(ring)
  <2>1. c \in Seq(UINT8) /\ Len(c) = ring.fill_level
    BY ContentsType
  <2> HIDE DEF c
  <2>2. /\ c \o bytes \in Seq(UINT8)
        /\ Len(c \o bytes) = Len(c) + Len(bytes)
        /\ \A i \in 1 .. Len(c) + Len(bytes) :
             (c \o bytes)[i] = IF i <= Len(c) THEN c[i] ELSE bytes[i - Len(c)]
    BY <2>1, ConcatProperties
  <2> QED BY <2>1, <2>2 DEF c, fit
<1>9. ASSUME NEW i \in 1 .. ring.fill_level + fit
      PROVE  Contents(full)[i] = (Contents(ring) \o bytes)[i]
  <2> DEFINE head == ring.head
             tail == ring.tail
             level == ring.fill_level
  <2>0. /\ head \in Int /\ 0 <= head /\ head < TxSize
        /\ tail \in Int /\ 0 <= tail /\ tail < TxSize
        /\ level \in Int /\ 0 <= level /\ level + fit < TxSize
        /\ i \in Int /\ 1 <= i /\ i <= level + fit
        /\ fit \in Nat /\ TxSize \in Nat
        /\ head = Wrap(tail + level)
    <3>1. /\ head \in Int /\ 0 <= head /\ head < TxSize
          /\ tail \in Int /\ 0 <= tail /\ tail < TxSize
          /\ level \in Nat
          /\ head = Wrap(tail + level)
      BY TxTypes
    <3>2. /\ fit \in Nat /\ fit <= TxSize - 1 - level
          /\ TxSize \in Nat
          /\ i \in 1 .. level + fit
      BY <1>1, TxSizeType
    <3> HIDE DEF head, tail, level
    <3> QED BY <3>1, <3>2
  <2> HIDE DEF head, tail, level
  <2>1. Wrap(tail + i - 1) \in 0 .. TxSize - 1
    BY <2>0 DEF Wrap
  <2>2. CASE i <= level
    <3>1. ~(Wrap(Wrap(tail + i - 1) - head) < fit)
      BY <2>0, <2>2 DEF Wrap
    <3>2. i \in 1 .. level
      BY <2>0, <2>2
    <3>3. Contents(ring)[i] = ring.buffer[Wrap(tail + i - 1)]
      BY <3>2, ContentsType DEF tail, level
    <3> QED BY <1>7, <1>8, <2>1, <2>2, <3>1, <3>3 DEF head, tail, level
  <2>3. CASE i > level
    <3>1. Wrap(Wrap(tail + i - 1) - head) = i - level - 1
      BY <2>0, <2>3 DEF Wrap
    <3>2. /\ Wrap(Wrap(tail + i - 1) - head) < fit
          /\ Wrap(Wrap(tail + i - 1) - head) + 1 = i - level
          /\ ~(i <= level)
      BY <2>0, <2>3, <3>1
    <3>3. buffer[Wrap(tail + i - 1)] = bytes[i - level]
      BY <2>1, <3>2 DEF head
    <3> HIDE DEF buffer
    <3>4. /\ Contents(full)[i] = buffer[Wrap(tail + i - 1)]
          /\ (Contents(ring) \o bytes)[i] = bytes[i - level]
      BY <1>7, <1>8, <3>2 DEF tail, level
    <3> QED BY <3>3, <3>4
  <2>4. i <= level \/ i > level
    BY <2>0
  <2> QED BY <2>2, <2>3, <2>4
<1>10. Contents(full) = Contents(ring) \o bytes
  BY <1>7, <1>8, <1>9, SeqEqual
<1> QED BY <1>6, <1>10 DEF full

-----------------------------------------------------------------------------
(* Frames that lie in a sequence of bytes one after the other.             *)
-----------------------------------------------------------------------------
WellFramed ==
  {f \in Seq(UINT8) : /\ Len(f) \in 3 .. 255
                      /\ f[1] = START_FLAG
                      /\ f[2] = Len(f) - 1 /\ f[2] # START_FLAG}

(* Before frame i of F, from the k-th on, begin[i] bytes of c are read.    *)
Marks(begin, c, F, k, j) ==
  /\ begin[k] = 0 - j
  /\ begin[Len(F) + 1] = Len(c)
  /\ \A i \in k .. Len(F) : begin[i + 1] = begin[i] + Len(F[i])
  /\ \A i \in k .. Len(F) : \A m \in 1 .. Len(F[i]) :
       begin[i] + m >= 1 => /\ begin[i] + m <= Len(c)
                            /\ c[begin[i] + m] = F[i][m]

Carries(c, F, k, j) ==
  \E begin \in [1 .. Len(F) + 1 -> Int] : Marks(begin, c, F, k, j)

(* What the host relies on in a frame.                                     *)
LEMMA FrameTypes ==
  ASSUME NEW f \in WellFramed
  PROVE  /\ f \in Seq(UINT8)
         /\ Len(f) \in 3 .. 255
         /\ f[1] = START_FLAG /\ f[2] = Len(f) - 1 /\ f[2] # START_FLAG
         /\ \A m \in 1 .. Len(f) : f[m] \in UINT8
BY ElementOfSeq, SMTT(30) DEF WellFramed

(* Nothing carries nothing.                                                *)
LEMMA CarriesNone == Carries(<<>>, <<>>, 1, 0)
<1> DEFINE begin == [i \in 1 .. 1 |-> 0]
<1>1. Marks(begin, <<>>, <<>>, 1, 0)
  BY DEF Marks
<1> QED BY <1>1 DEF Carries

(* Where a frame begins there is all of it, START_FLAG and its length      *)
(* first.                                                                  *)
LEMMA CarriesWhole ==
  ASSUME NEW c \in Seq(UINT8), NEW F \in Seq(WellFramed),
         NEW k \in 1 .. Len(F), NEW j \in Nat, j <= Len(F[k]), Carries(c, F, k, j)
  PROVE  /\ Len(c) >= Len(F[k]) - j
         /\ \A m \in 1 .. Len(F[k]) - j : c[m] = F[k][j + m]
<1> DEFINE length == Len(F[k])
<1>1. PICK begin \in [1 .. Len(F) + 1 -> Int] : Marks(begin, c, F, k, j)
  BY SMTT(30) DEF Carries
<1>2. length \in 3 .. 255 /\ Len(c) \in Nat /\ j <= length
  BY ElementOfSeq, FrameTypes, LenProperties
<1>3. /\ begin[k] = 0 - j
      /\ \A m \in 1 .. length :
           begin[k] + m >= 1 => /\ begin[k] + m <= Len(c)
                                /\ c[begin[k] + m] = F[k][m]
  <2>1. k \in k .. Len(F)
    OBVIOUS
  <2> QED BY <1>1, <2>1 DEF Marks
<1> HIDE DEF length
<1>4. Len(c) >= length - j
  <2>1. CASE j = length
    BY <1>2, <2>1
  <2>2. CASE j # length
    <3>1. length \in 1 .. length /\ begin[k] + length = length - j /\ length - j >= 1
      BY <1>2, <1>3, <2>2
    <3>2. begin[k] + length <= Len(c)
      BY <1>3, <3>1
    <3> QED BY <3>1, <3>2
  <2> QED BY <2>1, <2>2
<1>5. ASSUME NEW m \in 1 .. length - j
      PROVE  c[m] = F[k][j + m]
  <2>1. j + m \in 1 .. length
    BY <1>2
  <2>2. begin[k] + (j + m) = m /\ m >= 1
    BY <1>2, <1>3
  <2>3. c[begin[k] + (j + m)] = F[k][j + m]
    BY <1>3, <2>1, <2>2
  <2> QED BY <2>2, <2>3
<1> QED BY <1>4, <1>5 DEF length

(* After the last frame there are no bytes.                                *)
LEMMA CarriesEnd ==
  ASSUME NEW c \in Seq(UINT8), NEW F \in Seq(WellFramed),
         Carries(c, F, Len(F) + 1, 0)
  PROVE  Len(c) = 0
BY DEF Carries, Marks

(* A frame of which all bytes are taken is followed by the next.           *)
LEMMA CarriesNext ==
  ASSUME NEW c \in Seq(UINT8), NEW F \in Seq(WellFramed),
         NEW k \in 1 .. Len(F), Carries(c, F, k, Len(F[k]))
  PROVE  Carries(c, F, k + 1, 0)
<1>1. PICK begin \in [1 .. Len(F) + 1 -> Int] :
             Marks(begin, c, F, k, Len(F[k]))
  BY SMTT(30) DEF Carries
<1>2. Len(F[k]) \in 3 .. 255 /\ Len(F) \in Nat
  BY ElementOfSeq, FrameTypes, LenProperties, SMTT(30)
<1>3. /\ begin[k] = 0 - Len(F[k])
      /\ begin[k + 1] = begin[k] + Len(F[k])
  BY <1>1, <1>2, SMTT(30) DEF Marks
<1>4. begin[k + 1] = 0 - 0
  BY <1>2, <1>3, SMTT(30)
<1>5. Marks(begin, c, F, k + 1, 0)
  BY <1>1, <1>2, <1>4, SMTT(30) DEF Marks
<1> QED BY <1>5 DEF Carries

(* A byte taken is one more of the first frame.                            *)
LEMMA CarriesTail ==
  ASSUME NEW c \in Seq(UINT8), NEW F \in Seq(WellFramed),
         NEW k \in 1 .. Len(F), NEW j \in Nat, j < Len(F[k]), Carries(c, F, k, j)
  PROVE  Carries(Tail(c), F, k, j + 1)
<1>1. PICK begin \in [1 .. Len(F) + 1 -> Int] : Marks(begin, c, F, k, j)
  BY DEF Carries
<1>2. /\ Len(F) \in Nat /\ Len(c) \in Nat
      /\ \A i \in 1 .. Len(F) : Len(F[i]) \in 3 .. 255
  BY ElementOfSeq, FrameTypes, LenProperties
<1>3. Len(c) >= 1
  <2>1. Len(c) >= Len(F[k]) - j
    BY CarriesWhole
  <2> QED BY <1>2, <2>1, SMTT(30)
<1>4. /\ Len(Tail(c)) = Len(c) - 1
      /\ \A i \in 1 .. Len(c) - 1 : Tail(c)[i] = c[i + 1]
  <2>1. c # <<>>
    BY <1>3
  <2> QED BY <2>1, HeadTailProperties
<1> DEFINE less == [i \in 1 .. Len(F) + 1 |-> begin[i] - 1]
<1>5. less \in [1 .. Len(F) + 1 -> Int]
  OBVIOUS
<1>6. /\ less[k] = 0 - (j + 1)
      /\ less[Len(F) + 1] = Len(Tail(c))
      /\ \A i \in k .. Len(F) : less[i + 1] = less[i] + Len(F[i])
  <2>1. less[k] = 0 - (j + 1)
    <3>1. begin[k] = 0 - j /\ k \in 1 .. Len(F) + 1
      BY <1>1, <1>2 DEF Marks
    <3> QED BY <3>1
  <2>2. less[Len(F) + 1] = Len(Tail(c))
    <3>1. begin[Len(F) + 1] = Len(c) /\ Len(F) + 1 \in 1 .. Len(F) + 1
      BY <1>1, <1>2, SMTT(30) DEF Marks
    <3> QED BY <1>4, <3>1
  <2>3. ASSUME NEW i \in k .. Len(F)
        PROVE  less[i + 1] = less[i] + Len(F[i])
    <3>1. begin[i + 1] = begin[i] + Len(F[i])
      BY <1>1 DEF Marks
    <3>2. /\ i \in 1 .. Len(F) + 1 /\ i + 1 \in 1 .. Len(F) + 1
          /\ begin[i] \in Int /\ Len(F[i]) \in 3 .. 255
      BY <1>2
    <3> QED BY <3>1, <3>2, SMTT(30)
  <2> QED BY <2>1, <2>2, <2>3
<1>7. ASSUME NEW i \in k .. Len(F), NEW m \in 1 .. Len(F[i]),
             less[i] + m >= 1
      PROVE  /\ less[i] + m <= Len(Tail(c))
             /\ Tail(c)[less[i] + m] = F[i][m]
  <2>1. /\ less[i] + m = begin[i] + m - 1
        /\ begin[i] \in Int /\ m \in Int
    BY <1>2, SMTT(30)
  <2>2. /\ begin[i] + m <= Len(c)
        /\ c[begin[i] + m] = F[i][m]
    BY <1>1, <1>7, <2>1, SMTT(30) DEF Marks
  <2> DEFINE place == less[i] + m
             old == begin[i] + m
  <2>3. place \in 1 .. Len(c) - 1
    <3>1. place = old - 1 /\ old \in Int /\ place >= 1 /\ old <= Len(c)
      BY <1>7, <2>1, <2>2, SMTT(30)
    <3> HIDE DEF place, old
    <3> QED BY <1>2, <3>1
  <2>4. Tail(c)[less[i] + m] = c[less[i] + m + 1]
    BY <1>4, <2>3
  <2>5. less[i] + m + 1 = begin[i] + m
    BY <2>1
  <2> QED BY <1>4, <2>2, <2>3, <2>4, <2>5
<1> HIDE DEF less
<1>8. Marks(less, Tail(c), F, k, j + 1)
  BY <1>6, <1>7 DEF Marks
<1> QED BY <1>5, <1>8 DEF Carries

(* A frame added behind the bytes is one more frame to read.               *)
LEMMA CarriesAppend ==
  ASSUME NEW c \in Seq(UINT8), NEW F \in Seq(WellFramed), NEW f \in WellFramed,
         NEW k \in 1 .. Len(F) + 1, NEW j \in Nat, Carries(c, F, k, j)
  PROVE  Carries(c \o f, Append(F, f), k, j)
<1>1. PICK begin \in [1 .. Len(F) + 1 -> Int] : Marks(begin, c, F, k, j)
  BY SMTT(30) DEF Carries
<1>2. /\ Len(F) \in Nat /\ Len(c) \in Nat
      /\ \A i \in 1 .. Len(F) : Len(F[i]) \in 3 .. 255
      /\ Len(f) \in 3 .. 255
  BY ElementOfSeq, FrameTypes, LenProperties
<1>3. /\ Len(Append(F, f)) = Len(F) + 1
      /\ \A i \in 1 .. Len(F) : Append(F, f)[i] = F[i]
      /\ Append(F, f)[Len(F) + 1] = f
  BY AppendProperties
<1>4. /\ Len(c \o f) = Len(c) + Len(f)
      /\ \A i \in 1 .. Len(c) + Len(f) :
           (c \o f)[i] = IF i <= Len(c) THEN c[i] ELSE f[i - Len(c)]
  BY FrameTypes, ConcatProperties, SMTT(30)
<1> DEFINE G == Append(F, f)
           d == c \o f
           more == [i \in 1 .. Len(F) + 2 |->
                      IF i <= Len(F) + 1 THEN begin[i] ELSE Len(c) + Len(f)]
<1>5. more \in [1 .. Len(G) + 1 -> Int]
  BY <1>2, <1>3, SMTT(30)
<1>6. /\ \A i \in 1 .. Len(F) + 1 : more[i] = begin[i]
      /\ more[Len(F) + 2] = Len(c) + Len(f)
  BY <1>2, SMTT(30)
<1>7. more[k] = 0 - j
  BY <1>1, <1>2, <1>6, SMTT(30) DEF Marks
<1>8. more[Len(G) + 1] = Len(d)
  <2>1. Len(G) + 1 = Len(F) + 2
    BY <1>2, <1>3
  <2> QED BY <1>4, <1>6, <2>1
<1> HIDE DEF more, G, d
<1>9. ASSUME NEW i \in k .. Len(G)
      PROVE  more[i + 1] = more[i] + Len(G[i])
  <2>1. CASE i \in k .. Len(F)
    <3>1. begin[i + 1] = begin[i] + Len(F[i])
      BY <1>1, <2>1, SMTT(30) DEF Marks
    <3>2. more[i] = begin[i] /\ more[i + 1] = begin[i + 1]
      BY <1>2, <1>6, <2>1
    <3>3. G[i] = F[i]
      BY <1>2, <1>3, <2>1, SMTT(30) DEF G
    <3> QED BY <3>1, <3>2, <3>3
  <2>2. CASE i = Len(F) + 1
    <3>1. more[i] = Len(c)
      BY <1>1, <1>2, <1>6, <2>2, SMTT(30) DEF Marks
    <3>2. more[i + 1] = Len(c) + Len(f)
      BY <1>2, <1>6, <2>2, SMTT(30)
    <3>3. G[i] = f
      BY <1>3, <2>2 DEF G
    <3> QED BY <3>1, <3>2, <3>3
  <2>3. i \in k .. Len(F) \/ i = Len(F) + 1
    BY <1>2, <1>3, SMTT(30) DEF G
  <2> QED BY <2>1, <2>2, <2>3
<1>10. ASSUME NEW i \in k .. Len(G), NEW m \in 1 .. Len(G[i]),
              more[i] + m >= 1
       PROVE  more[i] + m <= Len(d) /\ d[more[i] + m] = G[i][m]
  <2>1. CASE i \in k .. Len(F)
    <3>1. more[i] = begin[i] /\ begin[i] \in Int /\ G[i] = F[i]
      BY <1>2, <1>3, <1>6, <2>1 DEF G
    <3>2. m \in 1 .. Len(F[i]) /\ begin[i] + m >= 1
      BY <1>10, <3>1
    <3>3. begin[i] + m <= Len(c) /\ c[begin[i] + m] = F[i][m]
      BY <1>1, <2>1, <3>2 DEF Marks
    <3>4. begin[i] + m \in 1 .. Len(c) + Len(f)
      BY <1>2, <3>1, <3>2, <3>3, SMTT(30)
    <3>5. d[begin[i] + m] = c[begin[i] + m]
      BY <1>4, <3>3, <3>4 DEF d
    <3> QED BY <1>2, <1>4, <3>1, <3>3, <3>4, <3>5, SMTT(30) DEF d
  <2>2. CASE i = Len(F) + 1
    <3>1. more[i] = Len(c)
      BY <1>1, <1>2, <1>6, <2>2, SMTT(30) DEF Marks
    <3>2. G[i] = f
      BY <1>3, <2>2 DEF G
    <3>3. m \in 1 .. Len(f)
      BY <3>2
    <3>4. /\ Len(c) + m \in 1 .. Len(c) + Len(f)
          /\ ~(Len(c) + m <= Len(c)) /\ Len(c) + m - Len(c) = m
          /\ Len(c) + m <= Len(c) + Len(f)
      BY <1>2, <3>3, SMTT(30)
    <3>5. d[Len(c) + m] = f[m]
      BY <1>4, <3>4 DEF d
    <3> QED BY <1>4, <3>1, <3>2, <3>4, <3>5, SMTT(30) DEF d
  <2>3. i \in k .. Len(F) \/ i = Len(F) + 1
    BY <1>2, <1>3 DEF G
  <2> QED BY <2>1, <2>2, <2>3
<1>11. Marks(more, d, G, k, j)
  BY <1>7, <1>8, <1>9, <1>10 DEF Marks
<1> QED BY <1>5, <1>11 DEF Carries, G, d

(* Frames are inserted or taken away before the k-th.                      *)
LEMMA CarriesShift ==
  ASSUME NEW c \in Seq(UINT8), NEW F \in Seq(WellFramed),
         NEW G \in Seq(WellFramed), NEW d \in Int, Len(G) = Len(F) + d,
         NEW k \in 1 .. Len(F) + 1, k + d >= 1,
         \A i \in k .. Len(F) : G[i + d] = F[i],
         NEW j \in Nat, Carries(c, F, k, j)
  PROVE  Carries(c, G, k + d, j)
<1>1. PICK begin \in [1 .. Len(F) + 1 -> Int] : Marks(begin, c, F, k, j)
  BY DEF Carries
<1>2. Len(F) \in Nat /\ Len(G) \in Nat
  BY LenProperties
<1> DEFINE moved == [i \in 1 .. Len(G) + 1 |->
                       IF i - d \in 1 .. Len(F) + 1 THEN begin[i - d] ELSE 0]
<1>3. moved \in [1 .. Len(G) + 1 -> Int]
  OBVIOUS
<1>4. \A i \in k + d .. Len(G) + 1 : moved[i] = begin[i - d]
  BY <1>2
<1> HIDE DEF moved
<1>5. moved[k + d] = 0 - j
  <2>1. k + d \in k + d .. Len(G) + 1 /\ k + d - d = k
    BY <1>2
  <2>2. begin[k] = 0 - j
    BY <1>1 DEF Marks
  <2> QED BY <1>4, <2>1, <2>2
<1>6. moved[Len(G) + 1] = Len(c)
  <2>1. Len(G) + 1 \in k + d .. Len(G) + 1 /\ Len(G) + 1 - d = Len(F) + 1
    BY <1>2
  <2>2. begin[Len(F) + 1] = Len(c)
    BY <1>1 DEF Marks
  <2> QED BY <1>4, <2>1, <2>2
<1>7. ASSUME NEW i \in k + d .. Len(G)
      PROVE  /\ i - d \in k .. Len(F)
             /\ G[i] = F[i - d]
             /\ moved[i] = begin[i - d]
             /\ moved[i + 1] = begin[(i - d) + 1]
  <2>1. /\ i - d \in k .. Len(F) /\ (i - d) + d = i
        /\ i \in k + d .. Len(G) + 1 /\ i + 1 \in k + d .. Len(G) + 1
        /\ (i + 1) - d = (i - d) + 1
    BY <1>2
  <2>2. G[(i - d) + d] = F[i - d]
    BY <2>1
  <2>3. moved[i] = begin[i - d] /\ moved[i + 1] = begin[(i + 1) - d]
    BY <1>4, <2>1
  <2> QED BY <2>1, <2>2, <2>3
<1>8. \A i \in k + d .. Len(G) : moved[i + 1] = moved[i] + Len(G[i])
  BY <1>1, <1>7, ZenonT(30) DEF Marks
<1>9. \A i \in k + d .. Len(G) : \A m \in 1 .. Len(G[i]) :
        moved[i] + m >= 1 => /\ moved[i] + m <= Len(c)
                             /\ c[moved[i] + m] = G[i][m]
  <2> TAKE i \in k + d .. Len(G)
  <2> TAKE m \in 1 .. Len(G[i])
  <2>1. /\ i - d \in k .. Len(F) /\ G[i] = F[i - d] /\ moved[i] = begin[i - d]
    BY <1>7
  <2>2. m \in 1 .. Len(F[i - d])
    BY <2>1
  <2>3. begin[i - d] + m >= 1 => /\ begin[i - d] + m <= Len(c)
                                 /\ c[begin[i - d] + m] = F[i - d][m]
    BY <1>1, <2>1, <2>2 DEF Marks
  <2> QED BY <2>1, <2>3
<1>10. Marks(moved, c, G, k + d, j)
  BY <1>5, <1>6, <1>8, <1>9 DEF Marks
<1> QED BY <1>3, <1>10 DEF Carries

-----------------------------------------------------------------------------
(* What the functions of the driver change.                                *)
-----------------------------------------------------------------------------
Fields ==
  {"tx", "rx", "mode", "reqFrameIdx", "bytes_transmitted", "tx_pkt_len",
   "total_bytes_transmitted", "isPacket", "uart", "frames", "garbled",
   "astray", "commands", "forged"}

IsDriver(s) ==
  /\ DOMAIN s = Fields /\ s = [n \in Fields |-> s[n]]
  /\ s.mode \in {"OFF", "INPUT", "OUTPUT"}

(* What the invariant depends on, but for frames, tx and astray.           *)
SameSending(r, s) ==
  /\ r.mode = s.mode /\ r.reqFrameIdx = s.reqFrameIdx
  /\ r.bytes_transmitted = s.bytes_transmitted
  /\ r.tx_pkt_len = s.tx_pkt_len
  /\ r.uart = s.uart /\ r.garbled = s.garbled

SameCore(r, s) ==
  /\ SameSending(r, s)
  /\ r.tx = s.tx /\ r.frames = s.frames

LEMMA SameCoreTransitive ==
  ASSUME NEW q, NEW r, NEW s, SameCore(q, r), SameCore(r, s)
  PROVE  SameCore(q, s)
BY DEF SameCore, SameSending

(* Only what broke the framing first is noted.                             *)
LEMMA AstrayFields ==
  ASSUME NEW s, IsDriver(s), NEW cause, cause # "no", NEW condition
  PROVE  LET r == Astray(s, cause, condition)
         IN /\ IsDriver(r) /\ SameCore(r, s)
            /\ r.astray = "no" => s.astray = "no" /\ ~condition
<1>1. CASE condition /\ s.astray = "no"
  <2>1. Astray(s, cause, condition) = [s EXCEPT !.astray = cause]
    BY <1>1 DEF Astray
  <2> QED BY <2>1 DEF IsDriver, Fields, SameCore, SameSending
<1>2. CASE ~(condition /\ s.astray = "no")
  <2>1. Astray(s, cause, condition) = s
    BY <1>2 DEF Astray
  <2> QED BY <1>2, <2>1 DEF SameCore, SameSending
<1> QED BY <1>1, <1>2

(* Only the frames to read change, as long as the host reads them.         *)
LEMMA DueFields ==
  ASSUME NEW s, IsDriver(s), NEW frames
  PROVE  LET r == Due(s, frames)
         IN /\ IsDriver(r) /\ SameSending(r, s)
            /\ r.tx = s.tx /\ r.astray = s.astray
            /\ ~s.garbled => r.frames = frames
<1>1. CASE s.garbled
  BY <1>1 DEF Due, SameSending
<1>2. CASE ~s.garbled
  <2>1. Due(s, frames) = [s EXCEPT !.frames = frames]
    BY <1>2 DEF Due
  <2> QED BY <2>1 DEF IsDriver, Fields, SameSending
<1> QED BY <1>1, <1>2

(* A byte is given to the UART.                                            *)
LEMMA WriteFields ==
  ASSUME NEW s, IsDriver(s), NEW byte
  PROVE  LET r == uart_writeByte(s, byte)
         IN /\ IsDriver(r)
            /\ r.uart = Append(s.uart, byte)
            /\ r.mode = s.mode /\ r.reqFrameIdx = s.reqFrameIdx
            /\ r.bytes_transmitted = s.bytes_transmitted
            /\ r.tx_pkt_len = s.tx_pkt_len
            /\ r.garbled = s.garbled /\ r.tx = s.tx /\ r.frames = s.frames
            /\ r.astray = s.astray
BY DEF uart_writeByte, IsDriver, Fields

(* A frame is pushed, and is to be read after all others.                  *)
LEMMA PrintfFields ==
  ASSUME NEW s, IsDriver(s), NEW type, NEW data
  PROVE  LET r == openserial_printf(s, type, data)
             frame == Frame(type, data)
         IN /\ IsDriver(r) /\ SameSending(r, s)
            /\ r.tx = circular_buffer_pushes(s.tx, frame)
            /\ ~s.garbled => r.frames = Append(s.frames, frame)
            /\ r.astray = "no" =>
                 /\ s.astray = "no"
                 /\ ~(Len(frame) >= maxLen(s.tx) - s.tx.fill_level)
                 /\ frame[2] # START_FLAG
<1> DEFINE frame == Frame(type, data)
           due == Due(s, Append(s.frames, frame))
           fitting == Astray(due, "overflow",
                             Len(frame) >= maxLen(s.tx) - s.tx.fill_level)
           printed == Astray(fitting, "length", frame[2] = START_FLAG)
           r == openserial_printf(s, type, data)
<1>1. r = [printed EXCEPT !.tx = circular_buffer_pushes(@, frame),
                          !.isPacket = @ \/ type = SERIAL_MSG_PKT]
  BY Zenon DEF openserial_printf
<1> HIDE DEF frame
<1>2. /\ IsDriver(due) /\ SameSending(due, s)
      /\ due.tx = s.tx /\ due.astray = s.astray
      /\ ~s.garbled => due.frames = Append(s.frames, frame)
  BY DueFields
<1> HIDE DEF due
<1>3. /\ IsDriver(fitting) /\ SameCore(fitting, due)
      /\ fitting.astray = "no" =>
           /\ due.astray = "no"
           /\ ~(Len(frame) >= maxLen(s.tx) - s.tx.fill_level)
  BY <1>2, AstrayFields
<1> HIDE DEF fitting
<1>4. /\ IsDriver(printed) /\ SameCore(printed, fitting)
      /\ printed.astray = "no" =>
           fitting.astray = "no" /\ frame[2] # START_FLAG
  BY <1>3, AstrayFields
<1> HIDE DEF printed, r
<1>5. /\ IsDriver(r) /\ SameSending(r, printed)
      /\ r.tx = circular_buffer_pushes(printed.tx, frame)
      /\ r.frames = printed.frames /\ r.astray = printed.astray
  BY <1>1, <1>4 DEF IsDriver, Fields, SameSending
<1>6. SameCore(printed, due)
  BY <1>3, <1>4, SameCoreTransitive
<1>7. /\ SameSending(r, s)
      /\ r.tx = circular_buffer_pushes(s.tx, frame)
      /\ ~s.garbled => r.frames = Append(s.frames, frame)
  BY <1>2, <1>5, <1>6 DEF SameCore, SameSending
<1>8. r.astray = "no" =>
        /\ s.astray = "no"
        /\ ~(Len(frame) >= maxLen(s.tx) - s.tx.fill_level)
        /\ frame[2] # START_FLAG
  BY <1>2, <1>3, <1>4, <1>5
<1> QED BY <1>5, <1>7, <1>8 DEF r, frame

(* A frame printed is well framed if it fits into the ring and its length  *)
(* is not START_FLAG.                                                      *)
LEMMA FrameIsWellFramed ==
  ASSUME NEW type \in UINT8, NEW data \in Seq(UINT8)
  PROVE  /\ Len(Frame(type, data)) = Len(data) + 3
         /\ Frame(type, data)[1] = START_FLAG
         /\ Frame(type, data)[2] = Len(data) + 2
         /\ Frame(type, data)[3] = type
         /\ Len(Frame(type, data)) <= 255 /\ Frame(type, data)[2] # START_FLAG
              => Frame(type, data) \in WellFramed
<1> DEFINE f == Frame(type, data)
           head == <<START_FLAG, Len(data) + 2, type>>
<1>1. Len(data) \in Nat
  BY LenProperties
<1>2. START_FLAG \in Nat /\ type \in Nat
  BY FlagIsByte DEF UINT8
<1>3. head \in Seq(Nat) /\ data \in Seq(Nat)
  <2>1. UINT8 \subseteq Nat
    BY DEF UINT8
  <2>2. data \in Seq(Nat)
    BY <2>1, SeqMonotonic
  <2> QED BY <1>1, <1>2, <2>2
<1>4. /\ Len(head) = 3 /\ head[1] = START_FLAG
      /\ head[2] = Len(data) + 2 /\ head[3] = type
  OBVIOUS
<1>5. /\ f = head \o data
  BY DEF Frame
<1> HIDE DEF f, head
<1>6. /\ f \in Seq(Nat) /\ Len(f) = 3 + Len(data)
      /\ \A i \in 1 .. 3 + Len(data) :
           f[i] = IF i <= 3 THEN head[i] ELSE data[i - 3]
  <2>1. /\ head \o data \in Seq(Nat) /\ Len(head \o data) = Len(head) + Len(data)
        /\ \A i \in 1 .. Len(head) + Len(data) :
             (head \o data)[i] =
               IF i <= Len(head) THEN head[i] ELSE data[i - Len(head)]
    BY <1>3, ConcatProperties
  <2> QED BY <1>4, <1>5, <2>1
<1>7. f[1] = START_FLAG /\ f[2] = Len(data) + 2 /\ f[3] = type
  <2>1. 1 \in 1 .. 3 + Len(data) /\ 2 \in 1 .. 3 + Len(data)
        /\ 3 \in 1 .. 3 + Len(data)
    BY <1>1
  <2> QED BY <1>4, <1>6, <2>1
<1> DEFINE n == Len(data)
<1>8. ASSUME Len(f) <= 255, f[2] # START_FLAG
      PROVE  f \in WellFramed
  <2>0. n \in Nat /\ Len(f) = 3 + n /\ f[2] = n + 2
    BY <1>1, <1>6, <1>7
  <2> HIDE DEF n
  <2>1. ASSUME NEW i \in 1 .. 3 + Len(data)
        PROVE  f[i] \in UINT8
    <3>1. CASE i <= 3
      <4>1. i = 1 \/ i = 2 \/ i = 3
        BY <1>1, <3>1
      <4>2. n + 2 \in UINT8 /\ START_FLAG \in UINT8
        BY <1>8, <2>0, FlagIsByte DEF UINT8
      <4> QED BY <1>7, <2>0, <4>1, <4>2, FlagIsByte
    <3>2. CASE ~(i <= 3)
      <4>1. i - 3 \in 1 .. Len(data)
        BY <1>1, <3>2
      <4>2. data[i - 3] \in UINT8
        BY <4>1, ElementOfSeq
      <4> QED BY <1>6, <3>2, <4>2
    <3> QED BY <3>1, <3>2
  <2>2. f \in [1 .. 3 + Len(data) -> UINT8]
    <3>1. f \in [1 .. 3 + Len(data) -> Nat]
      BY <1>6, LenProperties
    <3> QED BY <2>1, <3>1
  <2>3. f \in Seq(UINT8)
    <3>1. 3 + Len(data) \in Nat
      BY <1>1
    <3> QED BY <2>2, <3>1, FunctionIsSeq
  <2>4. Len(f) \in 3 .. 255 /\ f[2] = Len(f) - 1
    BY <1>8, <2>0
  <2> QED BY <1>7, <1>8, <2>3, <2>4 DEF WellFramed
<1>9. Len(f) = Len(data) + 3
  BY <1>1, <1>6
<1> QED BY <1>7, <1>8, <1>9 DEF f

(* So is the request, which is three bytes long.                           *)
LEMMA RequestFrame ==
  /\ reqFrame \in WellFramed
  /\ Len(reqFrame) = 3
  /\ reqFrame[1] = START_FLAG /\ reqFrame[2] = 2
  /\ reqFrame[3] = REQUEST_FRAME
<1> DEFINE none == <<>>
<1>1. none \in Seq(UINT8) /\ Len(none) = 0
  OBVIOUS
<1>2. REQUEST_FRAME \in UINT8 /\ START_FLAG # 2
  BY FlagIsByte
<1>3. reqFrame = Frame(REQUEST_FRAME, none)
  BY DEF reqFrame
<1> HIDE DEF none
<1>4. /\ Len(reqFrame) = Len(none) + 3
      /\ reqFrame[1] = START_FLAG
      /\ reqFrame[2] = Len(none) + 2
      /\ reqFrame[3] = REQUEST_FRAME
      /\ Len(reqFrame) <= 255 /\ reqFrame[2] # START_FLAG
              => reqFrame \in WellFramed
  BY <1>1, <1>2, <1>3, FrameIsWellFramed
<1> QED BY <1>1, <1>2, <1>4

-----------------------------------------------------------------------------
(* Where the driver and the host are, and what keeps it so.                *)
-----------------------------------------------------------------------------
(* The line is silent, and all frames are in the ring.                     *)
Silent(s, p) ==
  /\ s.uart = <<>> /\ p = 0
  /\ Carries(Contents(s.tx), s.frames, 1, 0)

(* The last byte of a frame is being sent, the others are in the ring.     *)
Ending(s, p) ==
  /\ Len(s.frames) >= 1 /\ p + 1 = Len(s.frames[1])
  /\ s.uart = <<s.frames[1][p + 1]>>
  /\ Carries(Contents(s.tx), s.frames, 2, 0)

Asking(s, p) ==
  /\ Len(s.frames) >= 1 /\ s.frames[1] = reqFrame
  /\ s.reqFrameIdx = p /\ p < 3
  /\ s.uart = <<reqFrame[p + 1]>>
  /\ Carries(Contents(s.tx), s.frames, 2, 0)

Outputting(s, p) ==
  /\ Len(s.frames) >= 1 /\ p < Len(s.frames[1])
  /\ s.bytes_transmitted = p + 1
  /\ s.tx_pkt_len = Len(s.frames[1]) - 1
  /\ s.uart = <<s.frames[1][p + 1]>>
  /\ Carries(Contents(s.tx), s.frames, 1, p + 1)

(* The last byte of a frame is being sent and the first of the next is     *)
(* written.                                                                *)
EndingThen(s, p) ==
  /\ Len(s.frames) >= 2 /\ p + 1 = Len(s.frames[1])
  /\ s.uart = <<s.frames[1][p + 1], START_FLAG>>

ThenAsking(s, p) ==
  /\ EndingThen(s, p)
  /\ s.frames[2] = reqFrame /\ s.reqFrameIdx = 0
  /\ Carries(Contents(s.tx), s.frames, 3, 0)

ThenOutputting(s, p) ==
  /\ EndingThen(s, p)
  /\ s.bytes_transmitted = 1
  /\ s.tx_pkt_len = Len(s.frames[2]) - 1
  /\ Carries(Contents(s.tx), s.frames, 2, 1)

Phase(s, p) ==
  \/ s.mode = "OFF" /\ (Silent(s, p) \/ Ending(s, p))
  \/ s.mode = "INPUT" /\ \/ Silent(s, p) /\ s.reqFrameIdx = 3
                         \/ Asking(s, p)
                         \/ ThenAsking(s, p)
  \/ s.mode = "OUTPUT" /\ (Outputting(s, p) \/ ThenOutputting(s, p))

(* p bytes of the first frame are read, and if it is known, its length is  *)
(* l.                                                                      *)
Good(s, p, l) ==
  /\ ~s.garbled
  /\ s.frames \in Seq(WellFramed)
  /\ IsTx(s.tx)
  /\ p >= 2 => Len(s.frames) >= 1 /\ s.frames[1][2] = l
  /\ Phase(s, p)

DriverInv(s, p, l) == IsDriver(s) /\ (s.astray = "no" => Good(s, p, l))

(* What changes neither the output nor the frames keeps all of this.       *)
LEMMA CoreKeeps ==
  ASSUME NEW r, NEW s, NEW p, NEW l, Good(s, p, l), SameCore(r, s)
  PROVE  Good(r, p, l)
<1>1. /\ r.mode = s.mode /\ r.reqFrameIdx = s.reqFrameIdx
      /\ r.bytes_transmitted = s.bytes_transmitted
      /\ r.tx_pkt_len = s.tx_pkt_len
      /\ r.uart = s.uart /\ r.garbled = s.garbled
      /\ r.tx = s.tx /\ r.frames = s.frames
  BY DEF SameCore, SameSending
<1>2. Phase(s, p) => Phase(r, p)
  BY <1>1 DEF Phase, Silent, Ending, Asking, Outputting, ThenAsking,
              ThenOutputting, EndingThen
<1> QED BY <1>1, <1>2 DEF Good

(* r is s after frame was printed.                                         *)
Printed(r, s, frame) ==
  /\ IsDriver(r) /\ SameSending(r, s)
  /\ r.tx = circular_buffer_pushes(s.tx, frame)
  /\ ~s.garbled => r.frames = Append(s.frames, frame)
  /\ r.astray = "no" => /\ s.astray = "no"
                        /\ ~(Len(frame) >= maxLen(s.tx) - s.tx.fill_level)
                        /\ frame[2] # START_FLAG

(* Printing does, at any time, whatever is being sent and read,            *)
LEMMA PrintedKeeps ==
  ASSUME NEW r, NEW s, NEW p \in Nat, NEW l, NEW type \in UINT8,
         NEW data \in Seq(UINT8),
         DriverInv(s, p, l), Printed(r, s, Frame(type, data))
  PROVE  DriverInv(r, p, l)
<1> DEFINE f == Frame(type, data)
           c == Contents(s.tx)
           F == s.frames
<1> SUFFICES ASSUME r.astray = "no"
             PROVE  Good(r, p, l)
  BY DEF DriverInv, Printed
<1>1. /\ Good(s, p, l)
      /\ ~(Len(f) >= maxLen(s.tx) - s.tx.fill_level)
      /\ f[2] # START_FLAG
  BY DEF DriverInv, Printed
<1>2. /\ IsTx(s.tx) /\ F \in Seq(WellFramed) /\ Phase(s, p) /\ ~s.garbled
      /\ p >= 2 => Len(F) >= 1 /\ F[1][2] = l
  BY <1>1 DEF Good
<1>3. f \in WellFramed /\ f \in Seq(UINT8) /\ Len(f) <= TxSize - 1 - s.tx.fill_level
  <2>1. Len(f) \in Nat
    <3>1. Len(f) = Len(data) + 3 /\ Len(data) \in Nat
      BY FrameIsWellFramed, LenProperties
    <3> QED BY <3>1
  <2> HIDE DEF f
  <2>2. Len(f) < TxSize - s.tx.fill_level
    BY <1>1, <1>2, <2>1, MaxLenTx, TxTypes, TxSizeType
  <2>3. Len(f) <= 255 /\ Len(f) <= TxSize - 1 - s.tx.fill_level
    <3> DEFINE level == s.tx.fill_level
    <3>1. level \in Nat
      BY <1>2, TxTypes
    <3> HIDE DEF level
    <3>2. Len(f) < TxSize - level
      BY <2>2 DEF level
    <3>3. Len(f) <= 255 /\ Len(f) <= TxSize - 1 - level
      BY <2>1, <3>1, <3>2, TxSizeType, SMTT(30)
    <3> QED BY <3>3 DEF level
  <2>4. f \in WellFramed
    BY <1>1, <2>3, FrameIsWellFramed DEF f
  <2> QED BY <2>3, <2>4, FrameTypes
<1> HIDE DEF f
<1>4. /\ IsTx(r.tx)
      /\ Contents(r.tx) = c \o f
      /\ r.frames = Append(F, f)
      /\ SameSending(r, s)
  BY <1>2, <1>3, PushesOnTx DEF Printed, f
<1>5. c \in Seq(UINT8)
  BY <1>2, ContentsType
<1>6. /\ Len(F) \in Nat
      /\ r.frames \in Seq(WellFramed)
      /\ Len(r.frames) = Len(F) + 1
      /\ \A i \in 1 .. Len(F) : r.frames[i] = F[i]
  BY <1>2, <1>3, <1>4, AppendProperties, LenProperties
<1>7. ASSUME NEW k \in 1 .. Len(F) + 1, NEW j \in Nat, Carries(c, F, k, j)
      PROVE  Carries(Contents(r.tx), r.frames, k, j)
  BY <1>2, <1>3, <1>4, <1>5, <1>7, CarriesAppend
<1>8. /\ Len(F) >= 1 => Len(r.frames) >= 1 /\ r.frames[1] = F[1]
      /\ Len(F) >= 2 => Len(r.frames) >= 2 /\ r.frames[2] = F[2]
  BY <1>6
<1>9. /\ r.mode = s.mode /\ r.reqFrameIdx = s.reqFrameIdx
      /\ r.bytes_transmitted = s.bytes_transmitted
      /\ r.tx_pkt_len = s.tx_pkt_len
      /\ r.uart = s.uart /\ r.garbled = s.garbled
  BY <1>4 DEF SameSending
<1>10. Silent(s, p) => Silent(r, p)
  BY <1>6, <1>7, <1>9 DEF Silent
<1>11. Ending(s, p) => Ending(r, p)
  BY <1>6, <1>7, <1>8, <1>9, SMTT(30) DEF Ending
<1>12. Asking(s, p) => Asking(r, p)
  BY <1>6, <1>7, <1>8, <1>9 DEF Asking
<1>13. Outputting(s, p) => Outputting(r, p)
  BY <1>6, <1>7, <1>8, <1>9 DEF Outputting
<1>14. ASSUME EndingThen(s, p)
       PROVE  /\ EndingThen(r, p) /\ r.frames[2] = F[2]
              /\ 2 \in 1 .. Len(F) + 1 /\ 3 \in 1 .. Len(F) + 1
  BY <1>6, <1>8, <1>9, <1>14, SMTT(30) DEF EndingThen
<1>15. ThenAsking(s, p) => ThenAsking(r, p)
  BY <1>7, <1>9, <1>14 DEF ThenAsking
<1>16. ThenOutputting(s, p) => ThenOutputting(r, p)
  BY <1>7, <1>9, <1>14 DEF ThenOutputting
<1>17. Phase(r, p)
  BY <1>2, <1>9, <1>10, <1>11, <1>12, <1>13, <1>15, <1>16 DEF Phase
<1> QED BY <1>2, <1>4, <1>6, <1>8, <1>9, <1>17 DEF Good

(* whether it is a task that prints or the driver itself.                  *)
LEMMA PrintfKeeps ==
  ASSUME NEW s, NEW p \in Nat, NEW l, NEW type \in UINT8,
         NEW data \in Seq(UINT8), DriverInv(s, p, l)
  PROVE  DriverInv(openserial_printf(s, type, data), p, l)
<1>1. IsDriver(s)
  BY DEF DriverInv
<1>2. Printed(openserial_printf(s, type, data), s, Frame(type, data))
  BY <1>1, PrintfFields DEF Printed
<1> QED BY <1>2, PrintedKeeps

(* Nothing is cut short by what begins or stops now.                       *)
LEMMA NotMidway ==
  ASSUME NEW s, NEW p \in Nat, NEW l, Good(s, p, l), ~Midway(s)
  PROVE  Silent(s, p) \/ Ending(s, p)
<1>1. /\ s.frames \in Seq(WellFramed) /\ IsTx(s.tx) /\ Phase(s, p)
      /\ Contents(s.tx) \in Seq(UINT8)
  BY ContentsType, SMTT(30) DEF Good
<1>2. \A i \in 1 .. Len(s.frames) : Len(s.frames[i]) \in 3 .. 255
  BY <1>1, ElementOfSeq, FrameTypes
<1>3. /\ s.mode = "OUTPUT" => s.bytes_transmitted = s.tx_pkt_len + 1
      /\ s.mode = "INPUT" => ~(s.reqFrameIdx + 1 < 3)
  BY RequestFrame DEF Midway
<1>4. CASE s.mode = "INPUT" /\ Asking(s, p)
  BY <1>3, <1>4, RequestFrame DEF Asking, Ending
<1>5. CASE s.mode = "INPUT" /\ ThenAsking(s, p)
  BY <1>3, <1>5 DEF ThenAsking
<1>6. CASE s.mode = "OUTPUT" /\ Outputting(s, p)
  <2>1. p + 1 = Len(s.frames[1])
    BY <1>2, <1>3, <1>6 DEF Outputting
  <2>2. Carries(Contents(s.tx), s.frames, 1, Len(s.frames[1]))
    BY <1>6, <2>1 DEF Outputting
  <2>3. 1 \in 1 .. Len(s.frames)
    BY <1>1, <1>6, LenProperties DEF Outputting
  <2>4. Carries(Contents(s.tx), s.frames, 1 + 1, 0)
    BY <1>1, <2>2, <2>3, CarriesNext
  <2> QED BY <1>6, <2>1, <2>4, SMTT(30) DEF Outputting, Ending
<1>7. CASE s.mode = "OUTPUT" /\ ThenOutputting(s, p)
  <2>1. 2 \in 1 .. Len(s.frames)
    BY <1>1, <1>7, LenProperties, SMTT(30) DEF ThenOutputting, EndingThen
  <2> DEFINE length == Len(s.frames[2])
  <2>2. length \in 3 .. 255
    BY <1>2, <2>1
  <2>3. 1 = (length - 1) + 1
    BY <1>3, <1>7 DEF ThenOutputting
  <2> HIDE DEF length
  <2>4. FALSE
    BY <2>2, <2>3
  <2> QED BY <2>4
<1> QED BY <1>1, <1>4, <1>5, <1>6, <1>7 DEF Phase

(* A frame that is read before those in the ring leaves them where they    *)
(* are.                                                                    *)
LEMMA CarriesInsert ==
  ASSUME NEW c \in Seq(UINT8), NEW F \in Seq(WellFramed),
         NEW G \in Seq(WellFramed), Len(G) = Len(F) + 1,
         NEW k \in 1 .. Len(F) + 1,
         \A i \in k .. Len(F) : G[i + 1] = F[i],
         Carries(c, F, k, 0)
  PROVE  Carries(c, G, k + 1, 0)
<1> SUFFICES ASSUME NEW d \in Int, d = 1, NEW j \in Nat, j = 0
             PROVE  Carries(c, G, k + d, j)
  OBVIOUS
<1>1. /\ k + d >= 1 /\ Len(G) = Len(F) + d
      /\ \A i \in k .. Len(F) : G[i + d] = F[i]
      /\ Carries(c, F, k, j)
  BY LenProperties
<1> QED BY <1>1, CarriesShift

LEMMA AppendToOne ==
  ASSUME NEW x, NEW y
  PROVE  Append(<<x>>, y) = <<x, y>>
<1> DEFINE S == {x, y}
           one == <<x>>
           two == <<x, y>>
<1>1. /\ one \in Seq(S) /\ Len(one) = 1 /\ one[1] = x
      /\ two \in Seq(S) /\ Len(two) = 2 /\ two[1] = x /\ two[2] = y
      /\ y \in S
  OBVIOUS
<1> HIDE DEF S, one, two
<1>2. /\ Append(one, y) \in Seq(S) /\ Len(Append(one, y)) = Len(one) + 1
      /\ \A i \in 1 .. Len(one) : Append(one, y)[i] = one[i]
      /\ Append(one, y)[Len(one) + 1] = y
  <2>1. one \in Seq(S) /\ y \in S
    BY <1>1
  <2> QED BY <2>1, AppendProperties
<1>3. /\ Len(Append(one, y)) = 2
      /\ Append(one, y)[1] = x /\ Append(one, y)[2] = y
  BY <1>1, <1>2
<1>4. \A i \in 1 .. 2 : Append(one, y)[i] = two[i]
  <2> TAKE i \in 1 .. 2
  <2>1. i = 1 \/ i = 2
    OBVIOUS
  <2> QED BY <1>1, <1>3, <2>1
<1>5. Append(one, y) = two
  BY <1>1, <1>2, <1>3, <1>4, SeqEqual
<1> QED BY <1>5 DEF one, two

(* openserial_startInput in fields.                                        *)
LEMMA StartInputFields ==
  ASSUME NEW s, IsDriver(s)
  PROVE  LET r == openserial_startInput(s)
         IN /\ IsDriver(r)
            /\ r.mode = "INPUT" /\ r.reqFrameIdx = 0
            /\ r.uart = Append(s.uart, START_FLAG)
            /\ r.garbled = s.garbled /\ r.tx = s.tx /\ r.astray = s.astray
            /\ ~s.garbled => r.frames = RequestedIn(s)
<1> DEFINE due == Due(s, RequestedIn(s))
           begun == [due EXCEPT !.mode = "INPUT", !.reqFrameIdx = 0,
                                !.bytes_transmitted = 0, !.tx_pkt_len = 0]
           r == uart_writeByte(begun, reqFrame[1])
<1>1. openserial_startInput(s) = r
  BY Zenon DEF openserial_startInput
<1>2. /\ IsDriver(due) /\ SameSending(due, s)
      /\ due.tx = s.tx /\ due.astray = s.astray
      /\ ~s.garbled => due.frames = RequestedIn(s)
  BY DueFields
<1> HIDE DEF due
<1>3. /\ IsDriver(begun)
      /\ begun.mode = "INPUT" /\ begun.reqFrameIdx = 0
      /\ begun.uart = due.uart /\ begun.garbled = due.garbled
      /\ begun.tx = due.tx /\ begun.astray = due.astray
      /\ begun.frames = due.frames
  BY <1>2 DEF IsDriver, Fields
<1> HIDE DEF begun
<1>4. /\ IsDriver(r)
      /\ r.uart = Append(begun.uart, reqFrame[1])
      /\ r.mode = begun.mode /\ r.reqFrameIdx = begun.reqFrameIdx
      /\ r.garbled = begun.garbled /\ r.tx = begun.tx
      /\ r.frames = begun.frames /\ r.astray = begun.astray
  BY <1>3, WriteFields
<1> HIDE DEF r
<1>5. reqFrame[1] = START_FLAG
  BY RequestFrame
<1> QED BY <1>1, <1>2, <1>3, <1>4, <1>5 DEF SameSending

(* The request is read next, or after the frame being sent, and before     *)
(* those in the ring.                                                      *)
LEMMA StartInputKeeps ==
  ASSUME NEW s, NEW p \in Nat, NEW l, DriverInv(s, p, l), s.mode = "OFF"
  PROVE  DriverInv(openserial_startInput(s), p, l)
<1> DEFINE r == openserial_startInput(s)
           F == s.frames
           G == r.frames
           c == Contents(s.tx)
<1>1. /\ IsDriver(r)
      /\ r.mode = "INPUT" /\ r.reqFrameIdx = 0
      /\ r.uart = Append(s.uart, START_FLAG)
      /\ r.garbled = s.garbled /\ r.tx = s.tx /\ r.astray = s.astray
      /\ ~s.garbled => G = RequestedIn(s)
  BY StartInputFields DEF DriverInv
<1> SUFFICES ASSUME s.astray = "no"
             PROVE  Good(r, p, l)
  BY <1>1 DEF DriverInv
<1> HIDE DEF r
<1>2. /\ ~s.garbled /\ F \in Seq(WellFramed) /\ IsTx(s.tx)
      /\ p >= 2 => Len(F) >= 1 /\ F[1][2] = l
      /\ Silent(s, p) \/ Ending(s, p)
  BY DEF DriverInv, Good, Phase
<1>3. G = RequestedIn(s) /\ c \in Seq(UINT8)
      /\ reqFrame \in WellFramed /\ Len(F) \in Nat
  BY <1>1, <1>2, ContentsType, RequestFrame, LenProperties
<1>4. CASE Silent(s, p)
  <2>1. G = <<reqFrame>> \o F
    BY <1>3, <1>4 DEF RequestedIn, Silent
  <2>2. <<reqFrame>> \in Seq(WellFramed) /\ Len(<<reqFrame>>) = 1
    BY <1>3
  <2>3. /\ G \in Seq(WellFramed) /\ Len(G) = Len(F) + 1
        /\ G[1] = reqFrame
        /\ \A i \in 1 .. Len(F) : G[i + 1] = F[i]
    <3>1. /\ <<reqFrame>> \o F \in Seq(WellFramed)
          /\ Len(<<reqFrame>> \o F) = 1 + Len(F)
          /\ \A i \in 1 .. 1 + Len(F) : (<<reqFrame>> \o F)[i] =
               IF i <= 1 THEN <<reqFrame>>[i] ELSE F[i - 1]
      <4> DEFINE q == <<reqFrame>>
      <4>1. q \in Seq(WellFramed) /\ Len(q) = 1
        BY <2>2
      <4> HIDE DEF q
      <4>2. /\ q \o F \in Seq(WellFramed)
            /\ Len(q \o F) = Len(q) + Len(F)
            /\ \A i \in 1 .. Len(q) + Len(F) : (q \o F)[i] =
                 IF i <= Len(q) THEN q[i] ELSE F[i - Len(q)]
        BY <1>2, <4>1, ConcatProperties, ZenonT(30)
      <4> QED BY <4>1, <4>2 DEF q
    <3>2. 1 \in 1 .. 1 + Len(F) /\ <<reqFrame>>[1] = reqFrame
      BY <1>3
    <3>3. ASSUME NEW i \in 1 .. Len(F)
          PROVE  G[i + 1] = F[i]
      <4>1. i + 1 \in 1 .. 1 + Len(F) /\ ~(i + 1 <= 1) /\ (i + 1) - 1 = i
        BY <1>3
      <4> QED BY <2>1, <3>1, <4>1
    <3> QED BY <1>3, <2>1, <3>1, <3>2, <3>3
  <2>4. Carries(c, G, 1 + 1, 0)
    <3>1. 1 \in 1 .. Len(F) + 1 /\ 1 + 1 >= 1 /\ Len(G) = Len(F) + 1
      BY <1>3, <2>3
    <3>2. Carries(c, F, 1, 0)
      BY <1>4 DEF Silent
    <3> QED BY <1>2, <1>3, <2>3, <3>1, <3>2, CarriesInsert
  <2>5. Asking(r, p)
    <3>1. r.uart = <<START_FLAG>> /\ p = 0
      BY <1>1, <1>4 DEF Silent
    <3>2. Len(G) >= 1
      BY <1>3, <2>3
    <3> QED BY <1>1, <2>3, <2>4, <3>1, <3>2, RequestFrame DEF Asking
  <2>6. ~(p >= 2)
    BY <1>4 DEF Silent
  <2> QED BY <1>1, <1>2, <2>3, <2>5, <2>6 DEF Good, Phase
<1>5. CASE Ending(s, p)
  <2>0. /\ Len(F) >= 1 /\ p + 1 = Len(F[1]) /\ s.uart = <<F[1][p + 1]>>
        /\ Carries(c, F, 2, 0)
    BY <1>5 DEF Ending
  <2>1. /\ F # <<>> /\ s.uart # <<>>
    BY <2>0
  <2>2. G = <<Head(F), reqFrame>> \o Tail(F)
    BY <1>3, <2>1 DEF RequestedIn
  <2>3. /\ Head(F) = F[1] /\ Head(F) \in WellFramed
        /\ Tail(F) \in Seq(WellFramed) /\ Len(Tail(F)) = Len(F) - 1
        /\ \A i \in 1 .. Len(F) - 1 : Tail(F)[i] = F[i + 1]
    <3>1. /\ Head(F) \in WellFramed
          /\ Tail(F) \in Seq(WellFramed) /\ Len(Tail(F)) = Len(F) - 1
          /\ \A i \in 1 .. Len(Tail(F)) : Tail(F)[i] = F[i + 1]
      BY <1>2, <2>1, HeadTailProperties
    <3>2. Head(F) = F[1]
      BY <1>2, <2>1
    <3> QED BY <3>1, <3>2
  <2>4. /\ G \in Seq(WellFramed) /\ Len(G) = Len(F) + 1
        /\ G[1] = F[1] /\ G[2] = reqFrame
        /\ \A i \in 2 .. Len(F) : G[i + 1] = F[i]
    <3> DEFINE q == <<Head(F), reqFrame>>
               rest == Tail(F)
    <3>1. q \in Seq(WellFramed) /\ Len(q) = 2 /\ q[1] = F[1] /\ q[2] = reqFrame
      BY <1>3, <2>3
    <3> HIDE DEF q
    <3>2. /\ q \o rest \in Seq(WellFramed)
          /\ Len(q \o rest) = Len(q) + Len(rest)
          /\ \A i \in 1 .. Len(q) + Len(rest) : (q \o rest)[i] =
               IF i <= Len(q) THEN q[i] ELSE rest[i - Len(q)]
      BY <2>3, <3>1, ConcatProperties
    <3>3. G = q \o rest
      BY <2>2 DEF q
    <3>4. /\ Len(q) + Len(rest) = Len(F) + 1
          /\ 1 \in 1 .. Len(F) + 1 /\ 2 \in 1 .. Len(F) + 1
      BY <1>3, <2>0, <2>3, <3>1
    <3>5. ASSUME NEW i \in 2 .. Len(F)
          PROVE  G[i + 1] = F[i]
      <4>1. i + 1 \in 1 .. Len(F) + 1 /\ ~(i + 1 <= 2) /\ (i + 1) - 2 = i - 1
            /\ i - 1 \in 1 .. Len(F) - 1 /\ (i - 1) + 1 = i
        BY <1>3
      <4>2. G[i + 1] = rest[i - 1]
        BY <3>1, <3>2, <3>3, <3>4, <4>1
      <4>3. rest[i - 1] = F[(i - 1) + 1]
        BY <2>3, <4>1
      <4> QED BY <4>1, <4>2, <4>3
    <3> HIDE DEF rest
    <3> QED BY <3>1, <3>2, <3>3, <3>4, <3>5
  <2>5. Carries(c, G, 2 + 1, 0)
    <3>1. 2 \in 1 .. Len(F) + 1 /\ 2 + 1 >= 1 /\ Len(G) = Len(F) + 1
      BY <1>3, <2>0, <2>4
    <3>2. Carries(c, F, 2, 0)
      BY <2>0
    <3>3. G \in Seq(WellFramed) /\ \A i \in 2 .. Len(F) : G[i + 1] = F[i]
      BY <2>4
    <3> HIDE DEF F, G, c
    <3> QED BY <1>2, <1>3, <3>1, <3>2, <3>3, CarriesInsert
  <2>6. r.uart = <<G[1][p + 1], START_FLAG>>
    <3> DEFINE byte == F[1][p + 1]
    <3>1. r.uart = Append(<<byte>>, START_FLAG)
      BY <1>1, <2>0
    <3>2. Append(<<byte>>, START_FLAG) = <<byte, START_FLAG>>
      BY AppendToOne
    <3> QED BY <2>4, <3>1, <3>2
  <2>7. Len(G) >= 2
    BY <1>3, <2>0, <2>4
  <2>8. ThenAsking(r, p)
    <3>1. Carries(c, G, 3, 0)
      BY <2>5
    <3>2. EndingThen(r, p)
      BY <2>0, <2>4, <2>6, <2>7 DEF EndingThen
    <3> QED BY <1>1, <2>4, <3>1, <3>2 DEF ThenAsking
  <2>9. p >= 2 => Len(G) >= 1 /\ G[1][2] = l
    BY <1>2, <1>3, <2>4, SMTT(30)
  <2> QED BY <1>1, <1>2, <2>4, <2>8, <2>9 DEF Good, Phase
<1> QED BY <1>2, <1>4, <1>5

(* A ring that is not empty begins with a whole frame.                     *)
LEMMA WholeFrameIsIn ==
  ASSUME NEW s, NEW F \in Seq(WellFramed), NEW k \in 1 .. Len(F) + 1,
         IsTx(s.tx), Carries(Contents(s.tx), F, k, 0)
  PROVE  /\ s.tx.fill_level > 0 => k \in 1 .. Len(F)
         /\ k \in 1 .. Len(F) =>
              /\ s.tx.fill_level >= Len(F[k]) /\ Len(F[k]) \in 3 .. 255
              /\ Contents(s.tx)[1] = START_FLAG
              /\ Contents(s.tx)[2] = Len(F[k]) - 1
<1> DEFINE c == Contents(s.tx)
<1>1. c \in Seq(UINT8) /\ Len(c) = s.tx.fill_level /\ Len(F) \in Nat
  BY ContentsType, LenProperties
<1>2. s.tx.fill_level > 0 => k \in 1 .. Len(F)
  <2>1. k = Len(F) + 1 => Len(c) = 0
    BY <1>1, CarriesEnd, SMTT(30)
  <2> QED BY <1>1, <2>1
<1>3. ASSUME k \in 1 .. Len(F)
      PROVE  /\ s.tx.fill_level >= Len(F[k]) /\ Len(F[k]) \in 3 .. 255
             /\ c[1] = START_FLAG /\ c[2] = Len(F[k]) - 1
  <2>1. /\ Len(F[k]) \in 3 .. 255 /\ F[k][1] = START_FLAG
        /\ F[k][2] = Len(F[k]) - 1
    BY <1>3, ElementOfSeq, FrameTypes, SMTT(30)
  <2>2. 0 <= Len(F[k])
    BY <2>1, SMTT(30)
  <2>3. /\ Len(c) >= Len(F[k]) - 0
        /\ \A m \in 1 .. Len(F[k]) - 0 : c[m] = F[k][0 + m]
    BY <1>1, <1>3, <2>2, CarriesWhole, SMTT(30)
  <2> DEFINE length == Len(F[k])
  <2>4. length \in 3 .. 255
    BY <2>1
  <2> HIDE DEF length
  <2>5. 1 \in 1 .. length - 0 /\ 2 \in 1 .. length - 0 /\ length - 0 = length
    BY <2>4
  <2>6. Len(c) >= length
    BY <2>3, <2>5 DEF length
  <2>7. c[1] = F[k][0 + 1] /\ c[2] = F[k][0 + 2]
    BY <2>3, <2>5 DEF length
  <2> QED BY <1>1, <2>1, <2>6, <2>7, SMTT(30) DEF length
<1> QED BY <1>2, <1>3

(* openserial_startOutput begins with the first frame of the ring, and     *)
(* with the report of its delay behind it.                                 *)
LEMMA StartOutputKeeps ==
  ASSUME NEW s, NEW p \in Nat, NEW l, NEW beyond, DriverInv(s, p, l)
  PROVE  /\ DriverInv(openserial_startOutput(s, beyond), p, l)
         /\ WholeFrame(s.tx, beyond) =>
              openserial_startOutput(s, beyond).mode = "OUTPUT"
<1>1. CASE ~WholeFrame(s.tx, beyond)
  BY <1>1 DEF openserial_startOutput
<1>2. CASE WholeFrame(s.tx, beyond)
  <2> DEFINE ring == circular_buffer_pop(s.tx)
             checked == Astray(s, "cut", Midway(s))
             begun == [checked EXCEPT
                         !.mode = "OUTPUT", !.tx = ring,
                         !.bytes_transmitted = 1,
                         !.total_bytes_transmitted = 1,
                         !.tx_pkt_len = ring.buffer[ring.tail]]
             packet == [begun EXCEPT !.isPacket = FALSE]
             delay == <<0, 0>>
             report == openserial_printf(packet, SERIAL_MSG_DEB, delay)
             byte == Popped(s.tx)
             r == openserial_startOutput(s, beyond)
             w == uart_writeByte(begun, byte)
  <2>1. r = uart_writeByte(IF s.isPacket THEN report ELSE begun, byte)
    BY <1>2, Zenon DEF openserial_startOutput
  <2> HIDE DEF r
  <2>2. IsDriver(s) /\ s.tx.fill_level > 0
    BY <1>2 DEF DriverInv, WholeFrame
  <2>3. /\ IsDriver(checked) /\ SameCore(checked, s)
        /\ checked.astray = "no" => s.astray = "no" /\ ~Midway(s)
    BY <2>2, AstrayFields
  <2> HIDE DEF checked, ring
  <2>4. /\ IsDriver(begun)
        /\ begun.mode = "OUTPUT" /\ begun.tx = ring
        /\ begun.bytes_transmitted = 1
        /\ begun.tx_pkt_len = ring.buffer[ring.tail]
        /\ begun.uart = checked.uart /\ begun.frames = checked.frames
        /\ begun.garbled = checked.garbled /\ begun.astray = checked.astray
    BY <2>3 DEF IsDriver, Fields
  <2> HIDE DEF begun
  <2>5. /\ IsDriver(w)
        /\ w.uart = Append(begun.uart, byte)
        /\ w.mode = begun.mode /\ w.reqFrameIdx = begun.reqFrameIdx
        /\ w.bytes_transmitted = begun.bytes_transmitted
        /\ w.tx_pkt_len = begun.tx_pkt_len
        /\ w.garbled = begun.garbled /\ w.tx = begun.tx
        /\ w.frames = begun.frames /\ w.astray = begun.astray
    BY <2>4, WriteFields
  <2> HIDE DEF w, byte
  <2>6. DriverInv(w, p, l)
    <3> SUFFICES ASSUME w.astray = "no"
                 PROVE  Good(w, p, l)
      BY <2>5 DEF DriverInv
    <3> DEFINE F == s.frames
               c == Contents(s.tx)
    <3>1. /\ Good(s, p, l) /\ ~Midway(s)
      BY <2>3, <2>4, <2>5 DEF DriverInv
    <3>2. /\ ~s.garbled /\ F \in Seq(WellFramed) /\ IsTx(s.tx)
          /\ p >= 2 => Len(F) >= 1 /\ F[1][2] = l
          /\ c \in Seq(UINT8) /\ Len(F) \in Nat
      BY <3>1, ContentsType, LenProperties DEF Good
    <3>3. Silent(s, p) \/ Ending(s, p)
      BY <3>1, NotMidway
    <3>4. /\ w.uart = Append(s.uart, byte) /\ w.mode = "OUTPUT"
          /\ w.bytes_transmitted = 1 /\ w.tx_pkt_len = ring.buffer[ring.tail]
          /\ ~w.garbled /\ w.tx = ring /\ w.frames = F
      BY <2>3, <2>4, <2>5, <3>2 DEF SameCore, SameSending
    <3>5. /\ IsTx(ring) /\ Contents(ring) = Tail(c) /\ byte = c[1]
          /\ s.tx.fill_level >= 2 => ring.buffer[ring.tail] = c[2]
      BY <2>2, <3>2, PopOfTx DEF ring, byte
    <3> HIDE DEF c, F
    <3>6. ASSUME NEW k \in 1 .. Len(F) + 1, Carries(c, F, k, 0)
          PROVE  /\ k \in 1 .. Len(F)
                 /\ byte = START_FLAG
                 /\ ring.buffer[ring.tail] = Len(F[k]) - 1
                 /\ Carries(Contents(ring), F, k, 1)
      <4>1. k \in 1 .. Len(F)
        BY <2>2, <3>2, <3>6, WholeFrameIsIn DEF c
      <4>2. /\ s.tx.fill_level >= Len(F[k]) /\ Len(F[k]) \in 3 .. 255
            /\ c[1] = START_FLAG /\ c[2] = Len(F[k]) - 1
        BY <3>2, <3>6, <4>1, WholeFrameIsIn DEF c
      <4>3. s.tx.fill_level >= 2
        <5> DEFINE length == Len(F[k])
                   level == s.tx.fill_level
        <5>1. level >= length /\ length \in 3 .. 255 /\ level \in Nat
          BY <3>2, <4>2, TxTypes
        <5> HIDE DEF length, level
        <5>2. level >= 2
          BY <5>1
        <5> QED BY <5>2, SMTT(30) DEF level
      <4>4. Carries(Tail(c), F, k, 0 + 1)
        <5> DEFINE length == Len(F[k])
        <5>0. length \in 3 .. 255
          BY <4>2
        <5>1. 0 < length
          <6> HIDE DEF length
          <6> QED BY <5>0
        <5> QED BY <3>2, <3>6, <4>1, <5>1, CarriesTail
      <4> QED BY <3>5, <4>1, <4>2, <4>3, <4>4, SMTT(30)
    <3>7. CASE Silent(s, p)
      <4>1. s.uart = <<>> /\ p = 0 /\ Carries(c, F, 1, 0)
        BY <3>7 DEF Silent, c, F
      <4>2. 1 \in 1 .. Len(F) + 1
        BY <3>2
      <4>3. /\ 1 \in 1 .. Len(F) /\ byte = START_FLAG
            /\ ring.buffer[ring.tail] = Len(F[1]) - 1
            /\ Carries(Contents(ring), F, 1, 1)
        BY <3>6, <4>1, <4>2, SMTT(30)
      <4>4. Len(F[1]) \in 3 .. 255 /\ F[1][1] = START_FLAG
        BY <3>2, <4>3, ElementOfSeq, FrameTypes
      <4>5. /\ w.uart = <<F[1][p + 1]>> /\ p < Len(F[1]) /\ 1 = p + 1
            /\ Len(F) >= 1
        BY <3>4, <4>1, <4>3, <4>4, SMTT(30)
      <4>6. Outputting(w, p)
        BY <3>4, <4>1, <4>3, <4>5 DEF Outputting
      <4> QED BY <3>2, <3>4, <3>5, <4>1, <4>6 DEF Good, Phase
    <3>8. CASE Ending(s, p)
      <4>1. /\ Len(F) >= 1 /\ p + 1 = Len(F[1])
            /\ s.uart = <<F[1][p + 1]>> /\ Carries(c, F, 2, 0)
        BY <3>8 DEF Ending, c, F
      <4>2. 2 \in 1 .. Len(F) + 1
        BY <3>2, <4>1
      <4>3. /\ 2 \in 1 .. Len(F) /\ byte = START_FLAG
            /\ ring.buffer[ring.tail] = Len(F[2]) - 1
            /\ Carries(Contents(ring), F, 2, 1)
        BY <3>6, <4>1, <4>2
      <4>4. w.uart = <<F[1][p + 1], START_FLAG>>
        BY <3>4, <4>1, <4>3, AppendToOne
      <4>5. Len(F) >= 2
        BY <3>2, <4>3
      <4>6. EndingThen(w, p)
        BY <3>4, <4>1, <4>4, <4>5 DEF EndingThen
      <4>7. ThenOutputting(w, p)
        BY <3>4, <4>3, <4>6 DEF ThenOutputting
      <4> QED BY <3>2, <3>4, <3>5, <4>7 DEF Good, Phase
    <3> QED BY <3>3, <3>7, <3>8
  <2>7. w.mode = "OUTPUT"
    BY <2>4, <2>5
  <2>8. CASE ~s.isPacket
    BY <2>1, <2>6, <2>7, <2>8 DEF w, r
  <2>9. CASE s.isPacket
    <3>1. r = uart_writeByte(report, byte)
      BY <2>1, <2>9
    <3>2. /\ IsDriver(packet) /\ SameCore(packet, begun)
          /\ packet.astray = begun.astray
      BY <2>4 DEF IsDriver, Fields, SameCore, SameSending
    <3> HIDE DEF packet, delay
    <3>3. Printed(report, packet, Frame(SERIAL_MSG_DEB, delay))
      BY <3>2, PrintfFields DEF Printed
    <3> HIDE DEF report
    <3>4. /\ IsDriver(r)
          /\ r.uart = Append(report.uart, byte)
          /\ r.mode = report.mode /\ r.reqFrameIdx = report.reqFrameIdx
          /\ r.bytes_transmitted = report.bytes_transmitted
          /\ r.tx_pkt_len = report.tx_pkt_len
          /\ r.garbled = report.garbled /\ r.tx = report.tx
          /\ r.frames = report.frames /\ r.astray = report.astray
      BY <3>1, <3>3, WriteFields DEF Printed
    <3>5. SameSending(r, w)
      BY <2>5, <3>2, <3>3, <3>4 DEF Printed, SameCore, SameSending
    <3>6. Printed(r, w, Frame(SERIAL_MSG_DEB, delay))
      BY <2>5, <3>2, <3>3, <3>4, <3>5 DEF Printed, SameCore, SameSending
    <3>7. delay \in Seq(UINT8) /\ SERIAL_MSG_DEB \in UINT8
      BY FlagIsByte DEF delay, UINT8
    <3>8. DriverInv(r, p, l)
      BY <2>6, <3>6, <3>7, PrintedKeeps
    <3>9. r.mode = "OUTPUT"
      BY <2>7, <3>5 DEF SameSending
    <3> QED BY <3>8, <3>9 DEF r
  <2> QED BY <2>8, <2>9
<1> QED BY <1>1, <1>2

(* A command adds at most a response.                                      *)
LEMMA HandleCommandsKeeps ==
  ASSUME NEW s, NEW p \in Nat, NEW l, NEW beyond, DriverInv(s, p, l)
  PROVE  /\ DriverInv(openserial_handleCommands(s, beyond), p, l)
         /\ openserial_handleCommands(s, beyond).mode = s.mode
<1> DEFINE Rx(i) == At(s.rx, s.rx.tail + i, beyond)
           length == Rx(0)
           command == [i \in 1 .. Max({2, length - 3}) |-> Rx(i)]
           control == command[1] = CONTROL_COMMAND
           sent == {i \in DOMAIN s.commands : s.commands[i] = command}
           taken == IF sent = {}
                    THEN [s EXCEPT !.forged = @ \cup {length}]
                    ELSE [s EXCEPT !.commands =
                                     SubSeq(@, Min(sent) + 1, Len(@))]
           response == <<command[1], command[2], 0>>
           r == openserial_handleCommands(s, beyond)
<1>1. r = CASE control /\ command[2] \in Queries ->
                 openserial_printf(taken, SERIAL_MSG_RSP, response)
            [] \/ control /\ command[2] \in control_commands \ Queries
               \/ command[1] = DATA_COMMAND /\ command[2] = 0 -> taken
            [] OTHER -> s
  BY Zenon DEF openserial_handleCommands
<1> HIDE DEF r, command, sent, length
<1>2. IsDriver(taken) /\ SameCore(taken, s) /\ taken.astray = s.astray
  <2>1. IsDriver(s)
    BY DEF DriverInv
  <2>2. CASE sent = {}
    BY <2>1, <2>2 DEF IsDriver, Fields, SameCore, SameSending
  <2>3. CASE sent # {}
    BY <2>1, <2>3 DEF IsDriver, Fields, SameCore, SameSending
  <2> QED BY <2>2, <2>3
<1> HIDE DEF taken
<1>3. DriverInv(taken, p, l) /\ taken.mode = s.mode
  BY <1>2, CoreKeeps DEF DriverInv, SameCore, SameSending
<1>4. CASE control /\ command[2] \in Queries
  <2>1. r = openserial_printf(taken, SERIAL_MSG_RSP, response)
    <3>1. /\ ~(command[2] \in control_commands \ Queries)
          /\ command[2] # 0
      BY <1>4 DEF Queries
    <3> HIDE DEF control, response
    <3> QED BY <1>1, <1>4, <3>1
  <2>2. response \in Seq(UINT8) /\ SERIAL_MSG_RSP \in UINT8
    BY <1>4, FlagIsByte DEF Queries, UINT8
  <2> HIDE DEF response
  <2>3. DriverInv(r, p, l)
    BY <1>3, <2>1, <2>2, PrintfKeeps
  <2>4. r.mode = taken.mode
    BY <1>2, <2>1, PrintfFields DEF SameSending
  <2> QED BY <1>3, <2>3, <2>4 DEF r
<1>5. CASE ~(control /\ command[2] \in Queries)
  <2>1. r = taken \/ r = s
    BY <1>1, <1>5
  <2> QED BY <1>3, <2>1 DEF r
<1> QED BY <1>4, <1>5

(* openserial_stop, with the command it executes or reports.               *)
LEMMA StopKeeps ==
  ASSUME NEW s, NEW p \in Nat, NEW l, NEW beyond, DriverInv(s, p, l)
  PROVE  /\ DriverInv(openserial_stop(s, beyond), p, l)
         /\ openserial_stop(s, beyond).mode = "OFF"
<1> DEFINE checked == Astray(s, "cut", Midway(s))
           stopped == [checked EXCEPT
                         !.mode = "OFF",
                         !.rx = IF @.buffer[@.tail] = START_FLAG
                                THEN circular_buffer_pop(@) ELSE @]
           received == Complete(s.rx.fill_level, stopped.rx)
           correct == verify_checksum(stopped.rx, beyond)
           commanded == openserial_handleCommands(stopped, beyond)
           none == <<0, 0>>
           wrong == openserial_printf(stopped, SERIAL_MSG_ERR, none)
           handled == CASE ~received -> stopped
                        [] received /\ correct -> commanded
                        [] received /\ ~correct -> wrong
           r == openserial_stop(s, beyond)
<1>1. r = [handled EXCEPT !.rx.head = 0, !.rx.tail = 0, !.rx.fill_level = 0]
  BY Zenon DEF openserial_stop
<1> HIDE DEF r
<1>2. /\ IsDriver(checked) /\ SameCore(checked, s)
      /\ checked.astray = "no" => s.astray = "no" /\ ~Midway(s)
  BY AstrayFields DEF DriverInv
<1> HIDE DEF checked
<1>3. /\ IsDriver(stopped) /\ stopped.mode = "OFF"
      /\ stopped.tx = checked.tx /\ stopped.frames = checked.frames
      /\ stopped.uart = checked.uart /\ stopped.garbled = checked.garbled
      /\ stopped.astray = checked.astray
  BY <1>2 DEF IsDriver, Fields
<1> HIDE DEF stopped
<1>4. DriverInv(stopped, p, l)
  <2> SUFFICES ASSUME stopped.astray = "no"
               PROVE  Good(stopped, p, l)
    BY <1>3 DEF DriverInv
  <2>1. Good(s, p, l) /\ ~Midway(s)
    BY <1>2, <1>3 DEF DriverInv
  <2>2. Silent(s, p) \/ Ending(s, p)
    BY <2>1, NotMidway
  <2>3. /\ stopped.tx = s.tx /\ stopped.frames = s.frames
        /\ stopped.uart = s.uart /\ stopped.garbled = s.garbled
    BY <1>2, <1>3 DEF SameCore, SameSending
  <2>4. Silent(stopped, p) \/ Ending(stopped, p)
    BY <2>2, <2>3 DEF Silent, Ending
  <2> QED BY <1>3, <2>1, <2>3, <2>4 DEF Good, Phase
<1>5. DriverInv(commanded, p, l) /\ commanded.mode = "OFF"
  BY <1>3, <1>4, HandleCommandsKeeps
<1>6. DriverInv(wrong, p, l) /\ wrong.mode = "OFF"
  <2>1. none \in Seq(UINT8) /\ SERIAL_MSG_ERR \in UINT8
    BY FlagIsByte DEF UINT8
  <2> HIDE DEF none
  <2> QED BY <1>3, <1>4, <2>1, PrintfKeeps, PrintfFields DEF SameSending
<1> HIDE DEF received, correct, commanded, wrong
<1>7. DriverInv(handled, p, l) /\ handled.mode = "OFF"
  <2>1. CASE ~received
    BY <1>3, <1>4, <2>1
  <2>2. CASE received /\ correct
    BY <1>5, <2>2
  <2>3. CASE received /\ ~correct
    BY <1>6, <2>3
  <2> QED BY <2>1, <2>2, <2>3
<1> HIDE DEF handled
<1>8. IsDriver(handled)
  BY <1>7 DEF DriverInv
<1>9. /\ IsDriver(r) /\ SameCore(r, handled) /\ r.astray = handled.astray
  BY <1>1, <1>8 DEF IsDriver, Fields, SameCore, SameSending
<1>10. DriverInv(r, p, l) /\ r.mode = "OFF"
  BY <1>7, <1>9, CoreKeeps DEF DriverInv, SameCore, SameSending
<1> QED BY <1>10 DEF r

-----------------------------------------------------------------------------
(* A byte is sent.                                                         *)
-----------------------------------------------------------------------------
(* The host has read the first frame, of which nothing is left in the      *)
(* ring.                                                                   *)
LEMMA CarriesRemove ==
  ASSUME NEW c \in Seq(UINT8), NEW F \in Seq(WellFramed), Len(F) >= 1,
         NEW k \in 2 .. Len(F) + 1, NEW j \in Nat, Carries(c, F, k, j)
  PROVE  /\ Tail(F) \in Seq(WellFramed) /\ Len(Tail(F)) = Len(F) - 1
         /\ \A i \in 1 .. Len(F) - 1 : Tail(F)[i] = F[i + 1]
         /\ Carries(c, Tail(F), k - 1, j)
<1> DEFINE d == 0 - 1
           G == Tail(F)
<1>0. d \in Int /\ d = 0 - 1
  OBVIOUS
<1> HIDE DEF d
<1>1. /\ G \in Seq(WellFramed) /\ Len(G) = Len(F) - 1
      /\ \A i \in 1 .. Len(F) - 1 : G[i] = F[i + 1]
  <2>1. F # <<>>
    OBVIOUS
  <2> QED BY <2>1, HeadTailProperties
<1>2. Len(F) \in Nat
  BY LenProperties
<1>3. ASSUME NEW i \in k .. Len(F)
      PROVE  G[i + d] = F[i]
  <2>1. i + d \in 1 .. Len(F) - 1 /\ (i + d) + 1 = i
    BY <1>0, <1>2
  <2> QED BY <1>1, <2>1
<1>4. /\ k \in 1 .. Len(F) + 1 /\ k + d >= 1 /\ Len(G) = Len(F) + d
      /\ k + d = k - 1
  BY <1>0, <1>1, <1>2
<1> HIDE DEF G
<1>5. Carries(c, G, k + d, j)
  BY <1>0, <1>1, <1>3, <1>4, CarriesShift
<1> QED BY <1>1, <1>4, <1>5 DEF G

(* The UART has sent a byte: it was the next of the first frame, and what  *)
(* the interrupt makes of it fits the host's having read it.               *)
FitsRead(after, s, p) ==
  /\ s.astray = "no"
  /\ after.frames = s.frames /\ ~after.garbled /\ IsTx(after.tx)
  /\ Len(s.frames) >= 1 /\ p + 1 <= Len(s.frames[1])
  /\ Head(s.uart) = s.frames[1][p + 1]
  /\ p + 1 < Len(s.frames[1]) => Phase(after, p + 1)
  /\ p + 1 = Len(s.frames[1]) =>
       \A t : SameSending(t, after) /\ t.tx = after.tx
              /\ t.frames = Tail(s.frames) => Phase(t, 0)

(* After the last byte of a frame the line may be silent.                  *)
LEMMA SilentAfter ==
  ASSUME NEW s, NEW F \in Seq(WellFramed), Len(F) >= 1, IsTx(s.tx),
         Carries(Contents(s.tx), F, 2, 0), s.uart = <<>>,
         s.mode \in {"OFF", "INPUT"}, s.mode = "INPUT" => s.reqFrameIdx = 3,
         NEW t, SameSending(t, s), t.tx = s.tx, t.frames = Tail(F)
  PROVE  Phase(t, 0)
<1>1. Contents(s.tx) \in Seq(UINT8) /\ Len(F) \in Nat /\ 2 \in 2 .. Len(F) + 1
  BY ContentsType, LenProperties
<1>2. Carries(Contents(s.tx), Tail(F), 2 - 1, 0)
  BY <1>1, CarriesRemove
<1>3. Silent(t, 0)
  BY <1>2 DEF Silent, SameSending
<1> QED BY <1>3 DEF Phase, SameSending

(* The last byte of a frame was sent, and no other follows.                *)
LEMMA EndSent ==
  ASSUME NEW s, NEW p \in Nat, NEW l, IsDriver(s), s.astray = "no",
         Good(s, p, l), NEW after, after.mode \in {"OFF", "INPUT"},
         after.mode = "INPUT" => after.reqFrameIdx = 3,
         after.uart = <<>>, after.tx = s.tx, after.frames = s.frames,
         after.garbled = s.garbled,
         Len(s.frames) >= 1, p + 1 = Len(s.frames[1]),
         s.uart = <<s.frames[1][p + 1]>>,
         Carries(Contents(s.tx), s.frames, 2, 0)
  PROVE  FitsRead(after, s, p)
<1>1. s.frames \in Seq(WellFramed) /\ IsTx(s.tx) /\ ~s.garbled
  BY DEF Good
<1>2. ASSUME NEW t, SameSending(t, after), t.tx = after.tx,
             t.frames = Tail(s.frames)
      PROVE  Phase(t, 0)
  BY <1>1, <1>2, SilentAfter
<1>3. p + 1 <= Len(s.frames[1]) /\ ~(p + 1 < Len(s.frames[1]))
  OBVIOUS
<1>4. Head(s.uart) = s.frames[1][p + 1]
  OBVIOUS
<1> QED BY <1>1, <1>2, <1>3, <1>4 DEF FitsRead

(* The UART has one byte less.                                             *)
LEMMA SentFields ==
  ASSUME NEW s, IsDriver(s)
  PROVE  LET sent == [s EXCEPT !.uart = Tail(@)]
         IN /\ IsDriver(sent)
            /\ sent.uart = Tail(s.uart)
            /\ sent.mode = s.mode /\ sent.reqFrameIdx = s.reqFrameIdx
            /\ sent.bytes_transmitted = s.bytes_transmitted
            /\ sent.tx_pkt_len = s.tx_pkt_len
            /\ sent.garbled = s.garbled /\ sent.tx = s.tx
            /\ sent.frames = s.frames /\ sent.astray = s.astray
BY DEF IsDriver, Fields

LEMMA TailOfOne ==
  ASSUME NEW x
  PROVE  Tail(<<x>>) = <<>> /\ Head(<<x>>) = x
OBVIOUS

LEMMA TailOfTwo ==
  ASSUME NEW x, NEW y
  PROVE  Tail(<<x, y>>) = <<y>> /\ Head(<<x, y>>) = x
OBVIOUS

(* The interrupt of the UART while the request is sent.                    *)
LEMMA RequestByteSent ==
  ASSUME NEW s, NEW p \in Nat, NEW l, NEW beyond, IsDriver(s),
         s.mode = "INPUT", s.uart # <<>>, Tail(s.uart) = <<>>,
         s.astray = "no" => Good(s, p, l)
  PROVE  LET sent  == [s EXCEPT !.uart = Tail(@)]
             after == isr_openserial_tx(sent, beyond)
         IN IsDriver(after) /\ (after.astray = "no" => FitsRead(after, s, p))
<1> DEFINE sent  == [s EXCEPT !.uart = Tail(@)]
           more  == [sent EXCEPT !.reqFrameIdx = @ + 1]
           last  == [sent EXCEPT !.reqFrameIdx = Len(reqFrame)]
           after == isr_openserial_tx(sent, beyond)
           next  == reqFrame[sent.reqFrameIdx + 2]
<1>1. /\ IsDriver(sent) /\ sent.uart = <<>>
      /\ sent.mode = "INPUT" /\ sent.reqFrameIdx = s.reqFrameIdx
      /\ sent.garbled = s.garbled /\ sent.tx = s.tx
      /\ sent.frames = s.frames /\ sent.astray = s.astray
  BY SentFields
<1> HIDE DEF sent
<1>2. after = IF sent.reqFrameIdx + 1 < 3
              THEN uart_writeByte(more, next) ELSE last
  <2> HIDE DEF more, last, next
  <2>1. after = IF sent.reqFrameIdx + 1 < Len(reqFrame)
                THEN uart_writeByte(more, next) ELSE last
    BY <1>1, Zenon DEF isr_openserial_tx, more, last, next
  <2> QED BY <2>1, RequestFrame
<1> HIDE DEF after
<1>3. /\ IsDriver(more) /\ more.reqFrameIdx = s.reqFrameIdx + 1
      /\ more.mode = "INPUT" /\ more.uart = <<>>
      /\ more.garbled = s.garbled /\ more.tx = s.tx
      /\ more.frames = s.frames /\ more.astray = s.astray
  BY <1>1 DEF IsDriver, Fields
<1>4. /\ IsDriver(last) /\ last.reqFrameIdx = 3
      /\ last.mode = "INPUT" /\ last.uart = <<>>
      /\ last.garbled = s.garbled /\ last.tx = s.tx
      /\ last.frames = s.frames /\ last.astray = s.astray
  BY <1>1, RequestFrame DEF IsDriver, Fields
<1> HIDE DEF more, last, next
<1>5. IsDriver(after) /\ after.astray = s.astray
  <2>1. CASE sent.reqFrameIdx + 1 < 3
    BY <1>2, <1>3, <2>1, WriteFields
  <2>2. CASE ~(sent.reqFrameIdx + 1 < 3)
    BY <1>2, <1>4, <2>2
  <2> QED BY <2>1, <2>2
<1>6. ASSUME after.astray = "no"
      PROVE  FitsRead(after, s, p)
  <2>1. s.astray = "no" /\ Good(s, p, l)
    BY <1>5, <1>6
  <2>2. /\ s.frames \in Seq(WellFramed) /\ IsTx(s.tx) /\ ~s.garbled
        /\ Asking(s, p)
    <3>1. Phase(s, p) /\ s.frames \in Seq(WellFramed) /\ IsTx(s.tx) /\ ~s.garbled
      BY <2>1 DEF Good
    <3>2. ~Silent(s, p)
      BY DEF Silent
    <3>3. ~ThenAsking(s, p)
      <4>1. ASSUME ThenAsking(s, p) PROVE FALSE
        <5> DEFINE x == s.frames[1][p + 1]
        <5>1. s.uart = <<x, START_FLAG>>
          BY <4>1 DEF ThenAsking, EndingThen
        <5>2. Tail(<<x, START_FLAG>>) = <<START_FLAG>>
          BY TailOfTwo
        <5> QED BY <5>1, <5>2
      <4> QED BY <4>1
    <3> QED BY <3>1, <3>2, <3>3 DEF Phase
  <2>3. /\ Len(s.frames) >= 1 /\ s.frames[1] = reqFrame
        /\ s.reqFrameIdx = p /\ p < 3
        /\ s.uart = <<reqFrame[p + 1]>>
        /\ Carries(Contents(s.tx), s.frames, 2, 0)
    BY <2>2 DEF Asking
  <2>4. CASE p + 1 < 3
    <3>1. after = uart_writeByte(more, next) /\ next = reqFrame[p + 2]
      BY <1>1, <1>2, <2>3, <2>4 DEF next
    <3>2. /\ after.uart = Append(<<>>, reqFrame[p + 2])
          /\ after.mode = "INPUT" /\ after.reqFrameIdx = p + 1
          /\ after.garbled = s.garbled /\ after.tx = s.tx
          /\ after.frames = s.frames
      BY <1>3, <2>3, <3>1, WriteFields
    <3>3. after.uart = <<reqFrame[(p + 1) + 1]>> /\ p + 2 = (p + 1) + 1
      BY <3>2
    <3>4. Asking(after, p + 1)
      BY <2>3, <2>4, <3>2, <3>3 DEF Asking
    <3>5. Phase(after, p + 1)
      BY <3>2, <3>4 DEF Phase
    <3>6. /\ p + 1 <= Len(s.frames[1]) /\ p + 1 # Len(s.frames[1])
      BY <2>3, <2>4, RequestFrame
    <3>7. Head(s.uart) = s.frames[1][p + 1]
      BY <2>3
    <3> QED BY <2>1, <2>2, <2>3, <3>2, <3>5, <3>6, <3>7 DEF FitsRead
  <2>5. CASE ~(p + 1 < 3)
    <3>1. after = last
      BY <1>1, <1>2, <2>3, <2>5
    <3>2. p + 1 = Len(s.frames[1]) /\ s.uart = <<s.frames[1][p + 1]>>
      BY <2>3, <2>5, RequestFrame
    <3> QED BY <1>4, <2>1, <2>3, <3>1, <3>2, EndSent
  <2> QED BY <2>4, <2>5
<1> QED BY <1>5, <1>6 DEF after, sent

(* The interrupt of the UART while a frame is sent. The next of them never *)
(* begins here: it would take a byte from behind the ring.                 *)
LEMMA OutputByteSent ==
  ASSUME NEW s, NEW p \in Nat, NEW l, NEW beyond, IsDriver(s),
         s.mode = "OUTPUT", s.uart # <<>>, Tail(s.uart) = <<>>,
         s.astray = "no" => Good(s, p, l)
  PROVE  LET sent  == [s EXCEPT !.uart = Tail(@)]
             after == isr_openserial_tx(sent, beyond)
         IN IsDriver(after) /\ (after.astray = "no" => FitsRead(after, s, p))
<1> DEFINE sent   == [s EXCEPT !.uart = Tail(@)]
           ring   == circular_buffer_pop(sent.tx)
           next   == At(sent.tx, sent.tx.tail + 1, beyond)
           taken  == [sent EXCEPT !.tx = ring]
           popped == uart_writeByte(taken, Popped(sent.tx))
           more   == [popped EXCEPT
                        !.bytes_transmitted = (@ + 1) % 256,
                        !.total_bytes_transmitted = @ + 1]
           checked == Astray(popped, "beyond",
                             sent.tx.tail + 1 \notin DOMAIN sent.tx.buffer)
           begun  == [checked EXCEPT
                        !.bytes_transmitted = 1,
                        !.tx_pkt_len = At(ring, ring.tail + 1, beyond)]
           last   == [sent EXCEPT !.mode = "OFF", !.bytes_transmitted = 0,
                                  !.total_bytes_transmitted = 0]
           after  == isr_openserial_tx(sent, beyond)
<1>1. /\ IsDriver(sent) /\ sent.uart = <<>>
      /\ sent.mode = "OUTPUT"
      /\ sent.bytes_transmitted = s.bytes_transmitted
      /\ sent.tx_pkt_len = s.tx_pkt_len
      /\ sent.garbled = s.garbled /\ sent.tx = s.tx
      /\ sent.frames = s.frames /\ sent.astray = s.astray
  BY SentFields
<1> HIDE DEF sent
<1>2. after = IF Midway(sent) THEN more
              ELSE IF MayFollow(sent, next) THEN begun ELSE last
  <2> HIDE DEF more, begun, last, next
  <2>1. CASE Midway(sent)
    BY <1>1, <2>1, Zenon DEF isr_openserial_tx, more
  <2>2. CASE ~Midway(sent)
    BY <1>1, <2>2, Zenon DEF isr_openserial_tx, begun, last, next
  <2> QED BY <2>1, <2>2
<1> HIDE DEF after, ring
<1>3. /\ IsDriver(popped)
      /\ popped.uart = Append(<<>>, Popped(s.tx))
      /\ popped.mode = "OUTPUT"
      /\ popped.bytes_transmitted = s.bytes_transmitted
      /\ popped.tx_pkt_len = s.tx_pkt_len
      /\ popped.garbled = s.garbled /\ popped.tx = ring
      /\ popped.frames = s.frames /\ popped.astray = s.astray
  <2>1. /\ IsDriver(taken) /\ taken.uart = <<>>
        /\ taken.mode = "OUTPUT"
        /\ taken.bytes_transmitted = s.bytes_transmitted
        /\ taken.tx_pkt_len = s.tx_pkt_len
        /\ taken.garbled = s.garbled /\ taken.tx = ring
        /\ taken.frames = s.frames /\ taken.astray = s.astray
    BY <1>1 DEF IsDriver, Fields
  <2> HIDE DEF taken
  <2> QED BY <1>1, <2>1, WriteFields
<1> HIDE DEF popped
<1>4. /\ IsDriver(more)
      /\ more.uart = popped.uart /\ more.mode = "OUTPUT"
      /\ more.bytes_transmitted = (s.bytes_transmitted + 1) % 256
      /\ more.tx_pkt_len = s.tx_pkt_len
      /\ more.garbled = s.garbled /\ more.tx = ring
      /\ more.frames = s.frames /\ more.astray = s.astray
  <2> DEFINE count == (popped.bytes_transmitted + 1) % 256
             total == popped.total_bytes_transmitted + 1
  <2>1. more = [popped EXCEPT !.bytes_transmitted = count,
                              !.total_bytes_transmitted = total]
    OBVIOUS
  <2>2. count = (s.bytes_transmitted + 1) % 256
    BY <1>3
  <2> HIDE DEF count, total, more
  <2> QED BY <1>3, <2>1, <2>2, ZenonT(30) DEF IsDriver, Fields
<1>5. /\ IsDriver(begun)
      /\ begun.astray = "no" => /\ s.astray = "no"
                                /\ s.tx.tail + 1 \in DOMAIN s.tx.buffer
  <2>1. /\ IsDriver(checked)
        /\ checked.astray = "no" => /\ s.astray = "no"
                                    /\ s.tx.tail + 1 \in DOMAIN s.tx.buffer
    BY <1>1, <1>3, AstrayFields
  <2> HIDE DEF checked
  <2> QED BY <2>1 DEF IsDriver, Fields
<1>6. /\ IsDriver(last) /\ last.mode = "OFF" /\ last.uart = <<>>
      /\ last.garbled = s.garbled /\ last.tx = s.tx
      /\ last.frames = s.frames /\ last.astray = s.astray
  BY <1>1 DEF IsDriver, Fields
<1> HIDE DEF more, begun, last
<1>7. /\ IsDriver(after)
      /\ after.astray = "no" => s.astray = "no"
  BY <1>2, <1>4, <1>5, <1>6
<1>8. ASSUME after.astray = "no"
      PROVE  FitsRead(after, s, p)
  <2> DEFINE F == s.frames
             c == Contents(s.tx)
             length == Len(F[1])
  <2>1. s.astray = "no" /\ Good(s, p, l)
    BY <1>7, <1>8
  <2>2. /\ F \in Seq(WellFramed) /\ IsTx(s.tx) /\ ~s.garbled
        /\ Outputting(s, p)
    <3>1. Phase(s, p) /\ F \in Seq(WellFramed) /\ IsTx(s.tx) /\ ~s.garbled
      BY <2>1 DEF Good
    <3>2. ~ThenOutputting(s, p)
      <4>1. ASSUME ThenOutputting(s, p) PROVE FALSE
        <5> DEFINE x == s.frames[1][p + 1]
        <5>1. s.uart = <<x, START_FLAG>>
          BY <4>1 DEF ThenOutputting, EndingThen
        <5>2. Tail(<<x, START_FLAG>>) = <<START_FLAG>>
          BY TailOfTwo
        <5> QED BY <5>1, <5>2
      <4> QED BY <4>1
    <3> QED BY <3>1, <3>2 DEF Phase
  <2>3. /\ Len(F) >= 1 /\ p < length
        /\ s.bytes_transmitted = p + 1
        /\ s.tx_pkt_len = length - 1
        /\ s.uart = <<F[1][p + 1]>>
        /\ Carries(c, F, 1, p + 1)
    BY <2>2 DEF Outputting
  <2>4. /\ c \in Seq(UINT8) /\ Len(c) = s.tx.fill_level /\ Len(F) \in Nat
        /\ 1 \in 1 .. Len(F)
    BY <2>2, <2>3, ContentsType, LenProperties, SMTT(30)
  <2>5. length \in 3 .. 255
    BY <2>2, <2>4, ElementOfSeq, FrameTypes
  <2>6. Head(s.uart) = F[1][p + 1]
    BY <2>3
  <2>7. Midway(sent) <=> p + 1 # length
    <3>1. Midway(sent) <=> p + 1 # (length - 1) + 1
      BY <1>1, <2>3 DEF Midway
    <3> HIDE DEF length
    <3> QED BY <2>5, <3>1
  <2>8. CASE p + 1 # length
    <3>1. after = more
      BY <1>2, <2>7, <2>8
    <3>2. p + 1 < length /\ p + 1 <= length
      <4> HIDE DEF length
      <4> QED BY <2>3, <2>5, <2>8
    <3>3. /\ Len(c) >= length - (p + 1)
          /\ \A m \in 1 .. length - (p + 1) : c[m] = F[1][(p + 1) + m]
      <4> DEFINE j == p + 1
      <4>1. j \in Nat /\ j <= Len(F[1]) /\ Carries(c, F, 1, j)
        BY <2>3, <3>2
      <4> HIDE DEF j, c
      <4>2. /\ Len(c) >= Len(F[1]) - j
            /\ \A m \in 1 .. Len(F[1]) - j : c[m] = F[1][j + m]
        BY <2>2, <2>4, <4>1, CarriesWhole
      <4> QED BY <4>2 DEF j
    <3>4. Carries(Tail(c), F, 1, (p + 1) + 1)
      BY <2>2, <2>3, <2>4, <3>2, CarriesTail
    <3>5. /\ s.tx.fill_level > 0 /\ 1 \in 1 .. length - (p + 1)
          /\ (p + 2) % 256 = p + 2
      <4>1. s.tx.fill_level >= length - (p + 1) /\ s.tx.fill_level \in Nat
        BY <2>2, <2>4, <3>3, TxTypes
      <4> DEFINE level == s.tx.fill_level
      <4> HIDE DEF length, level
      <4>2. level >= length - (p + 1) /\ level \in Nat
        BY <4>1 DEF level
      <4>3. level > 0 /\ 1 \in 1 .. length - (p + 1) /\ p + 2 \in 0 .. 255
        BY <2>5, <3>2, <4>2
      <4>4. (p + 2) % 256 = p + 2
        BY <4>3
      <4> QED BY <4>3, <4>4 DEF level
    <3>6. /\ IsTx(ring) /\ Contents(ring) = Tail(c) /\ Popped(s.tx) = c[1]
      BY <1>1, <2>2, <3>5, PopOfTx DEF ring
    <3>7. after.uart = <<F[1][(p + 1) + 1]>>
      <4>1. c[1] = F[1][(p + 1) + 1]
        BY <3>3, <3>5
      <4> DEFINE x == F[1][(p + 1) + 1]
      <4>2. after.uart = Append(<<>>, x)
        BY <1>3, <1>4, <3>1, <3>6, <4>1
      <4> HIDE DEF x
      <4>3. after.uart = <<x>>
        BY <4>2
      <4> QED BY <4>3 DEF x
    <3>8. after.bytes_transmitted = (p + 1) + 1
      BY <1>4, <2>3, <3>1, <3>5
    <3>9. Outputting(after, p + 1)
      BY <1>4, <2>3, <3>1, <3>2, <3>4, <3>6, <3>7, <3>8 DEF Outputting
    <3>10. Phase(after, p + 1)
      BY <1>4, <3>1, <3>9 DEF Phase
    <3> QED BY <1>4, <2>1, <2>2, <2>3, <2>6, <2>8, <3>1, <3>2, <3>6, <3>10
            DEF FitsRead
  <2>9. CASE p + 1 = length
    <3>1. Carries(c, F, 2, 0)
      <4>1. Carries(c, F, 1, Len(F[1]))
        BY <2>3, <2>9
      <4>2. Carries(c, F, 1 + 1, 0)
        BY <2>2, <2>4, <4>1, CarriesNext
      <4> QED BY <4>2
    <3>2. ~MayFollow(sent, next) \/ s.tx.tail + 1 \notin DOMAIN s.tx.buffer
      <4> SUFFICES ASSUME MayFollow(sent, next),
                          s.tx.tail + 1 \in DOMAIN s.tx.buffer
                   PROVE  FALSE
        OBVIOUS
      <4>1. next > s.tx.fill_level /\ s.tx.fill_level > 0
        BY <1>1 DEF MayFollow
      <4>2. 2 \in 1 .. Len(F) + 1
        BY <2>3, <2>4, SMTT(30)
      <4>3. 2 \in 1 .. Len(F)
        BY <2>2, <3>1, <4>1, <4>2, WholeFrameIsIn, ZenonT(30)
      <4>4. /\ s.tx.fill_level >= Len(F[2]) /\ Len(F[2]) \in 3 .. 255
            /\ c[2] = Len(F[2]) - 1
        BY <2>2, <3>1, <4>2, <4>3, WholeFrameIsIn, ZenonT(30)
      <4> DEFINE second == Len(F[2])
                 level == s.tx.fill_level
      <4>5. level >= second /\ second \in 3 .. 255 /\ level \in Nat
        BY Zenon, <2>2, <4>4, TxTypes
      <4>6. level >= 2
        <5> HIDE DEF level, second
        <5> QED BY <4>5
      <4>7. next = c[2]
        BY <1>1, <2>2, <4>6, SecondByte, SMTT(30)
      <4>8. next = second - 1 /\ next > level
        BY <4>1, <4>4, <4>7
      <4> HIDE DEF next, level, second
      <4> QED BY <4>5, <4>8
    <3>3. after = last
      <4>1. ~MayFollow(sent, next)
        <5>1. MayFollow(sent, next) => after = begun
          BY <1>2, <2>7, <2>9
        <5> QED BY <1>5, <1>8, <3>2, <5>1
      <4> QED BY <1>2, <2>7, <2>9, <4>1
    <3> QED BY <1>6, <2>1, <2>3, <2>9, <3>1, <3>3, EndSent
  <2> QED BY <2>8, <2>9
<1> QED BY <1>7, <1>8 DEF after, sent

(* A byte was sent, in whatever mode.                                      *)
LEMMA ByteSent ==
  ASSUME NEW s, NEW p \in Nat, NEW l, NEW beyond, IsDriver(s), s.uart # <<>>,
         s.astray = "no" => Good(s, p, l)
  PROVE  LET sent  == [s EXCEPT !.uart = Tail(@)]
             after == IF sent.uart = <<>>
                      THEN isr_openserial_tx(sent, beyond) ELSE sent
         IN IsDriver(after) /\ (after.astray = "no" => FitsRead(after, s, p))
<1> DEFINE sent  == [s EXCEPT !.uart = Tail(@)]
           isr   == isr_openserial_tx(sent, beyond)
           after == IF sent.uart = <<>> THEN isr ELSE sent
<1>1. /\ IsDriver(sent)
      /\ sent.uart = Tail(s.uart)
      /\ sent.mode = s.mode /\ sent.reqFrameIdx = s.reqFrameIdx
      /\ sent.bytes_transmitted = s.bytes_transmitted
      /\ sent.tx_pkt_len = s.tx_pkt_len
      /\ sent.garbled = s.garbled /\ sent.tx = s.tx
      /\ sent.frames = s.frames /\ sent.astray = s.astray
  BY SentFields
<1>2. CASE Tail(s.uart) = <<>> /\ s.mode = "INPUT"
  <2>1. IsDriver(isr) /\ (isr.astray = "no" => FitsRead(isr, s, p))
    BY <1>2, RequestByteSent
  <2> QED BY <1>1, <1>2, <2>1
<1>3. CASE Tail(s.uart) = <<>> /\ s.mode = "OUTPUT"
  <2>1. IsDriver(isr) /\ (isr.astray = "no" => FitsRead(isr, s, p))
    BY <1>3, OutputByteSent
  <2> QED BY <1>1, <1>3, <2>1
<1> HIDE DEF sent
<1>4. CASE Tail(s.uart) = <<>> /\ s.mode = "OFF"
  <2>1. isr = sent
    BY <1>1, <1>4, Zenon DEF isr_openserial_tx
  <2>2. after = sent
    BY <2>1
  <2>3. ASSUME s.astray = "no"
        PROVE  FitsRead(sent, s, p)
    <3>1. Good(s, p, l) /\ Phase(s, p)
      BY <2>3 DEF Good
    <3>2. Ending(s, p)
      BY <1>4, <3>1 DEF Phase, Silent
    <3> QED BY <1>1, <1>4, <2>3, <3>1, <3>2, EndSent DEF Ending
  <2>4. IsDriver(after) /\ (after.astray = "no" => FitsRead(after, s, p))
    BY <1>1, <2>2, <2>3
  <2> QED BY <2>4 DEF sent
<1>5. CASE Tail(s.uart) # <<>>
  <2>1. after = sent
    BY <1>1, <1>5
  <2>2. ASSUME s.astray = "no"
        PROVE  FitsRead(sent, s, p)
    <3> DEFINE F == s.frames
               x == F[1][p + 1]
    <3>1. /\ Good(s, p, l) /\ Phase(s, p) /\ F \in Seq(WellFramed)
          /\ IsTx(s.tx) /\ ~s.garbled
      BY <2>2 DEF Good
    <3>2. ~Silent(s, p)
      BY DEF Silent
    <3>3. ASSUME NEW y, s.uart = <<y>>
          PROVE  FALSE
      BY <1>5, <3>3, TailOfOne
    <3>4. ~Ending(s, p) /\ ~Asking(s, p) /\ ~Outputting(s, p)
      BY <3>3 DEF Ending, Asking, Outputting
    <3>5. \/ s.mode = "INPUT" /\ ThenAsking(s, p)
          \/ s.mode = "OUTPUT" /\ ThenOutputting(s, p)
      BY <3>1, <3>2, <3>4 DEF Phase
    <3>6. /\ Len(F) >= 2 /\ p + 1 = Len(F[1]) /\ s.uart = <<x, START_FLAG>>
      BY <3>5 DEF ThenAsking, ThenOutputting, EndingThen
    <3>7. sent.uart = <<START_FLAG>> /\ Head(s.uart) = x
      BY <1>1, <3>6, TailOfTwo
    <3>8. /\ Contents(s.tx) \in Seq(UINT8) /\ Len(F) \in Nat
          /\ Len(F) >= 1 /\ 2 \in 1 .. Len(F)
          /\ 2 \in 2 .. Len(F) + 1 /\ 3 \in 2 .. Len(F) + 1
      BY <3>1, <3>6, ContentsType, LenProperties
    <3>9. ASSUME NEW t, SameSending(t, sent), t.tx = sent.tx,
                 t.frames = Tail(F)
          PROVE  Phase(t, 0)
      <4>1. /\ t.mode = s.mode /\ t.reqFrameIdx = s.reqFrameIdx
            /\ t.bytes_transmitted = s.bytes_transmitted
            /\ t.tx_pkt_len = s.tx_pkt_len
            /\ t.uart = <<START_FLAG>> /\ t.tx = s.tx
        BY <1>1, <3>7, <3>9, SMTT(30) DEF SameSending
      <4>2. /\ Len(F[2]) \in 3 .. 255 /\ F[2][1] = START_FLAG
        BY <3>1, <3>8, ElementOfSeq, FrameTypes
      <4>3. CASE s.mode = "INPUT" /\ ThenAsking(s, p)
        <5>1. /\ Len(Tail(F)) = Len(F) - 1
              /\ \A i \in 1 .. Len(F) - 1 : Tail(F)[i] = F[i + 1]
              /\ Carries(Contents(s.tx), Tail(F), 3 - 1, 0)
          BY <3>1, <3>8, <4>3, CarriesRemove DEF ThenAsking
        <5>2. /\ Len(Tail(F)) >= 1 /\ Tail(F)[1] = reqFrame
              /\ s.reqFrameIdx = 0
          <6>1. 1 \in 1 .. Len(F) - 1 /\ Len(F) - 1 >= 1 /\ 1 + 1 = 2
            BY <3>6, <3>8
          <6>2. Tail(F)[1] = F[1 + 1]
            BY <5>1, <6>1
          <6> QED BY <4>3, <5>1, <6>1, <6>2 DEF ThenAsking
        <5>3. Asking(t, 0)
          <6>1. Carries(Contents(s.tx), Tail(F), 2, 0)
            BY <5>1
          <6>2. reqFrame[0 + 1] = START_FLAG
            BY RequestFrame
          <6> QED BY <3>9, <4>1, <5>2, <6>1, <6>2 DEF Asking
        <5> QED BY <4>1, <4>3, <5>3 DEF Phase
      <4>4. CASE s.mode = "OUTPUT" /\ ThenOutputting(s, p)
        <5>1. /\ Len(Tail(F)) = Len(F) - 1
              /\ \A i \in 1 .. Len(F) - 1 : Tail(F)[i] = F[i + 1]
              /\ Carries(Contents(s.tx), Tail(F), 2 - 1, 1)
          BY <3>1, <3>8, <4>4, CarriesRemove DEF ThenOutputting
        <5>2. Len(Tail(F)) >= 1 /\ Tail(F)[1] = F[2]
          <6>1. 1 \in 1 .. Len(F) - 1 /\ Len(F) - 1 >= 1 /\ 1 + 1 = 2
            BY <3>6, <3>8
          <6>2. Tail(F)[1] = F[1 + 1]
            BY <5>1, <6>1
          <6> QED BY <5>1, <6>1, <6>2
        <5>3. /\ s.bytes_transmitted = 1 /\ s.tx_pkt_len = Len(F[2]) - 1
          BY <4>4, SMTT(30) DEF ThenOutputting
        <5>4. Outputting(t, 0)
          <6>1. Carries(Contents(s.tx), Tail(F), 1, 1)
            BY <5>1
          <6>2. 0 < Len(F[2])
            <7> DEFINE length == Len(F[2])
            <7>1. length \in 3 .. 255
              BY <4>2
            <7> HIDE DEF length
            <7>2. 0 < length
              BY <7>1
            <7> QED BY <7>2 DEF length
          <6>3. 0 + 1 = 1
            OBVIOUS
          <6> QED BY <3>9, <4>1, <4>2, <5>2, <5>3, <6>1, <6>2, <6>3,
                    SMTT(30) DEF Outputting
        <5> QED BY <4>1, <4>4, <5>4 DEF Phase
      <4> QED BY <3>5, <4>3, <4>4
    <3>10. p + 1 <= Len(F[1]) /\ ~(p + 1 < Len(F[1]))
      BY <3>6
    <3> QED BY <1>1, <2>2, <3>1, <3>7, <3>8, <3>9, <3>10 DEF FitsRead
  <2>3. IsDriver(after) /\ (after.astray = "no" => FitsRead(after, s, p))
    BY <1>1, <2>1, <2>2
  <2> QED BY <2>3 DEF sent
<1>6. s.mode \in {"OFF", "INPUT", "OUTPUT"}
  BY DEF IsDriver
<1> QED BY <1>2, <1>3, <1>4, <1>5, <1>6

-----------------------------------------------------------------------------
(* The host reads it.                                                      *)
-----------------------------------------------------------------------------
ProbeFields == {"busyReceiving", "prevByte", "framelength", "received", "type"}

IsProbe(q) ==
  /\ DOMAIN q = ProbeFields /\ q = [n \in ProbeFields |-> q[n]]
  /\ q.busyReceiving \in BOOLEAN
  /\ q.received \in Nat
  /\ ~q.busyReceiving => q.received = 0
  /\ q.busyReceiving => (q.prevByte = START_FLAG <=> q.received = 0)

(* So many bytes of the first frame are read.                              *)
Place(q) == IF q.busyReceiving THEN q.received + 1 ELSE 0

(* As long as nothing led the framing astray, the ring holds the rest of   *)
(* the frames the host has yet to read, the driver is where the host is,   *)
(* and the host knows the length of what it reads.                         *)
Inv ==
  /\ IsDriver(serial)
  /\ serial.astray = "no" =>
       /\ IsProbe(probe)
       /\ Good(serial, Place(probe), probe.framelength)

LEMMA PlaceType ==
  ASSUME NEW q, IsProbe(q)
  PROVE  Place(q) \in Nat
BY DEF IsProbe, Place

(* The thread of the host within a frame,                                  *)
LEMMA BusyProbe ==
  ASSUME NEW q, NEW n \in Nat,
         DOMAIN q = ProbeFields, q = [x \in ProbeFields |-> q[x]],
         q.busyReceiving = TRUE, q.received = n,
         q.prevByte = START_FLAG <=> n = 0
  PROVE  IsProbe(q) /\ Place(q) = n + 1
<1>1. q.busyReceiving \in BOOLEAN /\ q.received \in Nat /\ q.busyReceiving
  OBVIOUS
<1>2. Place(q) = n + 1
  BY <1>1 DEF Place
<1> QED BY <1>1, <1>2 DEF IsProbe

(* and between two.                                                        *)
LEMMA IdleProbe ==
  ASSUME NEW q,
         DOMAIN q = ProbeFields, q = [x \in ProbeFields |-> q[x]],
         q.busyReceiving = FALSE, q.received = 0
  PROVE  IsProbe(q) /\ Place(q) = 0
<1>0. q.received \in Nat
  OBVIOUS
<1>1. q.busyReceiving \in BOOLEAN /\ q.received \in Nat /\ ~q.busyReceiving
  BY <1>0, Zenon
<1>2. Place(q) = 0
  BY <1>1 DEF Place
<1> QED BY <1>1, <1>2 DEF IsProbe

(* Whatever is read: nothing that went astray is found again.              *)
LEMMA ReadFields ==
  ASSUME NEW s, IsDriver(s), NEW byte, Read(byte, s)
  PROVE  IsDriver(serial') /\ serial'.astray = s.astray
<1> DEFINE ends == /\ probe.busyReceiving
                   /\ ~(probe.busyReceiving /\ probe.prevByte = START_FLAG)
                   /\ probe.received + 1 = probe.framelength
           frame == IF s.frames = <<>> THEN <<>> ELSE Head(s.frames)
           at == IF probe.busyReceiving THEN probe.received + 2 ELSE 1
           asPrinted == /\ at <= Len(frame) /\ byte = frame[at]
                        /\ ends <=> at = Len(frame)
           read == IF ~asPrinted
                   THEN [s EXCEPT !.garbled = TRUE, !.frames = <<>>]
                   ELSE IF ends THEN [s EXCEPT !.frames = Tail(@)] ELSE s
<1>1. \/ serial' = read
      \/ serial' = [read EXCEPT !.commands = Append(@, Head(outputBuf))]
  BY Zenon DEF Read
<1> HIDE DEF ends, asPrinted
<1>2. IsDriver(read) /\ read.astray = s.astray
  <2>1. CASE ~asPrinted
    BY <2>1 DEF IsDriver, Fields
  <2>2. CASE asPrinted /\ ends
    BY <2>2 DEF IsDriver, Fields
  <2>3. CASE asPrinted /\ ~ends
    BY <2>3
  <2> QED BY <2>1, <2>2, <2>3
<1> HIDE DEF read
<1> QED BY <1>1, <1>2 DEF IsDriver, Fields

(* A byte that is the next of the first frame is read as such.             *)
LEMMA ReadAsPrinted ==
  ASSUME NEW s, IsDriver(s), NEW byte, Read(byte, s), IsProbe(probe),
         s.frames \in Seq(WellFramed), Len(s.frames) >= 1,
         NEW p, p = Place(probe), p + 1 <= Len(s.frames[1]),
         byte = s.frames[1][p + 1],
         p >= 2 => s.frames[1][2] = probe.framelength
  PROVE  /\ IsProbe(probe')
         /\ p + 1 < Len(s.frames[1]) =>
              /\ serial' = s /\ Place(probe') = p + 1
              /\ p + 1 >= 2 => s.frames[1][2] = probe'.framelength
         /\ p + 1 = Len(s.frames[1]) =>
              /\ SameSending(serial', s) /\ serial'.tx = s.tx
              /\ serial'.frames = Tail(s.frames) /\ Place(probe') = 0
<1> DEFINE n == probe.received
           begins == ~probe.busyReceiving /\ byte = START_FLAG
           lengthNext == probe.busyReceiving /\ probe.prevByte = START_FLAG
           ends == probe.busyReceiving /\ ~lengthNext /\ n + 1 = probe.framelength
           type == IF n = 1 THEN byte ELSE probe.type
           frame == IF s.frames = <<>> THEN <<>> ELSE Head(s.frames)
           at == IF probe.busyReceiving THEN n + 2 ELSE 1
           asPrinted == /\ at <= Len(frame) /\ byte = frame[at]
                        /\ ends <=> at = Len(frame)
           read == IF ~asPrinted
                   THEN [s EXCEPT !.garbled = TRUE, !.frames = <<>>]
                   ELSE IF ends THEN [s EXCEPT !.frames = Tail(@)] ELSE s
           Received(l) == Min({n + 1, l + 1})
           begun == [probe EXCEPT !.busyReceiving = TRUE, !.prevByte = byte]
           sized == [probe EXCEPT !.framelength = byte, !.prevByte = byte,
                                  !.type = type, !.received = Received(byte)]
           ended == [probe EXCEPT !.busyReceiving = FALSE, !.received = 0,
                                  !.type = 0]
           further == [probe EXCEPT !.received = Received(probe.framelength),
                                    !.type = type]
           whole == s.frames[1]
           size == Len(whole)
<1>1. /\ probe' = CASE begins -> begun
                    [] lengthNext -> sized
                    [] ends -> ended
                    [] probe.busyReceiving /\ ~lengthNext /\ ~ends -> further
                    [] ~probe.busyReceiving /\ ~begins -> probe
      /\ \/ serial' = read
         \/ ends /\ serial' = [read EXCEPT
                                 !.commands = Append(@, Head(outputBuf))]
  BY Zenon DEF Read
<1>2. /\ DOMAIN probe = ProbeFields /\ probe = [x \in ProbeFields |-> probe[x]]
      /\ probe.busyReceiving \in BOOLEAN /\ n \in Nat
      /\ ~probe.busyReceiving => n = 0
      /\ probe.busyReceiving => (probe.prevByte = START_FLAG <=> n = 0)
      /\ p = IF probe.busyReceiving THEN n + 1 ELSE 0
  BY DEF IsProbe, Place
<1>3. /\ frame = whole /\ at = p + 1
  <2>1. s.frames # <<>> /\ Head(s.frames) = whole
    OBVIOUS
  <2>2. at = p + 1
    BY <1>2, SMTT(30)
  <2> QED BY <2>1, <2>2
<1>4. /\ size \in 3 .. 255 /\ whole[1] = START_FLAG
      /\ whole[2] = size - 1 /\ whole[2] # START_FLAG
  <2>1. 1 \in 1 .. Len(s.frames)
    BY LenProperties
  <2> QED BY <2>1, ElementOfSeq, FrameTypes, ZenonT(30)
<1> HIDE DEF frame, at
<1>5. /\ ends <=> p + 1 = size
      /\ probe.busyReceiving /\ ~lengthNext <=> p >= 2
      /\ lengthNext <=> p = 1
      /\ ~probe.busyReceiving <=> p = 0
  <2>1. /\ probe.busyReceiving /\ ~lengthNext <=> p >= 2
        /\ lengthNext <=> p = 1
        /\ ~probe.busyReceiving <=> p = 0
    BY <1>2
  <2>2. CASE p >= 2
    <3>1. probe.framelength = size - 1
      BY <1>4, <2>2
    <3>2. n = p - 1 /\ p \in Nat
      BY <1>2, <2>2
    <3> HIDE DEF size, lengthNext, n, whole
    <3>3. n + 1 = probe.framelength <=> p + 1 = size
      <4>1. size \in Int /\ p \in Int
        BY <1>4, <3>2
      <4> QED BY <3>1, <3>2, <4>1, SMTT(30)
    <3> QED BY <2>1, <2>2, <3>3, SMTT(30)
  <2>3. CASE ~(p >= 2)
    <3>1. (p = 0 \/ p = 1) /\ ~ends
      BY <1>2, <2>1, <2>3
    <3>2. p + 1 # size
      <4> HIDE DEF size, whole
      <4> QED BY <1>4, <3>1, SMTT(30)
    <3> QED BY <2>1, <3>1, <3>2
  <2> QED BY <2>1, <2>2, <2>3
<1>6. asPrinted
  BY <1>3, <1>5
<1> HIDE DEF asPrinted, whole, size
<1>7. /\ ends => /\ SameSending(serial', s) /\ serial'.tx = s.tx
                 /\ serial'.frames = Tail(s.frames)
      /\ ~ends => serial' = s
  <2>1. CASE ends
    <3> HIDE DEF ends
    <3>1. read = [s EXCEPT !.frames = Tail(@)]
      BY <1>6, <2>1
    <3>2. IsDriver(read) /\ SameSending(read, s) /\ read.tx = s.tx
          /\ read.frames = Tail(s.frames)
      BY <3>1 DEF IsDriver, Fields, SameSending
    <3> HIDE DEF read
    <3> QED BY <1>1, <2>1, <3>2 DEF IsDriver, Fields, SameSending
  <2>2. CASE ~ends
    <3> HIDE DEF ends
    <3> QED BY <1>1, <1>6, <2>2
  <2> QED BY <2>1, <2>2
<1>8. CASE p = 0
  <2>1. byte = START_FLAG
    BY <1>4, <1>8 DEF whole
  <2>2. probe' = begun
    BY <1>1, <1>5, <1>8, <2>1
  <2>3. /\ probe'.busyReceiving = TRUE /\ probe'.received = 0
        /\ probe'.prevByte = START_FLAG
        /\ DOMAIN probe' = ProbeFields
        /\ probe' = [x \in ProbeFields |-> probe'[x]]
    BY <1>2, <1>5, <1>8, <2>1, <2>2 DEF ProbeFields
  <2>4. IsProbe(probe') /\ Place(probe') = p + 1
    <3>1. (probe'.prevByte = START_FLAG <=> 0 = 0) /\ 0 \in Nat
      BY <2>3
    <3>2. IsProbe(probe') /\ Place(probe') = 0 + 1
      BY <2>3, <3>1, BusyProbe
    <3> QED BY <1>8, <3>2
  <2>5. ~ends /\ p + 1 # size /\ ~(p + 1 >= 2)
    BY <1>4, <1>5, <1>8
  <2> QED BY <1>7, <2>4, <2>5 DEF size, whole
<1>9. CASE p = 1
  <2>1. byte = whole[2] /\ byte = size - 1 /\ byte # START_FLAG /\ n = 0
        /\ probe.busyReceiving = TRUE
    BY <1>2, <1>4, <1>9 DEF whole
  <2>2. probe' = sized
    BY <1>1, <1>5, <1>9
  <2>3. Received(byte) = 1
    <3>1. 1 <= byte + 1 /\ byte + 1 \in Int /\ n + 1 = 1
      BY <1>4, <2>1
    <3> QED BY <3>1, MinOfTwo
  <2> HIDE DEF Received, type
  <2>4. /\ probe'.busyReceiving = TRUE /\ probe'.received = 1
        /\ probe'.prevByte = byte /\ probe'.framelength = byte
        /\ DOMAIN probe' = ProbeFields
        /\ probe' = [x \in ProbeFields |-> probe'[x]]
    BY <1>2, <2>1, <2>2, <2>3 DEF ProbeFields
  <2>5. IsProbe(probe') /\ Place(probe') = p + 1
    <3>1. (probe'.prevByte = START_FLAG <=> 1 = 0) /\ 1 \in Nat
      BY <2>1, <2>4
    <3>2. IsProbe(probe') /\ Place(probe') = 1 + 1
      BY <2>4, <3>1, BusyProbe
    <3> QED BY <1>9, <3>2
  <2>6. ~ends /\ p + 1 # size
    BY <1>4, <1>5, <1>9
  <2> QED BY <1>7, <2>1, <2>4, <2>5, <2>6 DEF size, whole
<1>10. CASE p >= 2
  <2>1. n = p - 1 /\ n >= 1 /\ probe.busyReceiving = TRUE
    BY <1>2, <1>10
  <2>2. probe.framelength = size - 1
    BY <1>4, <1>10 DEF whole
  <2>3. CASE ends
    <3>1. probe' = ended
      BY <1>1, <1>5, <1>10, <2>3
    <3>2. /\ probe'.busyReceiving = FALSE /\ probe'.received = 0
          /\ DOMAIN probe' = ProbeFields
          /\ probe' = [x \in ProbeFields |-> probe'[x]]
      BY <1>2, <3>1 DEF ProbeFields
    <3>3. IsProbe(probe') /\ Place(probe') = 0
      BY <3>2, IdleProbe
    <3>4. ~(p + 1 < size)
      BY <1>5, <2>3, <1>4
    <3> QED BY <1>7, <2>3, <3>3, <3>4 DEF size, whole
  <2>4. CASE ~ends
    <3>1. probe' = further
      BY <1>1, <1>5, <1>10, <2>4
    <3>2. Received(probe.framelength) = n + 1
      <4>1. /\ p + 1 <= size /\ p + 1 # size
        BY <1>5, <2>4 DEF size, whole
      <4>2. /\ n + 1 <= probe.framelength + 1 /\ n + 1 \in Int
            /\ probe.framelength + 1 \in Int
        <5>1. p \in Nat
          BY <1>2
        <5> HIDE DEF n, size, whole
        <5>2. n + 1 = p /\ probe.framelength = size - 1 /\ size \in Int
              /\ p + 1 <= size - 1
          BY <1>4, <2>1, <2>2, <4>1, <5>1, SMTT(30)
        <5> QED BY <5>1, <5>2
      <4> QED BY <4>2, MinOfTwo
    <3> HIDE DEF Received, type
    <3>3. /\ probe'.busyReceiving = TRUE /\ probe'.received = n + 1
          /\ probe'.prevByte = probe.prevByte
          /\ probe'.framelength = probe.framelength
          /\ DOMAIN probe' = ProbeFields
          /\ probe' = [x \in ProbeFields |-> probe'[x]]
      BY <1>2, <2>1, <3>1, <3>2 DEF ProbeFields
    <3>4. IsProbe(probe') /\ Place(probe') = p + 1
      <4>1. n + 1 \in Nat /\ n + 1 # 0 /\ (n + 1) + 1 = p + 1 /\ n # 0
        BY <1>2, <1>10, <2>1
      <4>2. probe'.prevByte = START_FLAG <=> n + 1 = 0
        BY <1>2, <2>1, <3>3, <4>1
      <4> HIDE DEF n
      <4> QED BY <3>3, <4>1, <4>2, BusyProbe
    <3>5. p + 1 # size
      BY <1>5, <2>4
    <3> QED BY <1>4, <1>7, <2>2, <2>4, <3>3, <3>4, <3>5, ZenonT(30)
            DEF size, whole
  <2> QED BY <2>3, <2>4
<1>11. p = 0 \/ p = 1 \/ p >= 2
  BY <1>2
<1> QED BY <1>8, <1>9, <1>10, <1>11

(* What keeps the invariant wherever the host is, corrects no framing.     *)
LEMMA AstrayStays ==
  ASSUME NEW r, NEW s, IsDriver(s), s.astray # "no",
         \A p \in Nat : \A l : DriverInv(s, p, l) => DriverInv(r, p, l)
  PROVE  r.astray # "no"
<1>1. \A l : DriverInv(s, 2, l)
  BY DEF DriverInv
<1>2. 2 \in Nat
  OBVIOUS
<1>3. DriverInv(r, 2, 0) /\ DriverInv(r, 2, 1)
  BY <1>1, <1>2
<1>4. SUFFICES ASSUME r.astray = "no"
               PROVE  FALSE
  OBVIOUS
<1>5. r.frames[1][2] = 0 /\ r.frames[1][2] = 1
  BY <1>3, <1>4 DEF DriverInv, Good
<1> QED BY <1>5

(* What the driver does while the host reads nothing.                      *)
LEMMA DriverStep ==
  ASSUME Inv, UNCHANGED probe,
         \A p \in Nat : \A l : DriverInv(serial, p, l) => DriverInv(serial', p, l)
  PROVE  Inv'
<1>1. IsDriver(serial)
  BY DEF Inv
<1>2. CASE serial.astray = "no"
  <2>1. IsProbe(probe) /\ Good(serial, Place(probe), probe.framelength)
    BY <1>2 DEF Inv
  <2>2. DriverInv(serial, Place(probe), probe.framelength)
    BY <1>1, <2>1 DEF DriverInv
  <2>3. DriverInv(serial', Place(probe), probe.framelength)
    BY <2>1, <2>2, PlaceType
  <2> QED BY <2>1, <2>3 DEF Inv, DriverInv
<1>3. CASE serial.astray # "no"
  <2>1. DriverInv(serial, 0, 0) /\ 0 \in Nat
    BY <1>1, <1>3 DEF DriverInv
  <2>2. DriverInv(serial', 0, 0)
    BY <2>1
  <2>3. serial'.astray # "no"
    BY <1>1, <1>3, AstrayStays
  <2> QED BY <2>2, <2>3 DEF Inv, DriverInv
<1> QED BY <1>2, <1>3

(* The invariant holds initially, and through every action.                *)
LEMMA InitInv == Init => Inv
<1> SUFFICES ASSUME Init
             PROVE  Inv
  OBVIOUS
<1> DEFINE ring == CIRCBUF_DEF(SERIAL_OUTPUT_BUFFER_SIZE)
<1>1. IsDriver(serial)
  BY DEF Init, openserial_init, IsDriver, Fields
<1>2. /\ serial.tx = ring /\ serial.mode = "OFF" /\ serial.uart = <<>>
      /\ serial.frames = <<>> /\ serial.garbled = FALSE
  BY DEF Init, openserial_init
<1>3. IsTx(ring) /\ ring.fill_level = 0
  BY TxSizeType DEF CIRCBUF_DEF, IsTx, TxRing, TxSize, Wrap, UINT8
<1>4. Contents(ring) = <<>>
  BY <1>3, ContentsType, EmptySeq
<1>5. IsProbe(probe) /\ Place(probe) = 0
  <2>1. /\ DOMAIN probe = ProbeFields /\ probe = [x \in ProbeFields |-> probe[x]]
        /\ probe.busyReceiving = FALSE /\ probe.received = 0
    BY DEF Init, ProbeFields
  <2> QED BY <2>1, IdleProbe
<1> HIDE DEF ring
<1>6. Phase(serial, 0)
  BY <1>2, <1>4, CarriesNone DEF Phase, Silent
<1>7. Good(serial, 0, probe.framelength)
  BY <1>2, <1>3, <1>6 DEF Good
<1> QED BY <1>1, <1>5, <1>7 DEF Inv

LEMMA SlotsInv ==
  ASSUME Inv, InactiveSlot \/ ActiveSlot \/ SerialRxSlot \/ OutputSlot
              \/ StartOfFrame
  PROVE  Inv'
<1>1. UNCHANGED probe
  BY DEF InactiveSlot, ActiveSlot, SerialRxSlot, OutputSlot, StartOfFrame,
         Slot, hostVars
<1>2. ASSUME NEW p \in Nat, NEW l, DriverInv(serial, p, l)
      PROVE  DriverInv(serial', p, l)
  <2>1. CASE InactiveSlot
    BY <1>2, <2>1, StartOutputKeeps DEF InactiveSlot, Slot
  <2>2. CASE ActiveSlot \/ StartOfFrame
    BY <1>2, <2>2, StopKeeps DEF ActiveSlot, StartOfFrame, Slot
  <2>3. CASE SerialRxSlot
    <3>1. PICK b \in Beyond :
                 serial' = openserial_startInput(openserial_stop(serial, b))
      BY <2>3 DEF SerialRxSlot, Slot
    <3> QED BY <1>2, <3>1, StopKeeps, StartInputKeeps
  <2>4. CASE OutputSlot
    <3>1. PICK b \in Beyond :
                 serial' = openserial_startOutput(openserial_stop(serial, b), b)
      BY <2>4 DEF OutputSlot, Slot
    <3> QED BY <1>2, <3>1, StopKeeps, StartOutputKeeps
  <2> QED BY <2>1, <2>2, <2>3, <2>4
<1> QED BY <1>1, <1>2, DriverStep

LEMMA PrintfInv ==
  ASSUME Inv, Printf
  PROVE  Inv'
<1>1. UNCHANGED probe
  BY DEF Printf, hostVars
<1>2. PICK data \in Payloads, type \in {SERIAL_MSG_PKT, SERIAL_MSG_DEB} :
             serial' = openserial_printf(serial, type, data)
  BY DEF Printf
<1>3. data \in Seq(UINT8) /\ type \in UINT8
  BY FlagIsByte, SerialLinkAssumption
<1>4. \A p \in Nat : \A l : DriverInv(serial, p, l) => DriverInv(serial', p, l)
  BY <1>2, <1>3, PrintfKeeps
<1> QED BY <1>1, <1>4, DriverStep

LEMMA UartRxInv ==
  ASSUME Inv, uart_rx_isr
  PROVE  Inv'
<1> DEFINE data == Head(toMote)
<1>1. UNCHANGED probe /\ serial' = isr_openserial_rx(serial, data)
  BY DEF uart_rx_isr
<1> HIDE DEF data
<1>2. IsDriver(serial)
  BY DEF Inv
<1>3. /\ IsDriver(serial') /\ SameCore(serial', serial)
      /\ serial'.astray = serial.astray
  <2>1. CASE serial.mode = "INPUT"
    <3>1. serial' = [serial EXCEPT !.rx = circular_buffer_push(@, data)]
      BY <1>1, <2>1 DEF isr_openserial_rx
    <3> QED BY <1>2, <3>1 DEF IsDriver, Fields, SameCore, SameSending
  <2>2. CASE serial.mode # "INPUT"
    <3>1. serial' = serial
      BY <1>1, <2>2 DEF isr_openserial_rx
    <3> QED BY <1>2, <3>1 DEF SameCore, SameSending
  <2> QED BY <2>1, <2>2
<1>4. \A p \in Nat : \A l : DriverInv(serial, p, l) => DriverInv(serial', p, l)
  BY <1>3, CoreKeeps DEF DriverInv
<1> QED BY <1>1, <1>4, DriverStep

LEMMA UartTxInv ==
  ASSUME Inv, uart_tx_isr
  PROVE  Inv'
<1> DEFINE byte == Head(serial.uart)
           sent == [serial EXCEPT !.uart = Tail(@)]
           p == Place(probe)
           F == serial.frames
           whole == F[1]
<1>1. PICK b \in Beyond :
             Read(byte, IF sent.uart = <<>>
                        THEN isr_openserial_tx(sent, b) ELSE sent)
  BY DEF uart_tx_isr
<1> DEFINE after == IF sent.uart = <<>>
                    THEN isr_openserial_tx(sent, b) ELSE sent
<1>2. serial.uart # <<>> /\ IsDriver(serial)
  BY DEF uart_tx_isr, Inv
<1>3. CASE serial.astray = "no"
  <2>1. IsProbe(probe) /\ Good(serial, p, probe.framelength) /\ p \in Nat
    BY <1>3, PlaceType DEF Inv
  <2>2. IsDriver(after) /\ (after.astray = "no" => FitsRead(after, serial, p))
    BY <1>2, <2>1, ByteSent
  <2> HIDE DEF after, byte, sent
  <2>3. Read(byte, after)
    BY <1>1 DEF after
  <2>4. IsDriver(serial') /\ serial'.astray = after.astray
    BY <2>2, <2>3, ReadFields
  <2>5. SUFFICES ASSUME after.astray = "no"
                 PROVE  /\ IsProbe(probe')
                        /\ Good(serial', Place(probe'), probe'.framelength)
    BY <2>4 DEF Inv
  <2>6. /\ after.frames = F /\ ~after.garbled /\ IsTx(after.tx)
        /\ Len(F) >= 1 /\ p + 1 <= Len(whole)
        /\ byte = whole[p + 1]
        /\ p + 1 < Len(whole) => Phase(after, p + 1)
        /\ p + 1 = Len(whole) =>
             \A t : SameSending(t, after) /\ t.tx = after.tx
                    /\ t.frames = Tail(F) => Phase(t, 0)
    BY <2>2, <2>5 DEF FitsRead, byte
  <2>7. F \in Seq(WellFramed) /\ (p >= 2 => whole[2] = probe.framelength)
    BY <2>1 DEF Good
  <2>8. /\ IsProbe(probe')
        /\ p + 1 < Len(whole) =>
             /\ serial' = after /\ Place(probe') = p + 1
             /\ p + 1 >= 2 => whole[2] = probe'.framelength
        /\ p + 1 = Len(whole) =>
             /\ SameSending(serial', after) /\ serial'.tx = after.tx
             /\ serial'.frames = Tail(F) /\ Place(probe') = 0
    <3> HIDE DEF p
    <3> QED BY <2>1, <2>2, <2>3, <2>6, <2>7, ReadAsPrinted DEF p
  <2>9. Len(whole) \in Nat
    <3>1. 1 \in 1 .. Len(F)
      BY <2>6, <2>7, LenProperties
    <3> QED BY <2>7, <3>1, ElementOfSeq, FrameTypes
  <2>10. CASE p + 1 < Len(whole)
    BY <2>6, <2>7, <2>8, <2>10 DEF Good
  <2>11. CASE p + 1 = Len(whole)
    <3>1. Tail(F) \in Seq(WellFramed)
      BY <2>6, <2>7
    <3>2. Phase(serial', 0)
      BY <2>6, <2>8, <2>11
    <3>3. ~serial'.garbled
      BY <2>6, <2>8, <2>11, Zenon DEF SameSending
    <3>4. Place(probe') = 0 /\ ~(Place(probe') >= 2)
      BY <2>8, <2>11
    <3>5. serial'.frames = Tail(F) /\ IsTx(serial'.tx)
      BY <2>6, <2>8, <2>11
    <3> QED BY <2>8, <3>1, <3>2, <3>3, <3>4, <3>5 DEF Good
  <2> HIDE DEF p, whole
  <2>12. p + 1 < Len(whole) \/ p + 1 = Len(whole)
    BY <2>1, <2>6, <2>9
  <2> QED BY <2>10, <2>11, <2>12
<1>4. CASE serial.astray # "no"
  <2>1. IsDriver(after) /\ (after.astray = "no" => FitsRead(after, serial, 0))
    BY <1>2, <1>4, ByteSent
  <2>2. after.astray # "no"
    BY <1>4, <2>1 DEF FitsRead
  <2> HIDE DEF after, byte, sent
  <2>3. Read(byte, after)
    BY <1>1 DEF after
  <2>4. IsDriver(serial') /\ serial'.astray = after.astray
    BY <2>1, <2>3, ReadFields
  <2> QED BY <2>2, <2>4 DEF Inv
<1> QED BY <1>3, <1>4

LEMMA NextInv == Inv /\ [Next]_vars => Inv'
<1> SUFFICES ASSUME Inv, [Next]_vars
             PROVE  Inv'
  OBVIOUS
<1>1. CASE InactiveSlot \/ ActiveSlot \/ SerialRxSlot \/ OutputSlot
           \/ StartOfFrame
  BY <1>1, SlotsInv
<1>2. CASE Printf
  BY <1>2, PrintfInv
<1>3. CASE uart_tx_isr
  BY <1>3, UartTxInv
<1>4. CASE uart_rx_isr
  BY <1>4, UartRxInv
<1>5. CASE Type \/ LoseByte \/ UNCHANGED vars
  <2>1. UNCHANGED <<serial, probe>>
    BY <1>5 DEF Type, LoseByte, vars
  <2> QED BY <2>1, DriverStep
<1> QED BY <1>1, <1>2, <1>3, <1>4, <1>5 DEF Next

(* Whatever is printed, sent, read and stopped, as long as nothing led the *)
(* framing astray the host and the driver are at the same place of the     *)
(* same frame, and the ring holds the rest (Inv).                          *)
THEOREM SerialInvariant == Spec => []Inv
<1> QED BY InitInv, NextInv, PTL DEF Spec

(* The host reads what was printed and asked, whole and in order, unless   *)
(* a frame did not fit, was cut short, has START_FLAG for its length or    *)
(* had its length read from behind the ring.                               *)
THEOREM FramesStayIntact == Spec => []FramesIntact
<1>1. Inv => FramesIntact
  BY DEF Inv, Good, FramesIntact
<1> QED BY <1>1, SerialInvariant, PTL

(* When the line is silent and frames wait, openserial_startOutput begins  *)
(* the next, unless its length would be sought behind the ring.            *)
THEOREM NoFrameIsStuck == Spec => []NoFrameWaits
<1>1. Inv => NoFrameWaits
  <2> SUFFICES ASSUME Inv, serial.astray = "no", serial.uart = <<>>,
                      serial.mode # "OUTPUT", serial.frames # <<>>,
                      serial.tx.tail + 1 \in DOMAIN serial.tx.buffer,
                      NEW b \in Beyond
               PROVE  openserial_startOutput(serial, b).mode = "OUTPUT"
    BY DEF NoFrameWaits
  <2> DEFINE p == Place(probe)
             F == serial.frames
             ring == serial.tx
  <2>1. IsDriver(serial) /\ IsProbe(probe) /\ p \in Nat
        /\ Good(serial, p, probe.framelength)
    BY PlaceType DEF Inv
  <2>2. F \in Seq(WellFramed) /\ IsTx(ring) /\ Phase(serial, p)
    BY <2>1 DEF Good
  <2>3. Carries(Contents(ring), F, 1, 0)
    BY <2>2 DEF Phase, Silent, Ending, Asking, ThenAsking, EndingThen
  <2>4. Len(F) \in Nat /\ 1 \in 1 .. Len(F) /\ 1 \in 1 .. Len(F) + 1
    BY <2>2, LenProperties, EmptySeq, SMTT(30)
  <2>5. /\ ring.fill_level >= Len(F[1]) /\ Len(F[1]) \in 3 .. 255
        /\ Contents(ring)[2] = Len(F[1]) - 1
    BY <2>2, <2>3, <2>4, WholeFrameIsIn, ZenonT(30)
  <2>6. ring.fill_level >= 2 /\ Len(F[1]) - 1 < ring.fill_level
        /\ ring.fill_level > 0
    <3> DEFINE length == Len(F[1])
    <3>1. ring.fill_level \in Nat
      BY <2>2, TxTypes
    <3>2. length \in 3 .. 255 /\ ring.fill_level >= length
      BY <2>5
    <3> HIDE DEF length, ring
    <3>3. ring.fill_level >= 2 /\ length - 1 < ring.fill_level
          /\ ring.fill_level > 0
      BY <3>1, <3>2, SMTT(30)
    <3> QED BY <3>3 DEF length
  <2>7. At(ring, ring.tail + 1, b) = Len(F[1]) - 1
    BY <2>2, <2>5, <2>6, SecondByte
  <2>8. WholeFrame(ring, b)
    BY <2>6, <2>7 DEF WholeFrame
  <2>9. DriverInv(serial, p, probe.framelength)
    BY <2>1 DEF DriverInv
  <2> QED BY <2>1, <2>8, <2>9, StartOutputKeeps
<1> QED BY <1>1, SerialInvariant, PTL
=============================================================================

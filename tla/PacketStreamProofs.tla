------------------------- MODULE PacketStreamProofs -------------------------
(***************************************************************************)
(* Proofs about PacketStream, for every set of tracks and packet sizes.    *)
(***************************************************************************)
EXTENDS PacketStream, WellFoundedInduction, TLAPS

(***************************************************************************)
(* Remainders.                                                             *)
(***************************************************************************)
\* Adding multiples of n does not change a remainder.
LEMMA Remainder ==
  ASSUME NEW n \in Nat, n > 0, NEW q \in Int, NEW r \in 0 .. n - 1, NEW x \in Int,
         x = n * q + r
  PROVE  x % n = r
<1> DEFINE d == x \div n
<1>1. d \in Int /\ x % n \in 0 .. n - 1 /\ x = n * d + (x % n)
  OBVIOUS
<1> HIDE DEF d
<1>2. n * (q - d) = (x % n) - r
  BY <1>1
<1>3. CASE q - d >= 1
  <2>1. n * (q - d) >= n
    BY <1>1, <1>3
  <2> QED  BY <1>1, <1>2, <2>1
<1>4. CASE q - d <= -1
  <2>1. n * (q - d) <= -n
    BY <1>1, <1>4
  <2> QED  BY <1>1, <1>2, <2>1
<1>5. CASE q - d = 0
  BY <1>1, <1>2, <1>5
<1> QED
  BY <1>1, <1>3, <1>4, <1>5

\* The remainder of a position that passed the end of the track at most twice.
LEMMA Wrapped ==
  ASSUME NEW n \in Nat, n > 0, NEW x \in Nat, x <= 2 * n
  PROVE  x % n = IF x < n THEN x ELSE IF x < 2 * n THEN x - n ELSE 0
<1>1. CASE x < n
  BY <1>1, Remainder, x = n * 0 + x
<1>2. CASE x >= n /\ x < 2 * n
  BY <1>2, Remainder, x = n * 1 + (x - n)
<1>3. CASE x = 2 * n
  BY <1>3, Remainder, x = n * 2 + 0
<1> QED
  BY <1>1, <1>2, <1>3

\* The remainder of an even number by an even number is even.
LEMMA EvenRemainder ==
  ASSUME NEW n \in Nat, n > 0, n % 2 = 0, NEW x \in Nat, x % 2 = 0
  PROVE  x % n \in 0 .. n - 1 /\ (x % n) % 2 = 0
<1> DEFINE d == x \div n
           m == n \div 2
<1>1. d \in Int /\ x % n \in 0 .. n - 1 /\ x = n * d + (x % n)
  OBVIOUS
<1>2. m \in Int /\ n = 2 * m
  OBVIOUS
<1> HIDE DEF d, m
<1>3. n * d = 2 * (m * d) /\ m * d \in Int
  BY <1>1, <1>2
<1> DEFINE e == m * d
<1> HIDE DEF e
<1>4. e \in Int /\ x = 2 * e + (x % n)
  BY <1>1, <1>3 DEF e
<1> QED
  BY <1>1, <1>4

(***************************************************************************)
(* Tracks and packets.                                                     *)
(***************************************************************************)
\* What a track holds at an even position and after it.
LEMMA PairAt ==
  ASSUME NEW t, IsTrack(t), NEW m, NEW k \in 0 .. Len(t) - 1, k % 2 = 0
  PROVE  <<At(t, k, m), At(t, k + 1, m)>> \in Pairs
<1>1. Len(t) \in Nat /\ Len(t) % 2 = 0
  BY DEF IsTrack
<1>2. k + 1 < Len(t)
  BY <1>1
<1>3. (k + 1) + 1 = k + 2
  OBVIOUS
<1> QED
  BY <1>1, <1>2, <1>3 DEF IsTrack, At

\* Where a byte of a packet comes from.
LEMMA CutAt ==
  ASSUME NEW t, IsTrack(t), NEW m, NEW pos \in 0 .. Len(t) - 1, NEW size \in Nat, size > 3,
         NEW j \in 0 .. size - 1
  PROVE  Cut(t, pos, size, m)[j] =
           IF j < Len(t) - pos THEN At(t, pos + j, m) ELSE At(t, j - (Len(t) - pos), m)
<1>1. Len(t) \in Nat
  BY DEF IsTrack
<1>2. size - Rest(t, pos, size) = Len(t) - pos
  BY <1>1 DEF Rest
<1> QED
  BY <1>1, <1>2 DEF Cut, RollsOver

\* A packet no longer than the track is a piece of the circular track.
LEMMA CutIsTrack ==
  ASSUME NEW t, IsTrack(t), NEW m, NEW pos \in 0 .. Len(t) - 1, NEW size \in Nat, size > 3,
         size <= Len(t)
  PROVE  /\ \A j \in 0 .. size - 1 : Cut(t, pos, size, m)[j] = At(t, (pos + j) % Len(t), m)
         /\ Cursor(t, pos, size) = (pos + size) % Len(t)
         /\ Cursor(t, pos, size) \in 0 .. Len(t) - 1
<1>1. Len(t) \in Nat /\ Len(t) > 0
  OBVIOUS
<1>2. ASSUME NEW j \in 0 .. size - 1
      PROVE  Cut(t, pos, size, m)[j] = At(t, (pos + j) % Len(t), m)
  <2>1. (pos + j) % Len(t) = IF pos + j < Len(t) THEN pos + j ELSE pos + j - Len(t)
    BY <1>1, Wrapped
  <2>2. j - (Len(t) - pos) = pos + j - Len(t)
    BY <1>1
  <2>3. j < Len(t) - pos <=> pos + j < Len(t)
    BY <1>1
  <2> QED  BY <2>1, <2>2, <2>3, CutAt
<1>3. (pos + size) % Len(t) = IF pos + size < Len(t) THEN pos + size ELSE pos + size - Len(t)
  BY <1>1, Wrapped
<1>4. Cursor(t, pos, size) = IF pos + size < Len(t) THEN pos + size ELSE pos + size - Len(t)
  BY <1>1 DEF Cursor, RollsOver, Rest
<1>5. Cursor(t, pos, size) \in 0 .. Len(t) - 1
  BY <1>1, <1>4
<1> QED
  BY <1>2, <1>3, <1>4, <1>5

\* What FillBuffer gives when there is a track.
LEMMA FilledIs ==
  ASSUME NEW t, IsTrack(t), NEW m, NEW pos \in 0 .. Len(t) - 1, NEW size \in Nat, size > 3
  PROVE  LET p   == Cut(t, pos, size, m)
             cur == Cursor(t, pos, size)
             fl  == Filled(t, pos, size, m)
         IN  /\ fl.start = pos
             /\ Astride(p, size) =>
                  /\ fl.bytes = [j \in 0 .. size |-> IF j < size THEN p[j] ELSE At(t, cur, m)]
                  /\ fl.count = size + 1 /\ fl.next = (cur + 1) % Len(t)
             /\ ~Astride(p, size) =>
                  fl.bytes = p /\ fl.count = size /\ fl.next = cur % Len(t)
<1>1. Len(t) \in Nat /\ Len(t) > 0 /\ t # <<>>
  BY DEF IsTrack
<1>2. pos % Len(t) = pos
  BY <1>1, Wrapped
<1> QED
  BY <1>1, <1>2 DEF Filled

\* The whole packet, with the byte that a command at its end adds.
LEMMA FilledIsTrack ==
  ASSUME NEW t, IsTrack(t), NEW m, NEW pos \in 0 .. Len(t) - 1, NEW size \in Nat, size > 3,
         size <= Len(t)
  PROVE  LET fl == Filled(t, pos, size, m)
         IN  /\ fl.count \in Nat
             /\ \A j \in 0 .. fl.count - 1 : fl.bytes[j] = At(t, (pos + j) % Len(t), m)
             /\ fl.next = (pos + fl.count) % Len(t)
<1> DEFINE p == Cut(t, pos, size, m)
           cur == Cursor(t, pos, size)
<1>1. Len(t) \in Nat /\ Len(t) > 0
  OBVIOUS
<1>2. /\ \A j \in 0 .. size - 1 : p[j] = At(t, (pos + j) % Len(t), m)
      /\ cur = (pos + size) % Len(t) /\ cur \in 0 .. Len(t) - 1
  BY CutIsTrack
<1> DEFINE fl == Filled(t, pos, size, m)
<1>3. /\ Astride(p, size) =>
           /\ fl.bytes = [j \in 0 .. size |-> IF j < size THEN p[j] ELSE At(t, cur, m)]
           /\ fl.count = size + 1 /\ fl.next = (cur + 1) % Len(t)
      /\ ~Astride(p, size) => fl.bytes = p /\ fl.count = size /\ fl.next = cur % Len(t)
  BY FilledIs
<1>6. cur = IF pos + size < Len(t) THEN pos + size ELSE pos + size - Len(t)
  BY <1>1 DEF Cursor, RollsOver, Rest
<1> HIDE DEF p, cur, fl
<1>4. CASE Astride(p, size)
  <2> DEFINE n == Len(t)
             x == (cur + 1) % n
             y == (pos + (size + 1)) % n
  <2>9. cur \in 0 .. n - 1 /\ n \in Nat /\ n > 0
    BY <1>1, <1>2
  <2>10. cur + 1 \in Nat /\ cur + 1 <= 2 * n
    BY <2>9
  <2>1. x = IF cur + 1 < n THEN cur + 1 ELSE IF cur + 1 < 2 * n THEN cur + 1 - n ELSE 0
    BY <2>9, <2>10, Wrapped
  <2>2. pos + (size + 1) \in Nat /\ pos + (size + 1) <= 2 * n
    BY <1>1
  <2>3. y = IF pos + (size + 1) < n THEN pos + (size + 1)
            ELSE IF pos + (size + 1) < 2 * n THEN pos + (size + 1) - n ELSE 0
    BY <1>1, <2>2, Wrapped
  <2> HIDE DEF x, y
  <2>4. x = y
    BY <1>1, <1>6, <2>1, <2>3
  <2>5. ASSUME NEW j \in 0 .. (size + 1) - 1
        PROVE  (IF j < size THEN p[j] ELSE At(t, cur, m)) = At(t, (pos + j) % n, m)
    <3>1. CASE j < size
      <4>1. j \in 0 .. size - 1
        BY <3>1
      <4> QED  BY <1>2, <3>1, <4>1
    <3>2. CASE ~(j < size)
      <4>1. j = size
        BY <3>2
      <4> QED  BY <1>2, <3>2, <4>1
    <3> QED  BY <3>1, <3>2
  <2>6. /\ fl.count = size + 1 /\ fl.next = x
        /\ fl.bytes = [j \in 0 .. size |-> IF j < size THEN p[j] ELSE At(t, cur, m)]
    BY <1>3, <1>4 DEF x
  <2>7. \A j \in 0 .. (size + 1) - 1 : j \in 0 .. size
    OBVIOUS
  <2>8. \A j \in 0 .. (size + 1) - 1 : fl.bytes[j] = At(t, (pos + j) % n, m)
    BY <2>5, <2>6, <2>7
  <2>11. fl.count \in Nat /\ fl.next = (pos + fl.count) % n
    BY <2>4, <2>6 DEF y
  <2>12. \A j \in 0 .. fl.count - 1 : fl.bytes[j] = At(t, (pos + j) % n, m)
    BY <2>6, <2>8
  <2> QED  BY <2>11, <2>12 DEF fl
<1>5. CASE ~Astride(p, size)
  <2>3. cur \in 0 .. Len(t) - 1 /\ cur \in Nat /\ cur <= 2 * Len(t)
    BY <1>1, <1>2
  <2>1. cur % Len(t) = cur
    BY <1>1, <2>3, Wrapped
  <2>2. fl.count = size /\ fl.next = cur /\ fl.bytes = p
    BY <1>3, <1>5, <2>1
  <2> QED  BY <1>2, <2>2 DEF fl
<1> QED
  BY <1>4, <1>5

\* A packet that starts between two pairs is made of pairs.
LEMMA PairCut ==
  ASSUME NEW t, IsTrack(t), NEW m, NEW pos \in 0 .. Len(t) - 1, pos % 2 = 0,
         NEW size \in Nat, size > 3, size % 2 = 0, size <= Len(t),
         NEW j \in 0 .. size - 1, j % 2 = 0
  PROVE  <<Cut(t, pos, size, m)[j], Cut(t, pos, size, m)[j + 1]>> \in Pairs
<1>1. Len(t) \in Nat /\ Len(t) % 2 = 0
  BY DEF IsTrack
<1>2. j + 1 \in 0 .. size - 1
  OBVIOUS
<1>3. CASE j < Len(t) - pos
  <2>1. j + 1 < Len(t) - pos
    BY <1>1, <1>3
  <2>2. (pos + j) % 2 = 0 /\ pos + j \in 0 .. Len(t) - 1 /\ pos + (j + 1) = (pos + j) + 1
    BY <1>1, <1>3
  <2>3. <<At(t, pos + j, m), At(t, (pos + j) + 1, m)>> \in Pairs
    BY <2>2, PairAt
  <2>4. Cut(t, pos, size, m)[j] = At(t, pos + j, m)
        /\ Cut(t, pos, size, m)[j + 1] = At(t, (pos + j) + 1, m)
    BY <1>2, <1>3, <2>1, <2>2, CutAt
  <2> QED  BY <2>3, <2>4
<1>4. CASE j >= Len(t) - pos
  <2> DEFINE k == j - (Len(t) - pos)
  <2>1. k % 2 = 0 /\ k \in 0 .. Len(t) - 1 /\ (j + 1) - (Len(t) - pos) = k + 1
    BY <1>1, <1>4
  <2>2. ~(j < Len(t) - pos) /\ ~(j + 1 < Len(t) - pos)
    BY <1>1, <1>4
  <2> HIDE DEF k
  <2>3. <<At(t, k, m), At(t, k + 1, m)>> \in Pairs
    BY <2>1, PairAt
  <2>4. Cut(t, pos, size, m)[j] = At(t, k, m) /\ Cut(t, pos, size, m)[j + 1] = At(t, k + 1, m)
    BY <1>2, <2>1, <2>2, CutAt DEF k
  <2> QED  BY <2>3, <2>4
<1> QED
  BY <1>1, <1>3, <1>4

\* The byte that is added does not change the end that may fool iscmd.
LEMMA FooledCut ==
  ASSUME NEW t, IsTrack(t), NEW m, NEW pos \in 0 .. Len(t) - 1, NEW size \in Nat, size > 3
  PROVE  Fooled(Filled(t, pos, size, m).bytes, size) <=> Fooled(Cut(t, pos, size, m), size)
<1> DEFINE p == Cut(t, pos, size, m)
           b == Filled(t, pos, size, m).bytes
<1>1. \/ b = p
      \/ b = [j \in 0 .. size |-> IF j < size THEN p[j] ELSE At(t, Cursor(t, pos, size), m)]
  BY FilledIs
<1>2. size - 2 \in 0 .. size /\ size - 2 < size /\ size - 1 \in 0 .. size /\ size - 1 < size
  OBVIOUS
<1> HIDE DEF b, p
<1>3. b[size - 2] = p[size - 2] /\ b[size - 1] = p[size - 1]
  BY <1>1, <1>2
<1> QED
  BY <1>3 DEF Fooled, b, p

\* A packet that starts between two pairs and holds a number of them has no
\* byte added, ends in no command and leaves the position between two pairs.
LEMMA FilledPairs ==
  ASSUME NEW t, IsTrack(t), NEW m, NEW pos \in 0 .. Len(t) - 1, pos % 2 = 0,
         NEW size \in Nat, size > 3, size % 2 = 0, size <= Len(t),
         ~Fooled(Filled(t, pos, size, m).bytes, size)
  PROVE  LET fl == Filled(t, pos, size, m)
         IN  /\ fl.count = size /\ fl.bytes = Cut(t, pos, size, m)
             /\ fl.bytes[size - 1] \notin Commands
             /\ fl.next % 2 = 0
<1> DEFINE p == Cut(t, pos, size, m)
           cur == Cursor(t, pos, size)
           fl == Filled(t, pos, size, m)
<1>1. Len(t) \in Nat /\ Len(t) > 0 /\ Len(t) % 2 = 0
  BY DEF IsTrack
<1>2. size - 2 \in 0 .. size - 1 /\ (size - 2) % 2 = 0 /\ (size - 2) + 1 = size - 1
  OBVIOUS
<1>3. <<p[size - 2], p[size - 1]>> \in Pairs
  <2>1. <<p[size - 2], p[(size - 2) + 1]>> \in Pairs
    BY <1>2, PairCut
  <2> QED  BY <1>2, <2>1
<1>4. /\ fl.start = pos
      /\ Astride(p, size) =>
           /\ fl.bytes = [j \in 0 .. size |-> IF j < size THEN p[j] ELSE At(t, cur, m)]
           /\ fl.count = size + 1 /\ fl.next = (cur + 1) % Len(t)
      /\ ~Astride(p, size) => fl.bytes = p /\ fl.count = size /\ fl.next = cur % Len(t)
  BY FilledIs
<1>8. cur = IF pos + size >= Len(t) THEN pos + size - Len(t) ELSE pos + size
  BY <1>1 DEF Cursor, RollsOver, Rest
<1>13. ~Fooled(p, size)
  BY FooledCut
<1> DEFINE n == Len(t)
<1>9. n \in Nat /\ n % 2 = 0 /\ pos < n
  BY <1>1
<1> HIDE DEF n, cur, fl
<1>10. cur = IF pos + size >= n THEN pos + size - n ELSE pos + size
  BY <1>8 DEF n
<1>11. (pos + size) % 2 = 0 /\ pos + size \in Nat
  BY <1>9
<1>12. pos + size >= n => (pos + size - n) % 2 = 0
  BY <1>9, <1>11
<1>5. cur \in Nat /\ cur % 2 = 0
  BY <1>9, <1>10, <1>11, <1>12
<1> HIDE DEF p
<1>6. ~Astride(p, size) /\ p[size - 1] \notin Commands
  BY <1>3, <1>13 DEF Pairs, Commands, Astride, iscmd, Fooled
<1>7. (cur % Len(t)) % 2 = 0
  BY <1>1, <1>5, EvenRemainder
<1> QED
  BY <1>4, <1>6, <1>7 DEF p, fl

\* The position after a packet is a natural number, and with no data it stays.
LEMMA FilledNext ==
  ASSUME NEW t, IsTrack(t), NEW m, NEW pos \in Nat, NEW size \in Nat, size > 3
  PROVE  Filled(t, pos, size, m).next \in Nat
<1>1. CASE t = <<>>
  BY <1>1 DEF Filled
<1>2. CASE t # <<>>
  <2> DEFINE cur == Cursor(t, pos % Len(t), size)
  <2>1. Len(t) \in Nat /\ Len(t) > 0
    BY <1>2 DEF IsTrack
  <2>2. cur \in Int
    BY <2>1 DEF Cursor, RollsOver, Rest
  <2> HIDE DEF cur
  <2>3. cur % Len(t) \in Nat /\ (cur + 1) % Len(t) \in Nat
    BY <2>1, <2>2
  <2>4. Filled(t, pos, size, m).next \in {cur % Len(t), (cur + 1) % Len(t)}
    BY <1>2 DEF Filled, cur
  <2> QED  BY <2>3, <2>4
<1> QED
  BY <1>1, <1>2

\* Every set of natural numbers that is not empty has a least element.
LEMMA LeastOf ==
  ASSUME NEW S, S \subseteq Nat, S # {}
  PROVE  \E m \in S : \A k \in S : m <= k
<1>1. PICK m \in S : \A k \in S : <<k, m>> \notin OpToRel(<, Nat)
  BY NatLessThanWellFounded, WFMin
<1>2. \A k \in S : ~(k < m)
  BY <1>1 DEF OpToRel
<1> QED
  BY <1>2

\* The loop that looks for a place finds the first one, in an even packet.
LEMMA InsertionPlace ==
  ASSUME NEW p, NEW count \in Nat, count > 3, count % 2 = 0
  PROVE  /\ Insertion(p, count) \in 2 .. count
         /\ Quiet(p, count, Insertion(p, count))
<1> DEFINE S == {k \in 2 .. count + 4 : Quiet(p, count, k)}
           First(k) == Quiet(p, count, k) /\ \A j \in 2 .. k - 1 : ~Quiet(p, count, j)
<1>1. count \in S
  BY DEF Quiet
<1>7. S \subseteq Nat /\ S # {}
  BY <1>1
<1> HIDE DEF S
<1>2. PICK m \in S : \A k \in S : m <= k
  BY <1>7, LeastOf
<1> USE DEF S
<1>3. m \in 2 .. count + 4 /\ First(m)
  BY <1>2
<1>4. Insertion(p, count) = CHOOSE k \in 2 .. count + 4 : First(k)
  BY DEF Insertion
<1>5. Insertion(p, count) \in 2 .. count + 4 /\ First(Insertion(p, count))
  BY <1>3, <1>4
<1>6. Insertion(p, count) <= count
  BY <1>1, <1>5
<1> QED
  BY <1>5, <1>6

(***************************************************************************)
(* The packet that was sent last is the one its fields say.                *)
(***************************************************************************)
Made ==
  Packet =>
    \E m \in Memory :
      LET f == Filled(track, packet.start, packet.size, m)
      IN  /\ packet.start \in 0 .. Len(track) - 1 /\ packet.size \in Sizes
          /\ packet.bytes = f.bytes /\ packet.count = f.count /\ trackbuffer_pos = f.next
          /\ packet.patched = Patched(packet.bytes, packet.count)
          /\ packet.i = Insertion(packet.bytes, packet.count)
          /\ packet.sent = IF packet.check /\ Behind(packet.bytes, packet.count) < 0 THEN <<>>
                           ELSE Sent(packet.bytes, packet.count, packet.check)

\* As long as the stream is in step, its packets are made of pairs.
InStep == ~skewed => trackbuffer_pos % 2 = 0 /\ (Packet => Paired)

IInv == TypeOK /\ Made /\ InStep

LEMMA InitIInv == Init => IInv
<1> SUFFICES ASSUME Init PROVE IInv
  OBVIOUS
<1>1. skewed \in BOOLEAN /\ ~Packet
  BY DEF Init, Packet
<1>3. trackbuffer_pos = 0 /\ trackbuffer_pos % 2 = 0
  BY DEF Init
<1>2. track \in Tracks /\ packetsize \in Sizes /\ trackbuffer_pos \in Nat
      /\ checkalignement \in 0 .. CheckPeriod
  BY PacketAssumption DEF Init
<1> QED
  BY <1>1, <1>2, <1>3 DEF IInv, TypeOK, Made, InStep

LEMMA NextIInv == IInv /\ [Next]_vars => IInv'
<1> SUFFICES ASSUME IInv, [Next]_vars PROVE IInv'
  OBVIOUS
<1> USE DEF IInv
<1>1. CASE SendPacket
  <2> DEFINE start == trackbuffer_pos % Len(track)
             f(m) == Filled(track, trackbuffer_pos, packetsize, m)
             g(m) == Filled(track, start, packetsize, m)
  <2>1. PICK m \in Memory :
          /\ checkalignement' = Counted /\ trackbuffer_pos' = f(m).next
          /\ packet' = [start |-> f(m).start, size |-> packetsize,
                        count |-> f(m).count, bytes |-> f(m).bytes,
                        patched |-> Patched(f(m).bytes, f(m).count),
                        check |-> Counted = 0, i |-> Insertion(f(m).bytes, f(m).count),
                        sent |-> IF Counted = 0 /\ Behind(f(m).bytes, f(m).count) < 0 THEN <<>>
                                 ELSE Sent(f(m).bytes, f(m).count, Counted = 0)]
          /\ skewed' = (skewed \/ (track # <<>> /\ Skews(f(m).bytes)))
          /\ UNCHANGED <<track, packetsize>>
    BY <1>1 DEF SendPacket
  <2>2. IsTrack(track) /\ trackbuffer_pos \in Nat
    BY PacketAssumption DEF TypeOK
  <2>3. packetsize \in Nat /\ packetsize > 3 /\ packetsize \in Sizes
    BY PacketAssumption DEF TypeOK
  <2>4. trackbuffer_pos' \in Nat
    BY <2>1, <2>2, <2>3, FilledNext
  <2>5. checkalignement' \in 0 .. CheckPeriod
    BY <2>1, PacketAssumption DEF Counted, TypeOK
  <2>6. TypeOK'
    <3>1. skewed' \in BOOLEAN
      BY <2>1 DEF TypeOK
    <3>2. track' \in Tracks /\ packetsize' \in Sizes
      BY <2>1 DEF TypeOK
    <3> QED  BY <2>4, <2>5, <3>1, <3>2 DEF TypeOK
  <2>7. CASE track = <<>>
    <3>1. ~Packet' /\ trackbuffer_pos' = trackbuffer_pos /\ (skewed' <=> skewed)
      BY <2>1, <2>7 DEF Packet, Filled, TypeOK
    <3> QED  BY <2>6, <3>1 DEF Made, InStep
  <2>8. CASE track # <<>>
    <3>1. Len(track) \in Nat /\ Len(track) > 0 /\ Len(track) % 2 = 0
      BY <2>2, <2>8 DEF IsTrack
    <3>2. start \in 0 .. Len(track) - 1
      BY <2>2, <3>1
    <3>3. start % Len(track) = start
      BY <3>1, <3>2, Wrapped
    <3>4. f(m) = g(m) /\ f(m).start = start
      BY <2>8, <3>3 DEF Filled
    <3> HIDE DEF start, f, g
    <3>5. packet'.start = start /\ packet'.size = packetsize /\ packet'.count = g(m).count
          /\ packet'.bytes = g(m).bytes /\ trackbuffer_pos' = g(m).next
      BY <2>1, <3>4
    <3>6. /\ packet'.patched = Patched(packet'.bytes, packet'.count)
          /\ packet'.i = Insertion(packet'.bytes, packet'.count)
          /\ packet'.sent = IF packet'.check /\ Behind(packet'.bytes, packet'.count) < 0 THEN <<>>
                            ELSE Sent(packet'.bytes, packet'.count, packet'.check)
      BY <2>1
    <3>7. Made'
      <4>1. g(m) = Filled(track', packet'.start, packet'.size, m)
        BY <2>1, <3>5 DEF g
      <4>2. packet'.start \in 0 .. Len(track') - 1 /\ packet'.size \in Sizes
        BY <2>1, <2>3, <3>2, <3>5
      <4> QED  BY <3>5, <3>6, <4>1, <4>2 DEF Made
    <3>8. ASSUME ~skewed'
          PROVE  trackbuffer_pos' % 2 = 0 /\ Paired'
      <4>1. trackbuffer_pos % 2 = 0 /\ ~Skews(g(m).bytes)
        BY <2>1, <2>8, <3>4, <3>8 DEF InStep
      <4>2. start % 2 = 0
        BY <2>2, <3>1, <4>1, EvenRemainder DEF start
      <4>3. packetsize % 2 = 0 /\ packetsize <= Len(track) /\ ~Fooled(g(m).bytes, packetsize)
        BY <2>3, <3>1, <4>1 DEF Skews
      <4>4. g(m).next % 2 = 0
        BY <2>2, <2>3, <3>2, <4>2, <4>3, FilledPairs DEF g
      <4> QED  BY <2>1, <3>5, <4>2, <4>3, <4>4 DEF Paired
    <3> QED  BY <2>6, <3>7, <3>8 DEF InStep
  <2> QED  BY <2>7, <2>8
<1>2. CASE Seek
  BY <1>2 DEF Seek, TypeOK, Made, Packet, InStep
<1>3. CASE SetUSBBufferSize
  BY <1>3 DEF SetUSBBufferSize, TypeOK, Made, Packet, InStep
<1>4. CASE UNCHANGED vars
  BY <1>4 DEF vars, TypeOK, Made, Packet, InStep, Paired
<1> QED
  BY <1>1, <1>2, <1>3, <1>4 DEF Next

LEMMA Inductive == Spec => []IInv
  BY InitIInv, NextIInv, PTL DEF Spec

(***************************************************************************)
(* Type correctness: the position in the track is a natural number and the *)
(* countdown never passes zero, for every period.                          *)
(***************************************************************************)
THEOREM StreamTypes == Spec => []TypeOK
  BY Inductive, PTL DEF IInv

(***************************************************************************)
(* FillBuffer sends the circular track piece after piece: nothing is lost, *)
(* doubled or read past the end, for every track and every packet size up  *)
(* to its length.                                                          *)
(***************************************************************************)
THEOREM PacketsFollowTrack == Spec => []PacketIsTrack
<1>1. IInv => PacketIsTrack
  <2> SUFFICES ASSUME IInv, Packet, packet.size <= Len(track)
               PROVE  /\ \A j \in 0 .. packet.count - 1 :
                           packet.bytes[j] = track[((packet.start + j) % Len(track)) + 1]
                      /\ trackbuffer_pos = (packet.start + packet.count) % Len(track)
    BY DEF PacketIsTrack
  <2>1. IsTrack(track) /\ Len(track) \in Nat
    BY PacketAssumption DEF IInv, TypeOK, IsTrack
  <2>2. PICK m \in Memory :
          LET fl == Filled(track, packet.start, packet.size, m)
          IN  /\ packet.start \in 0 .. Len(track) - 1 /\ packet.size \in Sizes
              /\ packet.bytes = fl.bytes /\ packet.count = fl.count /\ trackbuffer_pos = fl.next
    BY DEF IInv, Made
  <2>3. packet.size \in Nat /\ packet.size > 3
    BY <2>2, PacketAssumption
  <2>4. LET fl == Filled(track, packet.start, packet.size, m)
        IN  /\ fl.count \in Nat
            /\ \A j \in 0 .. fl.count - 1 :
                 fl.bytes[j] = At(track, (packet.start + j) % Len(track), m)
            /\ fl.next = (packet.start + fl.count) % Len(track)
    BY <2>1, <2>2, <2>3, FilledIsTrack
  <2>5. packet.count \in Nat /\ trackbuffer_pos = (packet.start + packet.count) % Len(track)
        /\ \A j \in 0 .. packet.count - 1 :
             packet.bytes[j] = At(track, (packet.start + j) % Len(track), m)
    BY <2>2, <2>4
  <2>6. ASSUME NEW j \in 0 .. packet.count - 1
        PROVE  At(track, (packet.start + j) % Len(track), m)
                 = track[((packet.start + j) % Len(track)) + 1]
    <3>1. (packet.start + j) % Len(track) < Len(track)
      BY <2>1, <2>2, <2>5
    <3> QED  BY <3>1 DEF At
  <2> QED  BY <2>5, <2>6
<1> QED
  BY <1>1, Inductive, PTL

\* What the proofs below use of a packet of pairs.
LEMMA PairedPacket ==
  ASSUME IInv, Packet, Paired
  PROVE  /\ packet.count \in Nat /\ packet.count > 3 /\ packet.count % 2 = 0
         /\ packet.bytes[packet.count - 1] \notin Commands
         /\ trackbuffer_pos % 2 = 0
         /\ \A j \in 0 .. packet.count - 1 : j % 2 = 0 =>
              <<packet.bytes[j], packet.bytes[j + 1]>> \in Pairs
         /\ packet.patched = Patched(packet.bytes, packet.count)
         /\ packet.i = Insertion(packet.bytes, packet.count)
         /\ packet.sent = IF packet.check /\ Behind(packet.bytes, packet.count) < 0 THEN <<>>
                          ELSE Sent(packet.bytes, packet.count, packet.check)
<1>1. IsTrack(track)
  BY PacketAssumption DEF IInv, TypeOK
<1>2. PICK m \in Memory :
        LET f == Filled(track, packet.start, packet.size, m)
        IN  /\ packet.start \in 0 .. Len(track) - 1 /\ packet.size \in Sizes
            /\ packet.bytes = f.bytes /\ packet.count = f.count /\ trackbuffer_pos = f.next
  BY DEF IInv, Made
<1>3. packet.size \in Nat /\ packet.size > 3
  BY <1>2, PacketAssumption
<1>4. packet.start % 2 = 0 /\ packet.size % 2 = 0 /\ packet.size <= Len(track)
      /\ ~Fooled(Filled(track, packet.start, packet.size, m).bytes, packet.size)
  BY <1>2 DEF Paired
<1> DEFINE p == Cut(track, packet.start, packet.size, m)
<1>5. LET fl == Filled(track, packet.start, packet.size, m)
      IN  /\ fl.count = packet.size /\ fl.bytes = p
          /\ fl.bytes[packet.size - 1] \notin Commands
          /\ fl.next % 2 = 0
  BY <1>1, <1>2, <1>3, <1>4, FilledPairs
<1>6. ASSUME NEW j \in 0 .. packet.size - 1, j % 2 = 0
      PROVE  <<p[j], p[j + 1]>> \in Pairs
  BY <1>1, <1>2, <1>3, <1>4, <1>6, PairCut
<1> HIDE DEF p
<1>7. packet.count = packet.size /\ packet.bytes = p
  BY <1>2, <1>5
<1>8. packet.bytes[packet.count - 1] \notin Commands /\ trackbuffer_pos % 2 = 0
  BY <1>2, <1>5
<1>9. /\ packet.patched = Patched(packet.bytes, packet.count)
      /\ packet.i = Insertion(packet.bytes, packet.count)
      /\ packet.sent = IF packet.check /\ Behind(packet.bytes, packet.count) < 0 THEN <<>>
                       ELSE Sent(packet.bytes, packet.count, packet.check)
  BY DEF IInv, Made
<1> QED
  BY <1>3, <1>4, <1>6, <1>7, <1>8, <1>9

(***************************************************************************)
(* A packet of paired bytes never parts a command from its argument.       *)
(***************************************************************************)
THEOREM PairsNeverParted == Spec => []PairsKept
<1>1. IInv => PairsKept
  BY PairedPacket DEF PairsKept, Straddles
<1> QED
  BY <1>1, Inductive, PTL

(***************************************************************************)
(* The stream of packets gets out of step with the pairs of the tracks     *)
(* only by a packet that is odd, longer than its track or Fooled, whatever *)
(* tracks and sizes come one after the other (316-350).                    *)
(***************************************************************************)
THEOREM StepKept == Spec => []StaysInStep
<1>1. IInv => StaysInStep
  BY PairedPacket DEF StaysInStep, Straddles, IInv, InStep
<1> QED
  BY <1>1, Inductive, PTL

(***************************************************************************)
(* In a packet of paired bytes the signals of the drive go behind the      *)
(* commands with a nibble 0xC, and nowhere else.                           *)
(***************************************************************************)
THEOREM SignalsOnlyInIndex == Spec => []SignalsPatched
<1>1. IInv => SignalsPatched
  <2> SUFFICES ASSUME IInv, Packet, Paired
               PROVE  packet.patched = {k + 1 : k \in {j \in 0 .. packet.count - 1 :
                                                         packet.bytes[j] \in {"setindex", "nopindex"}}}
    BY DEF SignalsPatched
  <2> DEFINE b == packet.bytes
             n == packet.count
  <2>1. n \in Nat /\ n % 2 = 0 /\ packet.patched = Patched(b, n)
    BY PairedPacket
  <2>2. \A j \in 0 .. n - 1 : j % 2 = 0 =>
          <<b[j], b[j + 1]>> \in Pairs
    BY PairedPacket
  <2> HIDE DEF b, n
  <2>3. ASSUME NEW j \in 0 .. n - 1
        PROVE  j % 2 = 0 /\ isindex(b[j]) <=> b[j] \in {"setindex", "nopindex"}
    <3>1. CASE j % 2 = 0
      BY <2>2, <3>1 DEF Pairs, isindex
    <3>2. CASE j % 2 # 0
      <4>1. j - 1 \in 0 .. n - 1 /\ (j - 1) % 2 = 0 /\ (j - 1) + 1 = j
        BY <2>1, <3>2
      <4>2. <<b[j - 1], b[j]>> \in Pairs
        BY <2>2, <4>1
      <4>3. b[j] \notin {"setindex", "nopindex"}
        BY <4>2 DEF Pairs
      <4> QED  BY <3>2, <4>3
    <3> QED  BY <3>1, <3>2
  <2>4. {j \in 0 .. n - 1 : j % 2 = 0 /\ isindex(b[j])} =
          {j \in 0 .. n - 1 : b[j] \in {"setindex", "nopindex"}}
    BY <2>3
  <2> QED  BY <2>1, <2>4 DEF Patched, b, n
<1> QED
  BY <1>1, Inductive, PTL

(***************************************************************************)
(* The second sync command of a check never parts a command from its       *)
(* argument, and no byte of the packet is lost around it, in a packet of   *)
(* paired bytes; an empty track and a packet out of step are left out.     *)
(***************************************************************************)
THEOREM SyncParts == Spec => []SyncBetweenPairs
<1>1. IInv => SyncBetweenPairs
  <2> SUFFICES ASSUME IInv, Packet, Paired, packet.check
               PROVE  /\ packet.i \in 2 .. packet.count
                      /\ packet.bytes[packet.i - 1] \notin Commands
                      /\ \A k \in 0 .. packet.count - 1 :
                           packet.bytes[k] = packet.sent[k + IF k < packet.i THEN 2 ELSE 4]
    BY DEF SyncBetweenPairs
  <2> DEFINE b == packet.bytes
             n == packet.count
             i == packet.i
  <2>1. n \in Nat /\ n > 3 /\ n % 2 = 0 /\ i = Insertion(b, n)
    BY PairedPacket
  <2>2. packet.sent = IF Behind(b, n) < 0 THEN <<>> ELSE Sent(b, n, packet.check)
    BY PairedPacket
  <2>3. \A j \in 0 .. n - 1 : j % 2 = 0 =>
          <<b[j], b[j + 1]>> \in Pairs
    BY PairedPacket
  <2> HIDE DEF b, n, i
  <2>4. i \in 2 .. n /\ i % 2 = 0
    BY <2>1, InsertionPlace DEF Quiet
  <2>5. i - 2 \in 0 .. n - 1 /\ (i - 2) % 2 = 0 /\ (i - 2) + 1 = i - 1
    BY <2>1, <2>4
  <2>6. b[i - 1] \notin Commands
    <3>1. <<b[i - 2], b[i - 1]>> \in Pairs
      BY <2>3, <2>5
    <3> QED  BY <3>1 DEF Pairs, Commands
  <2>7. packet.sent =
          [j \in 0 .. n + 3 |->
             IF j \in {0, i + 2} THEN "sync" ELSE IF j \in {1, i + 3} THEN "track"
             ELSE IF j < i + 2 THEN b[j - 2] ELSE b[j - 4]]
    BY <2>1, <2>2, <2>4 DEF Behind, Sent
  <2>8. ASSUME NEW k \in 0 .. n - 1
        PROVE  b[k] = packet.sent[k + IF k < i THEN 2 ELSE 4]
    <3>1. CASE k < i
      <4>1. k + 2 \in 0 .. n + 3 /\ k + 2 \notin {0, 1, i + 2, i + 3} /\ k + 2 < i + 2
            /\ (k + 2) - 2 = k
        BY <2>1, <2>4, <3>1
      <4> QED  BY <2>7, <3>1, <4>1
    <3>2. CASE ~(k < i)
      <4>1. k + 4 \in 0 .. n + 3 /\ k + 4 \notin {0, 1, i + 2, i + 3} /\ ~(k + 4 < i + 2)
            /\ (k + 4) - 4 = k
        BY <2>1, <2>4, <3>2
      <4> QED  BY <2>7, <3>2, <4>1
    <3> QED  BY <3>1, <3>2
  <2> QED  BY <2>4, <2>6, <2>8 DEF b, n, i
<1> QED
  BY <1>1, Inductive, PTL
=============================================================================

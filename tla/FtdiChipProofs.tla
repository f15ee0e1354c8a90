--------------------------- MODULE FtdiChipProofs ---------------------------
(***************************************************************************)
(* Proofs about FtdiChip, for every size of the buffer and any number of   *)
(* bytes, opens and purges.                                                *)
(***************************************************************************)
EXTENDS FtdiChip, FiniteSetTheorems, TLAPS

Storing == {"store", "load", "advance"}

\* The types, with what a listener has of its chunk.
Types ==
  /\ TypeOK /\ RXBUFFER \in [1 .. 2 -> 0 .. MaxBytes]
  /\ i \in [Listeners -> 0 .. 2] /\ n \in [Listeners -> 0 .. 2]
  /\ ptr \in [Listeners -> 0 .. BufferSize - 1]
  /\ \A t \in Listeners : at[t] \in Storing => i[t] < n[t]

\* Unless a close left its listener, only the one of the last open is alive,
\* none is when the chip is closed, and it ends only for a close or an unplug.
Single ==
  /\ pc = "closed" <=> usb = "closed"
  /\ "left" \notin history =>
       /\ \A t \in Listeners : at[t] # "off" => t = opens /\ pc # "closed"
       /\ \A t \in Listeners : at[t] = "stop" => gone
       /\ stop_thread = 1 => gone \/ pc \in {"closewait", "closed"}
       /\ pc = "failed" => gone

\* The pointer as a listener read it is the pointer, but after a purge.
Fresh ==
  "left" \notin history =>
    \A t \in Listeners : at[t] = "advance" =>
      \/ ptr[t] = ptr_in
      \/ "back" \in history /\ ptr_in = 0 /\ (pc = "purgeout" \/ ptr_out = 0)

\* The level, without a remainder.
Bytes(in, out) == IF in >= out THEN in - out ELSE in - out + BufferSize

\* A read finds the bytes it was asked for.
Enough ==
  /\ RxBytes \in Nat /\ byteread \in Nat
  /\ history \intersect {"left", "full"} = {} =>
       /\ pc = "read" => byteread <= RxBytes /\ RxBytes - byteread <= Bytes(ptr_in, ptr_out)
       /\ pc = "done" => byteread = RxBytes

\* Bytes of the chunk of the listener that are not stored yet.
Waiting == IF opens \in Listeners /\ at[opens] \in Storing THEN n[opens] - i[opens] ELSE 0

\* The place k places after out.
Plus(out, k) == IF out + k < BufferSize THEN out + k ELSE out + k - BufferSize

\* From out to in the buffer B holds the bytes f + 1 .. s.
Window(B, in, out, f, s) ==
  /\ Bytes(in, out) = s - f
  /\ \A k \in 0 .. Bytes(in, out) - 1 : B[Plus(out, k)] = f + 1 + k

\* Where the bytes start; a purge under way has forgotten them.
Start == IF pc = "purgeout" THEN 0 ELSE ptr_out

\* The bytes between the chip and the caller are in order.
Ordered ==
  /\ purged \in Nat /\ purged <= received
  /\ "left" \notin history =>
       /\ floor \in Int
       /\ \A t \in Listeners : at[t] \in Storing =>
            \A j \in i[t] + 1 .. n[t] : RXBUFFER[j] = received - n[t] + j
  /\ history = {} =>
       /\ \A t \in Listeners : at[t] \in {"load", "advance"} =>
            BUFFER[ptr_in] = received - n[t] + i[t] + 1
       /\ pc = "purgeout" => ptr_out = 0 \/ ptr_in < ptr_out
       /\ Window(BUFFER, ptr_in, Start, floor, received - Waiting)
       /\ floor >= purged - 2

\* From out to in the buffer B holds what came after p, or a little before,
\* but for the first place when x.
Recent(B, in, out, p, x) ==
  \A k \in 0 .. Bytes(in, out) - 1 : B[Plus(out, k)] > p - 2 \/ (k = 0 /\ x)

\* What a purge leaves: the end of a chunk, and the place that is appended.
Stale ==
  history \intersect {"left", "back"} = {} =>
    /\ Recent(BUFFER, ptr_in, Start, purged, "raced" \in history)
    /\ \A t \in Listeners : at[t] \in {"load", "advance"} =>
         BUFFER[ptr_in] > purged - 2 \/ ("raced" \in history /\ Bytes(ptr_in, Start) = 0)

IInv == Types /\ Single /\ Fresh /\ Enough /\ Ordered /\ Stale

LEMMA NextPlace ==
  ASSUME NEW a \in 0 .. BufferSize - 1
  PROVE  /\ Next1(a) = IF a + 1 < BufferSize THEN a + 1 ELSE 0
         /\ Next1(a) \in 0 .. BufferSize - 1
  BY SizeAssumption DEF Next1

LEMMA LevelIsBytes ==
  ASSUME NEW in \in 0 .. BufferSize - 1, NEW out \in 0 .. BufferSize - 1
  PROVE  Level(in, out) = Bytes(in, out) /\ Bytes(in, out) \in Nat
<1> USE SizeAssumption DEF Level, Bytes
<1>1. CASE in >= out
  BY <1>1
<1>2. CASE in < out
  BY <1>2
<1> QED
  BY <1>1, <1>2

\* A byte appended, if that does not fill the buffer, and a byte taken.
LEMMA BytesMoves ==
  ASSUME NEW in \in 0 .. BufferSize - 1, NEW out \in 0 .. BufferSize - 1
  PROVE  /\ Next1(in) # out => Bytes(Next1(in), out) = Bytes(in, out) + 1
         /\ in # out => Bytes(in, Next1(out)) = Bytes(in, out) - 1
  BY NextPlace, SizeAssumption DEF Bytes

\* A window has room for a byte.
LEMMA WindowSize ==
  ASSUME NEW in \in 0 .. BufferSize - 1, NEW out \in 0 .. BufferSize - 1
  PROVE  /\ Bytes(in, out) \in 0 .. BufferSize - 1
         /\ \A k \in 0 .. Bytes(in, out) - 1 : /\ Plus(out, k) \in 0 .. BufferSize - 1
                                               /\ Plus(out, k) # in
         /\ Plus(out, Bytes(in, out)) = in
  BY SizeAssumption DEF Bytes, Plus

\* A byte stored at its end is not in the window yet ...
LEMMA WindowStore ==
  ASSUME NEW in \in 0 .. BufferSize - 1, NEW out \in 0 .. BufferSize - 1, NEW f, NEW s,
         NEW B, NEW C, Window(B, in, out, f, s),
         \A k \in 0 .. BufferSize - 1 : k # in => C[k] = B[k]
  PROVE  Window(C, in, out, f, s)
  BY WindowSize DEF Window

\* ... and is when the pointer has moved.
LEMMA WindowGrows ==
  ASSUME NEW in \in 0 .. BufferSize - 1, NEW out \in 0 .. BufferSize - 1,
         NEW f \in Int, NEW s \in Int,
         NEW B, Window(B, in, out, f, s), Next1(in) # out, B[in] = s + 1
  PROVE  Window(B, Next1(in), out, f, s + 1)
<1>1. Bytes(Next1(in), out) = Bytes(in, out) + 1 /\ Bytes(in, out) \in 0 .. BufferSize - 1
  BY BytesMoves, WindowSize
<1>2. B[Plus(out, Bytes(in, out))] = f + 1 + Bytes(in, out)
  <2>1. Plus(out, Bytes(in, out)) = in /\ Bytes(in, out) = s - f
    BY WindowSize DEF Window
  <2> QED  BY <2>1
<1>3. \A k \in 0 .. Bytes(in, out) - 1 : B[Plus(out, k)] = f + 1 + k
  BY DEF Window
<1>4. \A k \in 0 .. Bytes(in, out) : B[Plus(out, k)] = f + 1 + k
  BY <1>1, <1>2, <1>3
<1> QED
  BY <1>1, <1>4 DEF Window

\* A byte taken is the first one.
LEMMA WindowRead ==
  ASSUME NEW in \in 0 .. BufferSize - 1, NEW out \in 0 .. BufferSize - 1,
         NEW f \in Int, NEW s \in Int,
         NEW B, Window(B, in, out, f, s), in # out
  PROVE  B[out] = f + 1 /\ Window(B, in, Next1(out), f + 1, s)
<1>1. Bytes(in, Next1(out)) = Bytes(in, out) - 1 /\ Bytes(in, out) \in 0 .. BufferSize - 1
  BY BytesMoves, WindowSize
<1>2. Bytes(in, out) > 0
  BY SizeAssumption DEF Bytes
<1>3. Plus(out, 0) = out
  BY SizeAssumption DEF Plus
<1>4. \A k \in 0 .. Bytes(in, out) - 2 : Plus(Next1(out), k) = Plus(out, k + 1)
  BY <1>1, NextPlace, SizeAssumption DEF Plus
<1>5. \A k \in 0 .. Bytes(in, out) - 1 : B[Plus(out, k)] = f + 1 + k
  BY DEF Window
<1>6. B[out] = f + 1
  BY <1>1, <1>2, <1>3, <1>5
<1>7. \A k \in 0 .. Bytes(in, out) - 2 : B[Plus(Next1(out), k)] = f + 1 + 1 + k
  BY <1>1, <1>4, <1>5
<1> QED
  BY <1>1, <1>6, <1>7 DEF Window

\* What is stored, when one listener at most is alive.
LEMMA StoredIs ==
  ASSUME Types, Single, "left" \notin history
  PROVE  Stored = received - Waiting /\ Waiting \in 0 .. 2
<1> DEFINE U == UNION {{t} \X Rest(t) : t \in Listeners}
<1>1. \A t \in Listeners : at[t] \in Storing => t = opens
  BY DEF Single, Storing
<1>2. CASE opens \in Listeners /\ at[opens] \in Storing
  <2>1. U = {opens} \X (i[opens] .. n[opens] - 1)
    BY <1>1, <1>2 DEF Rest, Storing
  <2>2. i[opens] \in 0 .. 2 /\ n[opens] \in 0 .. 2 /\ i[opens] < n[opens]
    BY <1>2 DEF Types
  <2>3. \/ n[opens] = i[opens] + 1 /\ i[opens] .. n[opens] - 1 = {i[opens]}
        \/ i[opens] = 0 /\ n[opens] = 2 /\ i[opens] .. n[opens] - 1 = {0, 1}
    BY <2>2
  <2>4. \/ n[opens] = i[opens] + 1 /\ U = {<<opens, i[opens]>>}
        \/ i[opens] = 0 /\ n[opens] = 2 /\ U = {<<opens, 0>>} \union {<<opens, 1>>}
    BY <2>1, <2>3
  <2>5. Cardinality(U) = n[opens] - i[opens]
    <3>1. \A x : IsFiniteSet({x}) /\ Cardinality({x}) = 1
      BY FS_Singleton
    <3>2. Cardinality({<<opens, 0>>} \union {<<opens, 1>>}) = 2
      <4>1. <<opens, 1>> \notin {<<opens, 0>>}
        OBVIOUS
      <4> DEFINE S == {<<opens, 0>>}
                 b == <<opens, 1>>
      <4>2. IsFiniteSet(S) /\ Cardinality(S) = 1 /\ b \notin S
        BY <3>1, <4>1
      <4> HIDE DEF S, b
      <4>3. Cardinality(S \union {b}) = 2
        BY <4>2, FS_AddElement
      <4> QED  BY <4>3 DEF S, b
    <3>3. CASE n[opens] = i[opens] + 1 /\ U = {<<opens, i[opens]>>}
      <4>1. Cardinality({<<opens, i[opens]>>}) = 1
        BY <3>1
      <4> QED  BY <2>2, <3>3, <4>1
    <3>4. CASE i[opens] = 0 /\ n[opens] = 2 /\ U = {<<opens, 0>>} \union {<<opens, 1>>}
      BY <3>2, <3>4
    <3> QED  BY <2>4, <3>3, <3>4
  <2> QED  BY <1>2, <2>2, <2>5 DEF Stored, Waiting
<1>3. CASE ~(opens \in Listeners /\ at[opens] \in Storing)
  <2>1. \A t \in Listeners : Rest(t) = {}
    BY <1>1, <1>3 DEF Rest, Storing
  <2>2. U = {}
    BY <2>1
  <2>3. Cardinality(U) = 0
    BY <2>2, FS_EmptySet
  <2> QED  BY <1>3, <2>3 DEF Stored, Waiting, Types, TypeOK
<1> QED
  BY <1>2, <1>3

LEMMA InitIInv == Init => IInv
<1> SUFFICES ASSUME Init PROVE IInv
  OBVIOUS
<1> USE SizeAssumption DEF Init
<1>1. BUFFER \in [0 .. BufferSize - 1 -> 0 .. MaxBytes] /\ RXBUFFER \in [1 .. 2 -> 0 .. MaxBytes]
  BY DEF Chunk
<1>4. 0 \in 0 .. MaxBytes /\ 0 \in 0 .. BufferSize - 1 /\ 0 \in 0 .. MaxOpens
      /\ 0 \in 0 .. MaxPurges /\ 0 \in 0 .. 2
  OBVIOUS
<1>5. /\ at \in [Listeners -> Places] /\ i \in [Listeners -> 0 .. 2]
      /\ n \in [Listeners -> 0 .. 2] /\ ptr \in [Listeners -> 0 .. BufferSize - 1]
      /\ \A t \in Listeners : at[t] \notin Storing
  BY <1>4 DEF Places, Storing
<1>6. TypeOK
  <2>1. /\ usb = "closed" /\ gone = FALSE /\ received = 0 /\ ptr_in = 0 /\ ptr_out = 0
        /\ stop_thread = 0 /\ pc = "closed" /\ opens = 0 /\ purges = 0
    OBVIOUS
  <2> QED  BY <1>1, <1>4, <1>5, <2>1 DEF TypeOK, Calls
<1>2. Types
  BY <1>1, <1>5, <1>6 DEF Types
<1>3. Single /\ Fresh /\ Enough
  BY DEF Single, Fresh, Enough
<1>7. Ordered
  <2>1. \A t \in Listeners : at[t] = "off"
    OBVIOUS
  <2>2. Waiting = 0 /\ Start = 0 /\ Bytes(0, 0) = 0
    BY <2>1 DEF Waiting, Start, Storing, Bytes
  <2>3. Window(BUFFER, 0, 0, 0, 0)
    BY <2>2 DEF Window
  <2>4. received = 0 /\ floor = 0 /\ purged = 0 /\ history = {} /\ ptr_in = 0 /\ pc = "closed"
    OBVIOUS
  <2> QED  BY <2>1, <2>2, <2>3, <2>4 DEF Ordered, Storing
<1>8. Stale
  <2>1. /\ ptr_in = 0 /\ ptr_out = 0 /\ \A t \in Listeners : at[t] = "off"
    OBVIOUS
  <2> QED  BY <2>1 DEF Stale, Recent, Start, Bytes
<1> QED
  BY <1>2, <1>3, <1>7, <1>8 DEF IInv

\* Every action keeps the types.
LEMMA TypesStep ==
  ASSUME Types, [Next]_vars
  PROVE  Types'
<1> USE DEF Types, TypeOK, Places, Calls, Storing, Chunk, chip, fifo, thread, call, budget, ghost
<1>1. ASSUME NEW t \in Listeners, Receive(t) PROVE Types'
  <2> USE DEF Receive, Go
  <2>1. PICK k \in 1 .. 2 :
          /\ received + k <= MaxBytes /\ received' = received + k
          /\ n' = [n EXCEPT ![t] = k]
          /\ RXBUFFER' = [j \in 1 .. 2 |-> IF j <= k THEN received + j ELSE RXBUFFER[j]]
    BY <1>1
  <2>2. RXBUFFER' \in [1 .. 2 -> 0 .. MaxBytes]
    <3>1. \A j \in 1 .. 2 : (IF j <= k THEN received + j ELSE RXBUFFER[j]) \in 0 .. MaxBytes
      BY <2>1, SizeAssumption
    <3> QED  BY <2>1, <3>1
  <2>3. received' \in 0 .. MaxBytes /\ n' \in [Listeners -> 0 .. 2]
        /\ i' \in [Listeners -> 0 .. 2] /\ at' \in [Listeners -> Places]
    BY <1>1, <2>1, SizeAssumption
  <2>4. \A s \in Listeners : at'[s] \in Storing => i'[s] < n'[s]
    BY <1>1, <2>1
  <2>5. UNCHANGED <<usb, gone, fifo, ptr, stop_thread, call, budget, ghost>>
    BY <1>1
  <2> QED  BY <2>2, <2>3, <2>4, <2>5
<1>2. ASSUME NEW t \in Listeners, ReceiveFails(t) PROVE Types'
  BY <1>2, SizeAssumption DEF ReceiveFails, Go
<1>3. ASSUME NEW t \in Listeners, Store(t) PROVE Types'
  <2>3. i[t] < n[t] /\ i[t] \in 0 .. 2 /\ n[t] \in 0 .. 2
    BY <1>3 DEF Store, Go
  <2>4. i[t] + 1 \in 1 .. 2
    BY <2>3
  <2>1. RXBUFFER[i[t] + 1] \in 0 .. MaxBytes
    BY <2>4
  <2>2. BUFFER' \in [0 .. BufferSize - 1 -> 0 .. MaxBytes]
    BY <1>3, <2>1 DEF Store
  <2> QED  BY <1>3, <2>2 DEF Store, Go
<1>4. ASSUME NEW t \in Listeners, LoadIn(t) PROVE Types'
  BY <1>4, SizeAssumption DEF LoadIn, Go
<1>5. ASSUME NEW t \in Listeners, Advance(t) PROVE Types'
  <2>1. ptr_in' \in 0 .. BufferSize - 1
    BY <1>5, NextPlace DEF Advance, Advanced
  <2>5. at[t] = "advance" /\ i[t] < n[t] /\ i[t] \in 0 .. 2 /\ n[t] \in 0 .. 2
        /\ 0 \in 0 .. BufferSize - 1
    BY <1>5, SizeAssumption DEF Advance, Go
  <2>6. i[t] + 1 \in 0 .. 2
    BY <2>5
  <2>2. i' \in [Listeners -> 0 .. 2] /\ at' \in [Listeners -> Places]
        /\ ptr' \in [Listeners -> 0 .. BufferSize - 1]
    BY <1>5, <2>5, <2>6 DEF Advance, Go
  <2>3. \A s \in Listeners : at'[s] \in Storing => i'[s] < n'[s]
    BY <1>5 DEF Advance, Go
  <2>4. UNCHANGED <<chip, BUFFER, ptr_out, n, RXBUFFER, stop_thread, call, budget, floor, purged>>
    BY <1>5 DEF Advance
  <2> QED  BY <2>1, <2>2, <2>3, <2>4
<1>6. ASSUME NEW t \in Listeners, Stop(t) PROVE Types'
  BY <1>6, SizeAssumption DEF Stop, Go
<1>7. ASSUME NEW t \in Listeners, Check(t) PROVE Types'
  BY <1>7, SizeAssumption DEF Check, Go
<1>8. CASE Open
  <2> USE DEF Open, Call, Cleared
  <2>1. opens' \in 0 .. MaxOpens /\ opens' \in Listeners
    BY <1>8, SizeAssumption DEF Listeners
  <2>2. at' \in [Listeners -> Places] /\ \A s \in Listeners : at'[s] \in Storing => at[s] \in Storing
    BY <1>8, <2>1
  <2>3. BUFFER' \in [0 .. BufferSize - 1 -> 0 .. MaxBytes]
    BY <1>8, SizeAssumption
  <2>4. /\ usb' = "open" /\ gone' = FALSE /\ stop_thread' = 0 /\ pc' = "open"
        /\ ptr_in' = 0 /\ ptr_out' = 0 /\ 0 \in 0 .. BufferSize - 1
        /\ UNCHANGED <<received, i, n, ptr, RXBUFFER, purges>>
    BY <1>8, SizeAssumption
  <2> QED  BY <2>1, <2>2, <2>3, <2>4
<1>9. CASE Purge
  BY <1>9, SizeAssumption DEF Purge, Call
<1>10. CASE PurgeIn
  <2>1. pc' = "purgeout" /\ ptr_in' = 0 /\ 0 \in 0 .. BufferSize - 1
        /\ UNCHANGED <<chip, BUFFER, ptr_out, thread, stop_thread, budget>>
    BY <1>10, SizeAssumption DEF PurgeIn, Call
  <2> QED  BY <2>1
<1>11. CASE PurgeOut
  BY <1>11, SizeAssumption DEF PurgeOut, Call, PurgedOut
<1>12. CASE Wait
  BY <1>12, SizeAssumption DEF Wait, Call
<1>13. CASE WaitEnds
  BY <1>13, SizeAssumption DEF WaitEnds, Call, MayTimeOut
<1>14. CASE Status
  BY <1>14, SizeAssumption DEF Status
<1>15. CASE ReadByte
  BY <1>15, SizeAssumption, NextPlace DEF ReadByte, MayRead
<1>16. CASE ReadEnds
  BY <1>16, SizeAssumption DEF ReadEnds, MayRead
<1>17. CASE Goes
  BY <1>17, SizeAssumption DEF Goes, Call
<1>18. CASE Close
  BY <1>18, SizeAssumption DEF Close
<1>19. CASE CloseEnds
  BY <1>19, SizeAssumption DEF CloseEnds, Call
<1>20. CASE Unplug
  BY <1>20, SizeAssumption DEF Unplug
<1>21. CASE UNCHANGED vars
  BY <1>21 DEF vars
<1> QED
  BY <1>1, <1>2, <1>3, <1>4, <1>5, <1>6, <1>7, <1>8, <1>9, <1>10, <1>11,
     <1>12, <1>13, <1>14, <1>15, <1>16, <1>17, <1>18, <1>19, <1>20, <1>21
     DEF Next, Reading, Listener

\* A listener is started only when none is left, and ends before the close.
LEMMA SingleStep ==
  ASSUME Types, Single, [Next]_vars
  PROVE  Single'
<1> USE DEF Types, TypeOK, Places, Calls, Storing, Single, Alive, chip, fifo, thread, call, budget, ghost
<1>1. ASSUME NEW t \in Listeners, Receive(t) PROVE Single'
  BY <1>1, SizeAssumption DEF Receive, Go
<1>2. ASSUME NEW t \in Listeners, ReceiveFails(t) PROVE Single'
  BY <1>2, SizeAssumption DEF ReceiveFails, Go
<1>3. ASSUME NEW t \in Listeners, Store(t) PROVE Single'
  BY <1>3, SizeAssumption DEF Store, Go
<1>4. ASSUME NEW t \in Listeners, LoadIn(t) PROVE Single'
  BY <1>4, SizeAssumption DEF LoadIn, Go
<1>5. ASSUME NEW t \in Listeners, Advance(t) PROVE Single'
  BY <1>5, SizeAssumption DEF Advance, Go, Advanced
<1>6. ASSUME NEW t \in Listeners, Stop(t) PROVE Single'
  BY <1>6, SizeAssumption DEF Stop, Go
<1>7. ASSUME NEW t \in Listeners, Check(t) PROVE Single'
  BY <1>7, SizeAssumption DEF Check, Go
<1>8. CASE Open
  BY <1>8, SizeAssumption DEF Open, Call, Cleared
<1>9. CASE Purge
  BY <1>9, SizeAssumption DEF Purge, Call
<1>10. CASE PurgeIn
  BY <1>10, SizeAssumption DEF PurgeIn, Call
<1>11. CASE PurgeOut
  BY <1>11, SizeAssumption DEF PurgeOut, Call, PurgedOut
<1>12. CASE Wait
  BY <1>12, SizeAssumption DEF Wait, Call
<1>13. CASE WaitEnds
  BY <1>13, SizeAssumption DEF WaitEnds, Call, MayTimeOut
<1>14. CASE Status
  BY <1>14, SizeAssumption DEF Status
<1>15. CASE ReadByte
  BY <1>15, SizeAssumption DEF ReadByte, MayRead
<1>16. CASE ReadEnds
  BY <1>16, SizeAssumption DEF ReadEnds, MayRead
<1>17. CASE Goes
  BY <1>17, SizeAssumption DEF Goes, Call
<1>18. CASE Close
  BY <1>18, SizeAssumption DEF Close
<1>19. CASE CloseEnds
  BY <1>19, SizeAssumption DEF CloseEnds, Call
<1>20. CASE Unplug
  BY <1>20, SizeAssumption DEF Unplug
<1>21. CASE UNCHANGED vars
  BY <1>21 DEF vars
<1> QED
  BY <1>1, <1>2, <1>3, <1>4, <1>5, <1>6, <1>7, <1>8, <1>9, <1>10, <1>11,
     <1>12, <1>13, <1>14, <1>15, <1>16, <1>17, <1>18, <1>19, <1>20, <1>21
     DEF Next, Reading, Listener

\* Only the listener that read the pointer moves it, or a purge that is noted.
LEMMA FreshStep ==
  ASSUME Types, Single, Fresh, [Next]_vars
  PROVE  Fresh'
<1> USE DEF Types, TypeOK, Places, Calls, Storing, Single, Fresh, Alive, Settled, chip, fifo, thread, call, budget, ghost
<1>1. ASSUME NEW t \in Listeners, Receive(t) PROVE Fresh'
  BY <1>1, SizeAssumption DEF Receive, Go
<1>2. ASSUME NEW t \in Listeners, ReceiveFails(t) PROVE Fresh'
  BY <1>2, SizeAssumption DEF ReceiveFails, Go
<1>3. ASSUME NEW t \in Listeners, Store(t) PROVE Fresh'
  BY <1>3, SizeAssumption DEF Store, Go
<1>4. ASSUME NEW t \in Listeners, LoadIn(t) PROVE Fresh'
  BY <1>4, SizeAssumption DEF LoadIn, Go
<1>5. ASSUME NEW t \in Listeners, Advance(t) PROVE Fresh'
  BY <1>5, SizeAssumption DEF Advance, Go, Advanced
<1>6. ASSUME NEW t \in Listeners, Stop(t) PROVE Fresh'
  BY <1>6, SizeAssumption DEF Stop, Go
<1>7. ASSUME NEW t \in Listeners, Check(t) PROVE Fresh'
  BY <1>7, SizeAssumption DEF Check, Go
<1>8. CASE Open
  BY <1>8, SizeAssumption DEF Open, Call, Cleared
<1>9. CASE Purge
  BY <1>9, SizeAssumption DEF Purge, Call
<1>10. CASE PurgeIn
  BY <1>10, SizeAssumption DEF PurgeIn, Call
<1>11. CASE PurgeOut
  BY <1>11, SizeAssumption DEF PurgeOut, Call, PurgedOut
<1>12. CASE Wait
  BY <1>12, SizeAssumption DEF Wait, Call
<1>13. CASE WaitEnds
  BY <1>13, SizeAssumption DEF WaitEnds, Call, MayTimeOut
<1>14. CASE Status
  BY <1>14, SizeAssumption DEF Status
<1>15. CASE ReadByte
  BY <1>15, SizeAssumption DEF ReadByte, MayRead
<1>16. CASE ReadEnds
  BY <1>16, SizeAssumption DEF ReadEnds, MayRead
<1>17. CASE Goes
  BY <1>17, SizeAssumption DEF Goes, Call
<1>18. CASE Close
  BY <1>18, SizeAssumption DEF Close
<1>19. CASE CloseEnds
  BY <1>19, SizeAssumption DEF CloseEnds, Call
<1>20. CASE Unplug
  BY <1>20, SizeAssumption DEF Unplug
<1>21. CASE UNCHANGED vars
  BY <1>21 DEF vars
<1> QED
  BY <1>1, <1>2, <1>3, <1>4, <1>5, <1>6, <1>7, <1>8, <1>9, <1>10, <1>11,
     <1>12, <1>13, <1>14, <1>15, <1>16, <1>17, <1>18, <1>19, <1>20, <1>21
     DEF Next, Reading, Listener

\* The listener adds to the level, and only the reader takes from it.
LEMMA EnoughStep ==
  ASSUME Types, Types', Single, Fresh, Enough, [Next]_vars
  PROVE  Enough'
<1> USE DEF Types, TypeOK, Places, Calls, Storing, Single, Fresh, Enough, chip, fifo, thread, call, budget, ghost
<1>1. ASSUME NEW t \in Listeners, Receive(t) PROVE Enough'
  BY <1>1, SizeAssumption DEF Receive, Go
<1>2. ASSUME NEW t \in Listeners, ReceiveFails(t) PROVE Enough'
  BY <1>2, SizeAssumption DEF ReceiveFails, Go
<1>3. ASSUME NEW t \in Listeners, Store(t) PROVE Enough'
  BY <1>3, SizeAssumption DEF Store, Go
<1>4. ASSUME NEW t \in Listeners, LoadIn(t) PROVE Enough'
  BY <1>4, SizeAssumption DEF LoadIn, Go
<1>5. ASSUME NEW t \in Listeners, Advance(t) PROVE Enough'
  <2> USE DEF Advance, Go, Advanced
  <2>1. UNCHANGED <<pc, RxBytes, byteread, ptr_out>>
    BY <1>5
  <2>3. {ptr_in, ptr_in', ptr_out} \subseteq 0 .. BufferSize - 1
    BY <2>1
  <2>4. Bytes(ptr_in, ptr_out) \in Nat /\ Bytes(ptr_in', ptr_out) \in Nat
    BY <2>3, LevelIsBytes
  <2>2. CASE history' \intersect {"left", "full"} = {}
    <3>1. history \intersect {"left", "full"} = {} /\ ptr_in' # ptr_out
      BY <1>5, <2>2
    <3>2. ptr_in' = Next1(ptr[t]) /\ ptr[t] \in 0 .. BufferSize - 1
      BY <1>5
    <3>3. ASSUME ptr[t] = ptr_in
          PROVE  pc = "read" => byteread <= RxBytes /\ RxBytes - byteread <= Bytes(ptr_in', ptr_out)
      <4>1. Bytes(ptr_in', ptr_out) = Bytes(ptr_in, ptr_out) + 1
        BY <2>3, <3>1, <3>2, <3>3, BytesMoves
      <4>2. pc = "read" => byteread <= RxBytes /\ RxBytes - byteread <= Bytes(ptr_in, ptr_out)
        BY <3>1
      <4>3. RxBytes \in Nat /\ byteread \in Nat
        OBVIOUS
      <4> QED  BY <2>4, <4>1, <4>2, <4>3
    <3>4. ASSUME ptr_in = 0, pc = "purgeout" \/ ptr_out = 0
          PROVE  pc = "read" => byteread <= RxBytes /\ RxBytes - byteread <= Bytes(ptr_in', ptr_out)
      <4>1. pc = "read" => Bytes(ptr_in, ptr_out) = 0
        BY <3>4 DEF Bytes
      <4>2. pc = "read" => byteread <= RxBytes /\ RxBytes - byteread <= Bytes(ptr_in, ptr_out)
        BY <3>1
      <4>3. RxBytes \in Nat /\ byteread \in Nat
        OBVIOUS
      <4> QED  BY <2>4, <4>1, <4>2, <4>3
    <3>6. ptr[t] = ptr_in \/ (ptr_in = 0 /\ (pc = "purgeout" \/ ptr_out = 0))
      BY <1>5, <3>1
    <3>5. pc = "read" => byteread <= RxBytes /\ RxBytes - byteread <= Bytes(ptr_in', ptr_out)
      BY <3>3, <3>4, <3>6
    <3> QED  BY <2>1, <3>1, <3>5
  <2> QED  BY <2>1, <2>2
<1>6. ASSUME NEW t \in Listeners, Stop(t) PROVE Enough'
  BY <1>6, SizeAssumption DEF Stop, Go
<1>7. ASSUME NEW t \in Listeners, Check(t) PROVE Enough'
  BY <1>7, SizeAssumption DEF Check, Go
<1>8. CASE Open
  BY <1>8, SizeAssumption DEF Open, Call, Cleared
<1>9. CASE Purge
  BY <1>9, SizeAssumption DEF Purge, Call
<1>10. CASE PurgeIn
  BY <1>10, SizeAssumption DEF PurgeIn, Call
<1>11. CASE PurgeOut
  BY <1>11, SizeAssumption DEF PurgeOut, Call, PurgedOut
<1>12. CASE Wait
  BY <1>12, SizeAssumption DEF Wait, Call
<1>13. CASE WaitEnds
  BY <1>13, SizeAssumption DEF WaitEnds, Call, MayTimeOut
<1>14. CASE Status
  <2>1. ptr_in \in 0 .. BufferSize - 1 /\ ptr_out \in 0 .. BufferSize - 1
    OBVIOUS
  <2>2. RxBytes' = Level(ptr_in, ptr_out) /\ byteread' = 0 /\ pc' # "done"
        /\ UNCHANGED <<ptr_in, ptr_out>>
    BY <1>14 DEF Status
  <2> QED  BY <2>1, <2>2, LevelIsBytes
<1>15. CASE ReadByte
  <2>1. ptr_in \in 0 .. BufferSize - 1 /\ ptr_out \in 0 .. BufferSize - 1
    OBVIOUS
  <2>2. /\ byteread' = byteread + 1 /\ ptr_out' = Next1(ptr_out) /\ ptr_in # ptr_out
        /\ byteread < RxBytes /\ pc = "read" /\ UNCHANGED <<pc, RxBytes, ptr_in>>
        /\ history' \intersect {"left", "full"} = history \intersect {"left", "full"}
    BY <1>15 DEF ReadByte, MayRead
  <2>3. Bytes(ptr_in, ptr_out') = Bytes(ptr_in, ptr_out) - 1
        /\ Bytes(ptr_in, ptr_out) \in Nat
    BY <2>1, <2>2, BytesMoves, LevelIsBytes
  <2>4. RxBytes \in Nat /\ byteread \in Nat
    OBVIOUS
  <2>5. RxBytes' \in Nat /\ byteread' \in Nat /\ pc' = "read"
    BY <2>2, <2>4
  <2>6. ASSUME history' \intersect {"left", "full"} = {}
        PROVE  byteread' <= RxBytes' /\ RxBytes' - byteread' <= Bytes(ptr_in, ptr_out)'
    <3>1. RxBytes - byteread <= Bytes(ptr_in, ptr_out)
      BY <2>2, <2>6
    <3>2. Bytes(ptr_in, ptr_out)' = Bytes(ptr_in, ptr_out')
      BY <2>2
    <3> HIDE DEF Types, TypeOK, Single, Fresh, Enough
    <3> QED  BY <2>2, <2>3, <2>4, <3>1, <3>2
  <2> HIDE DEF Types, TypeOK, Single, Fresh
  <2> QED  BY <2>5, <2>6
<1>16. CASE ReadEnds
  <2>1. ptr_in \in 0 .. BufferSize - 1 /\ ptr_out \in 0 .. BufferSize - 1
    OBVIOUS
  <2>2. ptr_in = ptr_out => Bytes(ptr_in, ptr_out) = 0
    BY <2>1 DEF Bytes
  <2> QED  BY <1>16, <2>2 DEF ReadEnds, MayRead
<1>17. CASE Goes
  BY <1>17, SizeAssumption DEF Goes, Call
<1>18. CASE Close
  BY <1>18, SizeAssumption DEF Close
<1>19. CASE CloseEnds
  BY <1>19, SizeAssumption DEF CloseEnds, Call
<1>20. CASE Unplug
  BY <1>20, SizeAssumption DEF Unplug
<1>21. CASE UNCHANGED vars
  BY <1>21 DEF vars
<1> QED
  BY <1>1, <1>2, <1>3, <1>4, <1>5, <1>6, <1>7, <1>8, <1>9, <1>10, <1>11,
     <1>12, <1>13, <1>14, <1>15, <1>16, <1>17, <1>18, <1>19, <1>20, <1>21
     DEF Next, Reading, Listener

\* No step puts the bytes out of order.
LEMMA OrderedStep ==
  ASSUME Types, Types', Single, Fresh, Ordered, [Next]_vars
  PROVE  Ordered'
<1> USE DEF Types, TypeOK, Places, Calls, Storing, Single, Ordered, Waiting, Start, chip, fifo, thread, call, budget, ghost
<1>1. ASSUME NEW t \in Listeners, Receive(t) PROVE Ordered'
  <2>1. PICK k \in 1 .. 2 :
          /\ received + k <= MaxBytes /\ received' = received + k
          /\ n' = [n EXCEPT ![t] = k]
          /\ RXBUFFER' = [j \in 1 .. 2 |-> IF j <= k THEN received + j ELSE RXBUFFER[j]]
    BY <1>1 DEF Receive, Chunk
  <2>2. /\ at[t] = "poll" /\ at' = [at EXCEPT ![t] = "store"] /\ i' = [i EXCEPT ![t] = 0]
        /\ UNCHANGED <<fifo, stop_thread, call, budget, ghost>>
    BY <1>1 DEF Receive, Go
  <2>3. purged' \in Nat /\ purged' <= received'
    BY <2>1, <2>2
  <2>4. CASE "left" \notin history
    <3>1. t = opens /\ \A s \in Listeners : at[s] # "off" => s = t
      BY <2>2, <2>4
    <3>2. received' - Waiting' = received - Waiting
      BY <2>1, <2>2, <3>1
    <3>3. \A s \in Listeners : at'[s] \in {"store", "load", "advance"} =>
            s = t /\ i'[s] = 0 /\ n'[s] = k /\ at'[s] = "store"
      BY <2>1, <2>2, <3>1
    <3>4. \A j \in 1 .. k : RXBUFFER'[j] = received' - k + j
      <4>1. received \in Nat
        OBVIOUS
      <4> HIDE DEF Ordered, Types, TypeOK, Single, Waiting, Start
      <4>2. \A j \in 1 .. k : j \in 1 .. 2 /\ j <= k
        OBVIOUS
      <4>3. \A j \in 1 .. k : RXBUFFER'[j] = received + j
        BY <2>1, <4>2
      <4> QED  BY <2>1, <4>1, <4>3
    <3>5. \A s \in Listeners : at'[s] \in Storing =>
            \A j \in i'[s] + 1 .. n'[s] : RXBUFFER'[j] = received' - n'[s] + j
      <4> HIDE DEF Ordered, Types, TypeOK, Single, Waiting, Start
      <4>1. \A s \in Listeners : at'[s] \in Storing =>
              i'[s] + 1 = 1 /\ n'[s] = k /\ \A j \in 1 .. k : RXBUFFER'[j] = received' - k + j
        BY <3>3, <3>4
      <4> QED  BY <4>1
    <3>6. Start' = Start
      BY <2>2
    <3> QED  BY <2>2, <2>3, <3>2, <3>3, <3>5, <3>6
  <2>5. CASE "left" \in history
    BY <2>2, <2>3, <2>5
  <2> QED  BY <2>4, <2>5
<1>2. ASSUME NEW t \in Listeners, ReceiveFails(t) PROVE Ordered'
  BY <1>2, SizeAssumption DEF ReceiveFails, Go
<1>3. ASSUME NEW t \in Listeners, Store(t) PROVE Ordered'
  <2>1. /\ at[t] = "store" /\ at' = [at EXCEPT ![t] = "load"]
        /\ BUFFER' = [BUFFER EXCEPT ![ptr_in] = RXBUFFER[i[t] + 1]]
        /\ UNCHANGED <<chip, ptr_in, ptr_out, i, n, ptr, RXBUFFER, stop_thread, call, budget, ghost>>
    BY <1>3 DEF Store, Go
  <2>2. CASE "left" \notin history
    <3>1. \A s \in Listeners : at[s] \in Storing => s = t
      BY <2>1, <2>2
    <3>2. i[t] < n[t] /\ i[t] \in 0 .. 2 /\ n[t] \in 0 .. 2
      BY <2>1
    <3>3. BUFFER'[ptr_in] = received - n[t] + i[t] + 1
      <4>1. RXBUFFER[i[t] + 1] = received - n[t] + (i[t] + 1)
        <5>1. \A j \in i[t] + 1 .. n[t] : RXBUFFER[j] = received - n[t] + j
          BY <2>1, <2>2
        <5> HIDE DEF Ordered, Types, TypeOK, Single, Waiting, Start
        <5>2. i[t] + 1 \in i[t] + 1 .. n[t]
          BY <3>2
        <5> QED  BY <5>1, <5>2
      <4>2. BUFFER'[ptr_in] = RXBUFFER[i[t] + 1]
        BY <2>1
      <4>3. received \in Nat
        OBVIOUS
      <4> HIDE DEF Ordered, Types, TypeOK, Single, Waiting, Start
      <4> QED  BY <3>2, <4>1, <4>2, <4>3
    <3>4. Waiting' = Waiting /\ Start' = Start
      BY <2>1
    <3>5. history = {} => Window(BUFFER', ptr_in, Start, floor, received - Waiting)
      <4>1. \A k \in 0 .. BufferSize - 1 : k # ptr_in => BUFFER'[k] = BUFFER[k]
        <5>1. BUFFER \in [0 .. BufferSize - 1 -> 0 .. MaxBytes]
              /\ BUFFER' = [BUFFER EXCEPT ![ptr_in] = RXBUFFER[i[t] + 1]]
          BY <2>1
        <5> HIDE DEF Ordered, Types, TypeOK, Single, Waiting, Start
        <5> QED  BY <5>1
      <4>2. ptr_in \in 0 .. BufferSize - 1 /\ Start \in 0 .. BufferSize - 1
        <5>1. ptr_in \in 0 .. BufferSize - 1 /\ ptr_out \in 0 .. BufferSize - 1
          OBVIOUS
        <5> HIDE DEF Ordered, Types, TypeOK, Single, Waiting
        <5> QED  BY <5>1, SizeAssumption
      <4>3. history = {} => Window(BUFFER, ptr_in, Start, floor, received - Waiting)
        OBVIOUS
      <4> HIDE DEF Start, Waiting, Ordered, Types, Single
      <4> QED  BY <4>1, <4>2, <4>3, WindowStore
    <3>6. \A s \in Listeners : at'[s] \in Storing => at[s] \in Storing
      BY <2>1
    <3> QED  BY <2>1, <3>1, <3>3, <3>4, <3>5, <3>6
  <2>3. CASE "left" \in history
    BY <2>1, <2>3
  <2> QED  BY <2>2, <2>3
<1>4. ASSUME NEW t \in Listeners, LoadIn(t) PROVE Ordered'
  <2>1. /\ at[t] = "load" /\ at' = [at EXCEPT ![t] = "advance"]
        /\ UNCHANGED <<chip, fifo, i, n, RXBUFFER, stop_thread, call, budget, ghost>>
    BY <1>4 DEF LoadIn, Go
  <2>2. \A s \in Listeners : at'[s] \in Storing <=> at[s] \in Storing
    BY <2>1
  <2>3. \A s \in Listeners : at'[s] \in {"load", "advance"} <=> at[s] \in {"load", "advance"}
    BY <2>1
  <2>4. Waiting' = Waiting /\ Start' = Start
    BY <2>1, <2>2
  <2> QED  BY <2>1, <2>2, <2>3, <2>4
<1>5. ASSUME NEW t \in Listeners, Advance(t) PROVE Ordered'
  <2>1. /\ at[t] = "advance"
        /\ at' = [at EXCEPT ![t] = IF i[t] + 1 < n[t] THEN "store" ELSE "check"]
        /\ ptr_in' = Next1(ptr[t]) /\ i' = [i EXCEPT ![t] = i[t] + 1]
        /\ history' = IF ptr_in' = ptr_out THEN history \union {"full"} ELSE history
        /\ UNCHANGED <<chip, BUFFER, ptr_out, n, RXBUFFER, stop_thread, call, budget, floor, purged>>
    BY <1>5 DEF Advance, Go, Advanced
  <2>2. i[t] < n[t] /\ i[t] \in 0 .. 2 /\ n[t] \in 0 .. 2
    BY <2>1
  <2>3. CASE "left" \notin history
    <3>1. t = opens /\ \A s \in Listeners : at[s] \in Storing => s = t
      BY <2>1, <2>3
    <3>2. received' - Waiting' = received - Waiting + 1
      <4>1. Waiting = n[t] - i[t]
        BY <2>1, <3>1
      <4>2. Waiting' = n[t] - i[t] - 1
        BY <2>1, <2>2, <3>1
      <4>3. received \in Nat /\ received' = received
        BY <2>1
      <4> HIDE DEF Ordered, Types, TypeOK, Single, Waiting, Start
      <4> QED  BY <2>2, <4>1, <4>2, <4>3
    <3>3. \A s \in Listeners : at'[s] \in Storing => s = t /\ at'[s] = "store" /\ at[s] \in Storing
      BY <2>1, <3>1
    <3>4. \A s \in Listeners : at'[s] \in Storing =>
            \A j \in i'[s] + 1 .. n'[s] : RXBUFFER'[j] = received' - n'[s] + j
      <4>1. \A j \in i[t] + 1 .. n[t] : RXBUFFER[j] = received - n[t] + j
        BY <2>1, <2>3
      <4>2. i'[t] = i[t] + 1 /\ n'[t] = n[t] /\ RXBUFFER' = RXBUFFER /\ received' = received
        BY <2>1
      <4> HIDE DEF Ordered, Types, TypeOK, Single, Waiting, Start
      <4>3. \A j \in i'[t] + 1 .. n'[t] : j \in i[t] + 1 .. n[t]
        BY <2>2, <4>2
      <4>4. \A j \in i'[t] + 1 .. n'[t] : RXBUFFER'[j] = received' - n'[t] + j
        BY <4>1, <4>2, <4>3
      <4> QED  BY <3>3, <4>4
    <3>5. ASSUME history' = {}
          PROVE  /\ pc = "purgeout" => ptr_out = 0 \/ ptr_in' < ptr_out
                 /\ Window(BUFFER, ptr_in', Start, floor, received - Waiting + 1)
                 /\ floor >= purged - 2
      <4>1. history = {} /\ ptr_in' # ptr_out /\ ptr[t] = ptr_in
        BY <2>1, <2>3, <3>5 DEF Fresh
      <4>2. ptr_in' = Next1(ptr_in) /\ ptr_in \in 0 .. BufferSize - 1
            /\ ptr_out \in 0 .. BufferSize - 1 /\ Start \in 0 .. BufferSize - 1
        <5>1. ptr_in' = Next1(ptr_in)
          BY <2>1, <4>1
        <5>2. ptr_in \in 0 .. BufferSize - 1 /\ ptr_out \in 0 .. BufferSize - 1
          OBVIOUS
        <5> HIDE DEF Ordered, Types, TypeOK, Single, Waiting
        <5> QED  BY <5>1, <5>2, SizeAssumption
      <4>3. BUFFER[ptr_in] = received - Waiting + 1
        <5>4. \A s \in Listeners : at[s] \in {"load", "advance"} =>
                BUFFER[ptr_in] = received - n[s] + i[s] + 1
          BY <4>1
        <5>1. BUFFER[ptr_in] = received - n[t] + i[t] + 1
          BY <2>1, <5>4
        <5>2. Waiting = n[t] - i[t]
          BY <2>1, <3>1
        <5>3. received \in Nat
          OBVIOUS
        <5> HIDE DEF Ordered, Types, TypeOK, Single, Waiting, Start
        <5> QED  BY <2>2, <5>1, <5>2, <5>3
      <4>4. Next1(ptr_in) # Start
            /\ (pc = "purgeout" => ptr_out = 0 \/ Next1(ptr_in) < ptr_out)
        <5>1. pc = "purgeout" => ptr_out = 0 \/ ptr_in < ptr_out
          BY <4>1
        <5>2. Next1(ptr_in) # ptr_out
          BY <4>1, <4>2
        <5> HIDE DEF Ordered, Types, TypeOK, Single, Waiting
        <5>3. Start = ptr_out \/ (pc = "purgeout" /\ Start = 0)
          BY DEF Start
        <5> HIDE DEF Start
        <5>4. CASE pc = "purgeout"
          BY <4>2, <5>1, <5>2, <5>3, <5>4, NextPlace, SizeAssumption
        <5> QED  BY <5>2, <5>3, <5>4
      <4>5. Window(BUFFER, ptr_in, Start, floor, received - Waiting)
        BY <4>1
      <4>6. floor \in Int /\ received - Waiting \in Int
        <5>1. Waiting = n[t] - i[t]
          BY <2>1, <3>1
        <5>2. received \in Nat /\ floor \in Int
          BY <2>3
        <5> HIDE DEF Ordered, Types, TypeOK, Single, Waiting, Start
        <5> QED  BY <2>2, <5>1, <5>2
      <4>7. floor >= purged - 2
        BY <4>1
      <4> HIDE DEF Start, Waiting, Ordered, Types, Single
      <4>8. Window(BUFFER, Next1(ptr_in), Start, floor, received - Waiting + 1)
        BY <4>2, <4>3, <4>4, <4>5, <4>6, WindowGrows
      <4> QED  BY <4>2, <4>4, <4>7, <4>8
    <3>6. UNCHANGED <<Start, BUFFER, floor, purged, pc, ptr_out>> /\ "left" \notin history'
      BY <2>1, <2>3
    <3> HIDE DEF Start, Waiting, Window
    <3> QED  BY <2>1, <2>3, <3>2, <3>3, <3>4, <3>5, <3>6
  <2>4. CASE "left" \in history
    BY <2>1, <2>4
  <2> QED  BY <2>3, <2>4
<1>6. ASSUME NEW t \in Listeners, Stop(t) PROVE Ordered'
  BY <1>6, SizeAssumption DEF Stop, Go
<1>7. ASSUME NEW t \in Listeners, Check(t) PROVE Ordered'
  BY <1>7, SizeAssumption DEF Check, Go
<1>8. CASE Open
  <2>1. /\ pc = "closed" /\ pc' = "open" /\ opens' = opens + 1 /\ opens' \in Listeners
        /\ ptr_in' = 0 /\ ptr_out' = 0 /\ at' = [at EXCEPT ![opens'] = "poll"]
        /\ floor' = received /\ purged' = received /\ received' = received
        /\ history' = history \intersect {"left"}
        /\ UNCHANGED <<i, n, RXBUFFER>> /\ received \in Nat
    BY <1>8 DEF Open, Call, Listeners
  <2>2. CASE "left" \notin history
    <3>1. \A s \in Listeners : at'[s] \notin {"store", "load", "advance"}
      BY <2>1, <2>2
    <3>2. Waiting' = 0 /\ Start' = 0
      BY <2>1, <3>1
    <3>3. Window(BUFFER', 0, 0, received, received)
      BY <2>1 DEF Window, Bytes
    <3>4. received - 0 = received /\ received \in Int /\ received >= received - 2
      BY <2>1
    <3> HIDE DEF Waiting, Start, Types, TypeOK, Single
    <3>5. Window(BUFFER', ptr_in', Start', floor', received' - Waiting')
      BY <2>1, <3>2, <3>3, <3>4
    <3> QED  BY <2>1, <3>1, <3>4, <3>5
  <2>3. CASE "left" \in history
    BY <2>1, <2>3
  <2> QED  BY <2>2, <2>3
<1>9. CASE Purge
  BY <1>9, SizeAssumption DEF Purge, Call
<1>10. CASE PurgeIn
  <2>1. /\ pc = "purge" /\ pc' = "purgeout" /\ ptr_in' = 0 /\ floor' = Stored
        /\ purged' = received /\ history \subseteq history'
        /\ "left" \in history' => "left" \in history
        /\ history' = {} => \A t \in Listeners : at[t] \notin {"load", "advance"}
        /\ UNCHANGED <<received, BUFFER, ptr_out, at, i, n, RXBUFFER, opens>>
    BY <1>10 DEF PurgeIn, Call
  <2>2. CASE "left" \notin history
    <3>1. Stored = received - Waiting /\ Waiting \in 0 .. 2
      BY <2>2, StoredIs
    <3>2. Waiting' = Waiting /\ Start' = 0
      BY <2>1
    <3>3. Window(BUFFER', 0, 0, floor', received' - Waiting')
      BY <2>1, <3>1, <3>2 DEF Window, Bytes
    <3>4. history' = {} => \A t \in Listeners : at'[t] \notin {"load", "advance"}
      BY <2>1
    <3>5. ptr_out' = 0 \/ ptr_in' < ptr_out'
      BY <2>1
    <3>6. floor' \in Int /\ floor' >= purged' - 2
      BY <2>1, <3>1
    <3> HIDE DEF Waiting
    <3> QED  BY <2>1, <2>2, <3>2, <3>3, <3>4, <3>5, <3>6
  <2>3. CASE "left" \in history
    BY <2>1, <2>3
  <2> QED  BY <2>2, <2>3
<1>11. CASE PurgeOut
  BY <1>11, SizeAssumption DEF PurgeOut, Call, PurgedOut
<1>12. CASE Wait
  BY <1>12, SizeAssumption DEF Wait, Call
<1>13. CASE WaitEnds
  BY <1>13, SizeAssumption DEF WaitEnds, Call, MayTimeOut
<1>14. CASE Status
  BY <1>14, SizeAssumption DEF Status
<1>15. CASE ReadByte
  <2>1. /\ pc = "read" /\ ptr_in # ptr_out /\ ptr_out' = Next1(ptr_out)
        /\ UNCHANGED <<received, BUFFER, ptr_in, pc, at, i, n, RXBUFFER, opens, purged>>
        /\ IF "raced" \in history /\ Settled
           THEN history' = history \ {"raced", "back"} /\ floor' = Stored
           ELSE floor' = BUFFER[ptr_out] /\ UNCHANGED history
        /\ "left" \in history' <=> "left" \in history
    BY <1>15 DEF ReadByte, MayRead
  <2>2. /\ ptr_in \in 0 .. BufferSize - 1 /\ ptr_out \in 0 .. BufferSize - 1
        /\ BUFFER[ptr_out] \in Nat /\ Waiting' = Waiting
        /\ Start = ptr_out /\ Start' = ptr_out'
    BY <2>1
  <2>3. CASE "left" \in history
    BY <2>1, <2>3
  <2>4. CASE "left" \notin history /\ "raced" \in history /\ Settled
    <3>1. Stored = received - Waiting /\ Waiting \in 0 .. 2
      BY <2>4, StoredIs
    <3>2. floor' = Stored /\ ptr_out' = ptr_in
          /\ \A t \in Listeners : at[t] \notin {"load", "advance"}
      BY <2>1, <2>4 DEF Settled
    <3>3. Window(BUFFER, ptr_in, ptr_in, received - Waiting, received - Waiting)
      BY <2>2, <3>1 DEF Window, Bytes
    <3>4. floor' \in Int /\ floor' >= purged - 2 /\ floor' = received - Waiting
      <4>1. received \in Nat /\ purged \in Nat /\ purged <= received
        OBVIOUS
      <4> HIDE DEF Ordered, Types, TypeOK, Single, Waiting, Start
      <4> QED  BY <3>1, <3>2, <4>1
    <3> HIDE DEF Waiting, Start
    <3> QED  BY <2>1, <2>2, <2>4, <3>2, <3>3, <3>4
  <2>5. CASE "left" \notin history /\ ~("raced" \in history /\ Settled)
    <3>1. floor' = BUFFER[ptr_out] /\ history' = history
      BY <2>1, <2>5
    <3>2. ASSUME history = {}
          PROVE  /\ floor' = floor + 1
                 /\ Window(BUFFER, ptr_in, Next1(ptr_out), floor + 1, received - Waiting)
      <4>1. Window(BUFFER, ptr_in, ptr_out, floor, received - Waiting)
        BY <2>2, <3>2
      <4>2. floor \in Int /\ received - Waiting \in Int
        <5>1. Waiting \in 0 .. 2
          BY <2>5, StoredIs
        <5>2. received \in Nat /\ floor \in Int
          BY <2>5
        <5> HIDE DEF Ordered, Types, TypeOK, Single, Waiting, Start
        <5> QED  BY <5>1, <5>2
      <4> HIDE DEF Waiting, Start, Ordered, Types, Single
      <4> QED  BY <2>1, <2>2, <3>1, <4>1, <4>2, WindowRead
    <3>3. floor' \in Int
      BY <2>2, <3>1
    <3>4. history = {} => floor >= purged - 2 /\ floor \in Int
      BY <2>1
    <3> HIDE DEF Waiting, Start
    <3> QED  BY <2>1, <2>2, <2>5, <3>1, <3>2, <3>3, <3>4
  <2> QED  BY <2>3, <2>4, <2>5
<1>16. CASE ReadEnds
  BY <1>16, SizeAssumption DEF ReadEnds, MayRead
<1>17. CASE Goes
  BY <1>17, SizeAssumption DEF Goes, Call
<1>18. CASE Close
  BY <1>18, SizeAssumption DEF Close
<1>19. CASE CloseEnds
  BY <1>19, SizeAssumption DEF CloseEnds, Call
<1>20. CASE Unplug
  BY <1>20, SizeAssumption DEF Unplug
<1>21. CASE UNCHANGED vars
  BY <1>21 DEF vars
<1> QED
  BY <1>1, <1>2, <1>3, <1>4, <1>5, <1>6, <1>7, <1>8, <1>9, <1>10, <1>11,
     <1>12, <1>13, <1>14, <1>15, <1>16, <1>17, <1>18, <1>19, <1>20, <1>21
     DEF Next, Reading, Listener

\* A byte appended is recent, and a byte taken was the first one.
LEMMA RecentMoves ==
  ASSUME NEW in \in 0 .. BufferSize - 1, NEW out \in 0 .. BufferSize - 1,
         NEW B, NEW p, NEW x, Recent(B, in, out, p, x)
  PROVE  /\ B[in] > p - 2 \/ (x /\ Bytes(in, out) = 0) => Recent(B, Next1(in), out, p, x)
         /\ in # out => \A y : Recent(B, in, Next1(out), p, y)
         /\ \A C : (\A k \in 0 .. BufferSize - 1 : k # in => C[k] = B[k])
                 => Recent(C, in, out, p, x)
<1>1. \A C : (\A k \in 0 .. BufferSize - 1 : k # in => C[k] = B[k]) => Recent(C, in, out, p, x)
  BY WindowSize DEF Recent
<1>2. ASSUME B[in] > p - 2 \/ (x /\ Bytes(in, out) = 0) PROVE Recent(B, Next1(in), out, p, x)
  <2>1. CASE Next1(in) = out
    <3>1. Bytes(Next1(in), out) = 0
      BY <2>1, SizeAssumption DEF Bytes
    <3> QED  BY <3>1 DEF Recent
  <2>2. CASE Next1(in) # out
    <3>1. Bytes(Next1(in), out) = Bytes(in, out) + 1 /\ Bytes(in, out) \in 0 .. BufferSize - 1
          /\ Plus(out, Bytes(in, out)) = in
      BY <2>2, BytesMoves, WindowSize
    <3> QED  BY <1>2, <3>1 DEF Recent
  <2> QED  BY <2>1, <2>2
<1>3. ASSUME in # out, NEW y PROVE Recent(B, in, Next1(out), p, y)
  <2>1. Bytes(in, Next1(out)) = Bytes(in, out) - 1 /\ Bytes(in, out) \in 0 .. BufferSize - 1
    BY <1>3, BytesMoves, WindowSize
  <2>2. \A k \in 0 .. Bytes(in, out) - 2 : Plus(Next1(out), k) = Plus(out, k + 1)
    BY <2>1, NextPlace, SizeAssumption DEF Plus
  <2> QED  BY <2>1, <2>2 DEF Recent
<1> QED
  BY <1>1, <1>2, <1>3

\* No step but the write-back of the pointer brings old bytes back.
LEMMA StaleStep ==
  ASSUME Types, Types', Single, Fresh, Ordered, Stale, [Next]_vars
  PROVE  Stale'
<1>0. /\ ptr_in \in 0 .. BufferSize - 1 /\ ptr_out \in 0 .. BufferSize - 1
      /\ Start \in 0 .. BufferSize - 1
  <2>1. {ptr_in, ptr_out} \subseteq 0 .. BufferSize - 1
    BY DEF Types, TypeOK
  <2>2. 0 \in 0 .. BufferSize - 1
    BY SizeAssumption
  <2> QED  BY <2>1, <2>2 DEF Start
<1> USE DEF chip, fifo, thread, call, budget, ghost
<1>1. ASSUME UNCHANGED <<fifo, purged, history, at>>, Start' = Start PROVE Stale'
  BY <1>1 DEF Stale, Recent, Bytes, Plus
<1>2. ASSUME UNCHANGED <<fifo, purged, history>>, Start' = Start, NEW t \in Listeners,
             NEW w \in Places, at' = [at EXCEPT ![t] = w],
             w \notin {"load", "advance"} \/ at[t] \in {"load", "advance"}
      PROVE  Stale'
  <2>1. \A s \in Listeners : at'[s] \in {"load", "advance"} => at[s] \in {"load", "advance"}
    BY <1>2 DEF Types, TypeOK
  <2> QED  BY <1>2, <2>1 DEF Stale, Recent, Bytes, Plus
<1>3. ASSUME NEW t \in Listeners, Receive(t) PROVE Stale'
  BY <1>2, <1>3 DEF Receive, Go, Start, Places
<1>4. ASSUME NEW t \in Listeners, ReceiveFails(t) PROVE Stale'
  BY <1>2, <1>4 DEF ReceiveFails, Go, Start, Places
<1>5. ASSUME NEW t \in Listeners, LoadIn(t) PROVE Stale'
  BY <1>2, <1>5 DEF LoadIn, Go, Start, Places
<1>6. ASSUME NEW t \in Listeners, Stop(t) PROVE Stale'
  BY <1>2, <1>6 DEF Stop, Go, Start, Places
<1>7. ASSUME NEW t \in Listeners, Check(t) PROVE Stale'
  BY <1>2, <1>7 DEF Check, Go, Start, Places
<1>8. ASSUME NEW t \in Listeners, Store(t) PROVE Stale'
  <2> SUFFICES ASSUME history' \intersect {"left", "back"} = {} PROVE Stale'
    BY DEF Stale
  <2>1. /\ at[t] = "store" /\ at' = [at EXCEPT ![t] = "load"]
        /\ BUFFER' = [BUFFER EXCEPT ![ptr_in] = RXBUFFER[i[t] + 1]]
        /\ UNCHANGED <<ptr_in, ptr_out, pc, purged, history>>
    BY <1>8 DEF Store, Go
  <2>2. "left" \notin history /\ Start' = Start
    BY <2>1 DEF Start
  <2>3. \A j \in i[t] + 1 .. n[t] : RXBUFFER[j] = received - n[t] + j
    BY <2>1, <2>2 DEF Ordered, Storing
  <2>4. i[t] \in 0 .. 2 /\ n[t] \in 0 .. 2 /\ i[t] < n[t] /\ received \in Nat
    BY <2>1 DEF Types, TypeOK, Storing
  <2>5. RXBUFFER[i[t] + 1] = received - n[t] + (i[t] + 1)
    BY <2>3, <2>4
  <2>6. purged \in Nat /\ purged <= received
    BY DEF Ordered
  <2>7. BUFFER'[ptr_in] = RXBUFFER[i[t] + 1]
        /\ \A k \in 0 .. BufferSize - 1 : k # ptr_in => BUFFER'[k] = BUFFER[k]
    BY <1>0, <2>1 DEF Types, TypeOK
  <2>8. BUFFER'[ptr_in] > purged - 2
    BY <2>4, <2>5, <2>6, <2>7
  <2>9. Recent(BUFFER, ptr_in, Start, purged, "raced" \in history)
    BY <2>1 DEF Stale
  <2>10. Recent(BUFFER', ptr_in, Start, purged, "raced" \in history)
    BY <1>0, <2>7, <2>9, RecentMoves
  <2> QED  BY <2>1, <2>2, <2>8, <2>10 DEF Stale
<1>9. ASSUME NEW t \in Listeners, Advance(t) PROVE Stale'
  <2> SUFFICES ASSUME history' \intersect {"left", "back"} = {} PROVE Stale'
    BY DEF Stale
  <2>1. /\ at[t] = "advance" /\ ptr_in' = Next1(ptr[t])
        /\ at' = [at EXCEPT ![t] = IF i[t] + 1 < n[t] THEN "store" ELSE "check"]
        /\ history' = IF ptr_in' = ptr_out THEN history \union {"full"} ELSE history
        /\ UNCHANGED <<BUFFER, ptr_out, pc, purged>>
    BY <1>9 DEF Advance, Advanced, Go
  <2>2. history \intersect {"left", "back"} = {} /\ Start' = Start
        /\ ("raced" \in history' <=> "raced" \in history)
    BY <2>1 DEF Start
  <2>3. ptr_in' = Next1(ptr_in)
    BY <2>1, <2>2 DEF Fresh
  <2>4. \A s \in Listeners : at'[s] \notin {"load", "advance"}
    BY <2>1, <2>2 DEF Single, Types, TypeOK
  <2>5. /\ Recent(BUFFER, ptr_in, Start, purged, "raced" \in history)
        /\ BUFFER[ptr_in] > purged - 2 \/ ("raced" \in history /\ Bytes(ptr_in, Start) = 0)
    BY <2>1, <2>2 DEF Stale
  <2>6. Recent(BUFFER, Next1(ptr_in), Start, purged, "raced" \in history)
    BY <1>0, <2>5, RecentMoves
  <2> QED  BY <2>1, <2>2, <2>3, <2>4, <2>6 DEF Stale
<1>10. CASE Open
  <2> SUFFICES ASSUME history' \intersect {"left", "back"} = {} PROVE Stale'
    BY DEF Stale
  <2>1. /\ pc = "closed" /\ pc' = "open" /\ ptr_in' = 0 /\ ptr_out' = 0
        /\ at' = [at EXCEPT ![opens'] = "poll"] /\ "left" \notin history
    BY <1>10 DEF Open, Call
  <2>2. \A s \in Listeners : at'[s] \notin {"load", "advance"}
    BY <2>1 DEF Single, Types, TypeOK
  <2> QED  BY <2>1, <2>2 DEF Stale, Recent, Start, Bytes
<1>11. CASE Purge
  BY <1>1, <1>11 DEF Purge, Call, Start
<1>12. CASE PurgeIn
  <2> SUFFICES ASSUME history' \intersect {"left", "back"} = {} PROVE Stale'
    BY DEF Stale
  <2>1. /\ pc' = "purgeout" /\ ptr_in' = 0 /\ UNCHANGED at
        /\ \/ "raced" \in history'
           \/ \A t \in Listeners : at[t] \notin {"load", "advance"}
    BY <1>12 DEF PurgeIn, Call
  <2> QED  BY <2>1 DEF Stale, Recent, Start, Bytes
<1>13. CASE PurgeOut
  BY <1>1, <1>13 DEF PurgeOut, PurgedOut, Call, Start, Stale, Recent, Bytes, Plus
<1>14. CASE Wait
  BY <1>1, <1>14 DEF Wait, Call, Start
<1>15. CASE WaitEnds
  BY <1>1, <1>15 DEF WaitEnds, Call, Start
<1>16. CASE Status
  BY <1>1, <1>16 DEF Status, Start
<1>17. CASE ReadByte
  <2> SUFFICES ASSUME history' \intersect {"left", "back"} = {} PROVE Stale'
    BY DEF Stale
  <2>1. /\ pc = "read" /\ ptr_in # ptr_out /\ ptr_out' = Next1(ptr_out)
        /\ UNCHANGED <<BUFFER, ptr_in, pc, at, purged>>
        /\ \/ UNCHANGED history
           \/ Settled /\ "raced" \notin history' /\ "left" \notin history
    BY <1>17 DEF ReadByte, MayRead
  <2>2. Start = ptr_out /\ Start' = Next1(ptr_out)
    BY <2>1 DEF Start
  <2>3. CASE UNCHANGED history
    <3>1. /\ Recent(BUFFER, ptr_in, ptr_out, purged, "raced" \in history)
          /\ \A t \in Listeners : at[t] \in {"load", "advance"} =>
               BUFFER[ptr_in] > purged - 2 \/ Bytes(ptr_in, ptr_out) = 0
      BY <2>2, <2>3 DEF Stale
    <3>2. Bytes(ptr_in, ptr_out) # 0
      BY <1>0, <2>1, SizeAssumption DEF Bytes
    <3>3. Recent(BUFFER, ptr_in, Next1(ptr_out), purged, "raced" \in history)
      BY <1>0, <2>1, <3>1, RecentMoves
    <3> QED  BY <2>1, <2>2, <2>3, <3>1, <3>2, <3>3 DEF Stale
  <2>4. CASE Settled
    <3>1. Bytes(ptr_in, ptr_in) = 0 /\ Next1(ptr_out) = ptr_in
      BY <1>0, <2>1, <2>4 DEF Bytes, Settled
    <3> QED  BY <2>1, <2>2, <2>4, <3>1 DEF Stale, Recent, Settled
  <2> QED  BY <2>1, <2>3, <2>4
<1>18. CASE ReadEnds
  BY <1>1, <1>18 DEF ReadEnds, Start
<1>19. CASE Goes
  BY <1>1, <1>19 DEF Goes, Call, Start
<1>20. CASE Close
  BY <1>1, <1>20 DEF Close, Start
<1>21. CASE CloseEnds
  <2>1. CASE history' = history
    BY <1>1, <1>21, <2>1 DEF CloseEnds, Call, Start
  <2>2. CASE "left" \in history'
    BY <2>2 DEF Stale
  <2> QED  BY <1>21, <2>1, <2>2 DEF CloseEnds
<1>22. CASE Unplug
  BY <1>1, <1>22 DEF Unplug, Start
<1>23. CASE UNCHANGED vars
  BY <1>1, <1>23 DEF vars, Start
<1> QED
  BY <1>3, <1>4, <1>5, <1>6, <1>7, <1>8, <1>9, <1>10, <1>11,
     <1>12, <1>13, <1>14, <1>15, <1>16, <1>17, <1>18, <1>19, <1>20, <1>21, <1>22, <1>23
     DEF Next, Reading, Listener

LEMMA NextIInv == IInv /\ [Next]_vars => IInv'
  BY TypesStep, SingleStep, FreshStep, EnoughStep, OrderedStep, StaleStep DEF IInv

LEMMA Inductive == Spec => []IInv
  BY InitIInv, NextIInv, PTL DEF Spec

(***************************************************************************)
(* Type correctness: the pointers of rx_fifo stay in the buffer whatever   *)
(* the two threads do.                                                     *)
(***************************************************************************)
THEOREM ChipTypes == Spec => []TypeOK
  BY Inductive, PTL DEF IInv, Types

(***************************************************************************)
(* Two listeners are alive, and a read of a sound chip fails, only after a *)
(* close that gave up waiting (476).                                       *)
(***************************************************************************)
THEOREM OneListener == Spec => []ListenerAlone
<1>1. IInv => ListenerAlone
  <2> SUFFICES ASSUME IInv, "left" \notin history
               PROVE  Cardinality(Alive) <= 1 /\ (pc = "failed" => gone)
    BY DEF ListenerAlone
  <2>1. Alive = {} \/ Alive = {opens}
    BY DEF IInv, Single, Alive
  <2>2. Cardinality(Alive) <= 1
    BY <2>1, FS_EmptySet, FS_Singleton
  <2> QED  BY <2>2 DEF IInv, Single
<1> QED
  BY <1>1, Inductive, PTL

(***************************************************************************)
(* The FIFO holds the bytes received last, in order and each of them once  *)
(* (217-218, 510-511, 628-630), unless it was full, a purge met an append  *)
(* or a close left a listener.                                             *)
(***************************************************************************)
THEOREM BytesInOrder == Spec => []InOrder
<1>1. IInv => InOrder
  <2> SUFFICES ASSUME IInv, history = {}, pc # "purgeout"
               PROVE  /\ Level(ptr_in, ptr_out) = Stored - floor
                      /\ \A k \in 0 .. Level(ptr_in, ptr_out) - 1 :
                           BUFFER[(ptr_out + k) % BufferSize] = floor + 1 + k
    BY DEF InOrder, Sound
  <2>1. Stored = received - Waiting
    BY StoredIs DEF IInv
  <2>2. ptr_in \in 0 .. BufferSize - 1 /\ ptr_out \in 0 .. BufferSize - 1
    BY DEF IInv, Types, TypeOK
  <2>3. Window(BUFFER, ptr_in, ptr_out, floor, received - Waiting)
    BY DEF IInv, Ordered, Start
  <2>4. Level(ptr_in, ptr_out) = Bytes(ptr_in, ptr_out)
        /\ Bytes(ptr_in, ptr_out) \in 0 .. BufferSize - 1
    BY <2>2, LevelIsBytes, WindowSize
  <2>5. \A k \in 0 .. BufferSize - 1 : (ptr_out + k) % BufferSize = Plus(ptr_out, k)
    BY <2>2, SizeAssumption DEF Plus
  <2>6. \A k \in 0 .. Bytes(ptr_in, ptr_out) - 1 : k \in 0 .. BufferSize - 1
    BY <2>4, SizeAssumption
  <2> QED  BY <2>1, <2>3, <2>4, <2>5, <2>6 DEF Window
<1> QED
  BY <1>1, Inductive, PTL

(***************************************************************************)
(* A purge leaves no more than the rest of one read of the chip, and the   *)
(* place that is being appended (210, 217, 510).  It is not so when the    *)
(* purge comes between the read and the write of ptr_in (218): there the   *)
(* theorem says nothing, nor after a close that left a listener.           *)
(***************************************************************************)
THEOREM PurgeLeavesLittle == Spec => []StaleBounded
<1>1. IInv => StaleBounded
  <2> SUFFICES ASSUME IInv, history \intersect {"left", "back"} = {}, pc # "purgeout",
                      NEW k \in 0 .. Level(ptr_in, ptr_out) - 1
               PROVE  \/ BUFFER[(ptr_out + k) % BufferSize] > purged - 2
                      \/ k = 0 /\ "raced" \in history
    BY DEF StaleBounded
  <2>2. ptr_in \in 0 .. BufferSize - 1 /\ ptr_out \in 0 .. BufferSize - 1
    BY DEF IInv, Types, TypeOK
  <2>3. Recent(BUFFER, ptr_in, ptr_out, purged, "raced" \in history)
    BY DEF IInv, Stale, Start
  <2>4. Level(ptr_in, ptr_out) = Bytes(ptr_in, ptr_out)
        /\ Bytes(ptr_in, ptr_out) \in 0 .. BufferSize - 1
    BY <2>2, LevelIsBytes, WindowSize
  <2>5. (ptr_out + k) % BufferSize = Plus(ptr_out, k)
    BY <2>2, <2>4, SizeAssumption DEF Plus
  <2> QED  BY <2>3, <2>4, <2>5 DEF Recent
<1> QED
  BY <1>1, Inductive, PTL

(***************************************************************************)
(* A read gets all the bytes that the status call announced, though the    *)
(* listener appends meanwhile (628-630, 666-686), as long as the FIFO was  *)
(* not filled since the open (218) and no close left a listener.           *)
(***************************************************************************)
THEOREM ReadsAreFull == Spec => []ReadFull
<1>1. IInv => ReadFull
  BY DEF IInv, Enough, ReadFull
<1> QED
  BY <1>1, Inductive, PTL
=============================================================================

-------------------------- MODULE SectorListProofs --------------------------
(***************************************************************************)
(* Proofs about the listings of SectorAccess (hxcfe_getAllTrackSectors and *)
(* hxcfe_getAllTrackISOSectors), for any layouts, encodings and calls.     *)
(***************************************************************************)
EXTENDS SectorAccessProofs

(***************************************************************************)
(* What a pass over a track hands over.  It is determined by the track and *)
(* the encoding, so the pass that collects meets the sectors that the pass *)
(* before it has counted.                                                  *)
(***************************************************************************)
\* The headers that a fetch can hand over.
Here(ts, e) == IF ts \in Present THEN Coded(ts, e) ELSE {}

\* Where the cursor is after the first i sectors q of a pass.
Behind(q, i) == IF i \in 1 .. Len(q) THEN q[i].next ELSE 0

\* The sector that comes after them, or None at the end of the pass.
Following(q, i, ts, e) ==
  LET sc == Decode(ts, e, Behind(q, i))
  IN IF \/ ts \notin Present \/ Behind(q, i - 1) > Behind(q, i)
        \/ sc = None \/ sc.next = Behind(q, i)
     THEN None ELSE sc

\* q is the first part of a pass.
Run(q, ts, e) ==
  /\ q \in Seq(Here(ts, e))
  /\ \A i \in 1 .. Len(q) : q[i] = Following(q, i - 1, ts, e)

\* q is the whole pass.
Whole(q, ts, e) == Run(q, ts, e) /\ Following(q, Len(q), ts, e) = None

\* A pass hands over n sectors.
Size(ts, e, n) == \E q \in Seq(Here(ts, e)) : Whole(q, ts, e) /\ Len(q) = n

\* The cursor s is where a pass has left it after q.
After(s, q, ts) ==
  /\ s.bitoffset = Behind(q, Len(q)) /\ s.old_bitoffset = Behind(q, Len(q) - 1)
  /\ q = <<>> \/ s.cur = ts

\* The headers of a pass are headers of the track.
LEMMA HereHeaders ==
  ASSUME Types, NEW ts, NEW e, NEW s \in Here(ts, e)
  PROVE  /\ ts \in Present /\ ts \in TrackSides /\ s \in Coded(ts, e) /\ s \in Live(ts)
         /\ s \in tracks[ts] /\ s.enc = e /\ s # None /\ IsHeader(s) /\ s.start \in Nat /\ s.next \in Nat
<1>1. ts \in Present /\ s \in Coded(ts, e)
  BY DEF Here
<1>2. ts \in TrackSides
  BY <1>1, DirectoryAssumption
<1>3. s \in Live(ts) /\ s \in tracks[ts] /\ s.enc = e
  BY <1>1 DEF Coded, Live
<1>4. tracks \in Layouts
  BY DEF Types, TypeOK
<1>5. s # None /\ IsHeader(s)
  BY <1>2, <1>3, <1>4, DirectoryAssumption
<1> QED
  BY <1>1, <1>2, <1>3, <1>5 DEF IsHeader

\* The sector that follows is one of the track, from the cursor on.
LEMMA Follows ==
  ASSUME Types, NEW ts, NEW e, NEW q \in Seq(Here(ts, e)), NEW i \in Nat, NEW sc,
         sc = Following(q, i, ts, e), sc # None
  PROVE  /\ sc \in Here(ts, e) /\ sc = Decode(ts, e, Behind(q, i))
         /\ sc.start >= Behind(q, i)
         /\ \A t \in Coded(ts, e) : t.start >= Behind(q, i) => sc.start <= t.start
<1> DEFINE pos == Behind(q, i)
           d == Decode(ts, e, pos)
<1>1. ts \in Present /\ d # None /\ sc = d
  BY DEF Following
<1>2. ts \in TrackSides
  BY <1>1, DirectoryAssumption
<1>3. d = Decode(ts, e, pos)
  OBVIOUS
<1> HIDE DEF d, pos
<1>4. /\ d \in Coded(ts, e) /\ d.start >= pos
      /\ \A t \in Coded(ts, e) : t.start >= pos => d.start <= t.start
  BY <1>1, <1>2, <1>3, Decoded
<1> QED
  BY <1>1, <1>3, <1>4 DEF Here, d, pos

\* A fetch of a pass hands over the sector that follows.
LEMMA FetchFollows ==
  ASSUME Types, NEW ts \in Sides, NEW e, NEW q \in Seq(Here(ts, e)), After(ss, q, ts)
  PROVE  LET nx == NextSector(ss, ts, e)
         IN  /\ nx.sc = Following(q, Len(q), ts, e)
             /\ nx.sc # None => /\ nx.ss.cur = ts /\ nx.ss.bitoffset = nx.sc.next
                                /\ nx.ss.old_bitoffset = Behind(q, Len(q))
<1> DEFINE pos == Behind(q, Len(q))
           before == Behind(q, Len(q) - 1)
           sc == Decode(ts, e, pos)
<1>1. ss \in Access /\ ss.bitoffset = pos /\ ss.old_bitoffset = before
  BY DEF Types, After
<1>2. From(ss, ts) = pos
  <2>1. CASE q = <<>>
    <3>1. pos = 0
      BY <2>1 DEF Behind
    <3> QED  BY <1>1, <3>1 DEF From
  <2>2. CASE q # <<>>
    <3>1. ss.cur = ts /\ Len(q) \in 1 .. Len(q) /\ q[Len(q)] \in Here(ts, e)
      BY <2>2 DEF After
    <3>2. q[Len(q)].next \in Nat
      BY <3>1, HereHeaders
    <3>3. pos \in Nat
      BY <3>1, <3>2 DEF Behind
    <3> QED  BY <1>1, <3>1, <3>3 DEF From
  <2> QED  BY <2>1, <2>2
<1>3. AtEnd(ss) <=> before > pos
  BY <1>1 DEF AtEnd
<1>4. Following(q, Len(q), ts, e) =
        IF ts \notin Present \/ before > pos \/ sc = None \/ sc.next = pos THEN None ELSE sc
  BY DEF Following
<1>5. NextSector(ss, ts, e) =
        IF ts \notin Present \/ AtEnd(ss)
        THEN [ss |-> [ss EXCEPT !.cur = ts], sc |-> None]
        ELSE IF sc = None \/ sc.next = pos
        THEN [ss |-> [ss EXCEPT !.cur = ts, !.old_bitoffset = pos, !.bitoffset = -1], sc |-> None]
        ELSE [ss |-> [ss EXCEPT !.cur = ts, !.old_bitoffset = pos, !.bitoffset = sc.next], sc |-> sc]
  BY <1>1, <1>2 DEF NextSector
<1> HIDE DEF pos, before, sc
<1>6. CASE ts \notin Present \/ AtEnd(ss) \/ sc = None \/ sc.next = pos
  <2>1. NextSector(ss, ts, e).sc = None
    BY <1>5, <1>6
  <2> QED  BY <1>3, <1>4, <1>6, <2>1
<1>7. CASE ~(ts \notin Present \/ AtEnd(ss) \/ sc = None \/ sc.next = pos)
  <2> DEFINE r == [ss EXCEPT !.cur = ts, !.old_bitoffset = pos, !.bitoffset = sc.next]
  <2>1. r.cur = ts /\ r.bitoffset = sc.next /\ r.old_bitoffset = pos
    BY <1>1 DEF Access
  <2>2. NextSector(ss, ts, e) = [ss |-> r, sc |-> sc]
    BY <1>5, <1>7
  <2> HIDE DEF r
  <2>3. Following(q, Len(q), ts, e) = sc
    BY <1>3, <1>4, <1>7
  <2> QED  BY <1>7, <2>1, <2>2, <2>3 DEF pos
<1> QED
  BY <1>6, <1>7

\* The positions of a pass do not depend on what comes later.
LEMMA BehindAppended ==
  ASSUME NEW S, NEW q \in Seq(S), NEW s \in S
  PROVE  LET r == Append(q, s)
         IN  /\ r \in Seq(S) /\ Len(r) = Len(q) + 1 /\ r[Len(q) + 1] = s
             /\ \A i \in 1 .. Len(q) : r[i] = q[i]
             /\ \A i \in Int : i <= Len(q) => Behind(r, i) = Behind(q, i)
             /\ Behind(r, Len(r)) = s.next
<1>1. /\ Append(q, s) \in Seq(S) /\ Len(Append(q, s)) = Len(q) + 1
      /\ Append(q, s)[Len(q) + 1] = s /\ Len(q) \in Nat
      /\ \A i \in 1 .. Len(q) : Append(q, s)[i] = q[i]
  OBVIOUS
<1> QED
  BY <1>1 DEF Behind

\* A pass goes on with the sector that follows.
LEMMA RunGrows ==
  ASSUME Types, NEW ts, NEW e, NEW q, Run(q, ts, e),
         NEW sc, sc = Following(q, Len(q), ts, e), sc # None
  PROVE  Run(Append(q, sc), ts, e)
<1> DEFINE r == Append(q, sc)
<1>1. q \in Seq(Here(ts, e)) /\ \A i \in 1 .. Len(q) : q[i] = Following(q, i - 1, ts, e)
  BY DEF Run
<1>2. Len(q) \in Nat
  BY <1>1
<1>3. sc \in Here(ts, e)
  BY <1>1, <1>2, Follows
<1>4. /\ r \in Seq(Here(ts, e)) /\ Len(r) = Len(q) + 1 /\ r[Len(q) + 1] = sc
      /\ \A i \in 1 .. Len(q) : r[i] = q[i]
      /\ \A i \in Int : i <= Len(q) => Behind(r, i) = Behind(q, i)
  BY <1>1, <1>3, BehindAppended
<1> HIDE DEF r
<1>5. \A i \in 1 .. Len(r) : Following(r, i - 1, ts, e) = Following(q, i - 1, ts, e)
  <2> SUFFICES ASSUME NEW i \in 1 .. Len(r)
               PROVE  Following(r, i - 1, ts, e) = Following(q, i - 1, ts, e)
    OBVIOUS
  <2>1. Behind(r, i - 1) = Behind(q, i - 1) /\ Behind(r, (i - 1) - 1) = Behind(q, (i - 1) - 1)
    BY <1>2, <1>4
  <2> QED  BY <2>1 DEF Following
<1>6. \A i \in 1 .. Len(r) : r[i] = Following(r, i - 1, ts, e)
  <2> SUFFICES ASSUME NEW i \in 1 .. Len(r) PROVE r[i] = Following(q, i - 1, ts, e)
    BY <1>5
  <2>1. CASE i \in 1 .. Len(q)
    BY <1>1, <1>4, <2>1
  <2>2. CASE i = Len(q) + 1
    BY <1>2, <1>4, <2>2
  <2> QED  BY <1>2, <1>4, <2>1, <2>2
<1> QED
  BY <1>4, <1>6 DEF Run, r

\* Two passes agree as far as both go.
LEMMA RunsAgree ==
  ASSUME NEW ts, NEW e, NEW p, NEW q, Run(p, ts, e), Run(q, ts, e), Len(p) <= Len(q)
  PROVE  \A i \in 1 .. Len(p) : p[i] = q[i]
<1>1. Len(p) \in Nat /\ Len(q) \in Nat
  BY DEF Run
<1> DEFINE D == {i \in 1 .. Len(p) : p[i] # q[i]}
<1>2. SUFFICES ASSUME D # {} PROVE FALSE
  OBVIOUS
<1>3. D \subseteq Nat
  OBVIOUS
<1>4. PICK k \in D : \A i \in D : k <= i
  BY <1>2, <1>3, LeastOf
<1>5. k \in 1 .. Len(p) /\ k \in 1 .. Len(q) /\ p[k] # q[k]
  BY <1>1, <1>4
<1>6. \A i \in 1 .. Len(p) : i < k => p[i] = q[i]
  <2>1. SUFFICES ASSUME NEW i \in 1 .. Len(p), i < k, p[i] # q[i] PROVE FALSE
    OBVIOUS
  <2>2. i \in D
    BY <2>1
  <2>3. k <= i
    BY <1>4, <2>2
  <2> QED  BY <1>5, <2>1, <2>3
<1> HIDE DEF D
<1>7. Behind(p, k - 1) = Behind(q, k - 1) /\ Behind(p, (k - 1) - 1) = Behind(q, (k - 1) - 1)
  BY <1>1, <1>5, <1>6 DEF Behind
<1>8. Following(p, k - 1, ts, e) = Following(q, k - 1, ts, e)
  BY <1>7 DEF Following
<1> QED
  BY <1>5, <1>8 DEF Run

\* All whole passes of a track are of one length.
LEMMA WholesAgree ==
  ASSUME Types, NEW ts, NEW e, NEW p, NEW q, Whole(p, ts, e), Whole(q, ts, e)
  PROVE  Len(p) = Len(q)
<1>1. ASSUME NEW a, NEW b, Whole(a, ts, e), Whole(b, ts, e), Len(a) < Len(b)
      PROVE  FALSE
  <2>1. /\ a \in Seq(Here(ts, e)) /\ b \in Seq(Here(ts, e)) /\ Len(a) \in Nat /\ Len(b) \in Nat
        /\ Run(a, ts, e) /\ Run(b, ts, e)
    BY <1>1 DEF Whole, Run
  <2>2. \A i \in 1 .. Len(a) : a[i] = b[i]
    BY <1>1, <2>1, RunsAgree
  <2>3. Behind(a, Len(a)) = Behind(b, Len(a)) /\ Behind(a, Len(a) - 1) = Behind(b, Len(a) - 1)
    BY <1>1, <2>1, <2>2 DEF Behind
  <2>4. Following(b, Len(a), ts, e) = None
    BY <1>1, <2>3 DEF Following, Whole
  <2>5. Len(a) + 1 \in 1 .. Len(b) /\ (Len(a) + 1) - 1 = Len(a)
    BY <1>1, <2>1
  <2>6. b[Len(a) + 1] = None
    BY <2>1, <2>4, <2>5 DEF Run
  <2>7. b[Len(a) + 1] \in Here(ts, e)
    BY <2>1, <2>5
  <2> QED  BY <2>6, <2>7, HereHeaders
<1>2. Len(p) \in Nat /\ Len(q) \in Nat
  BY DEF Whole, Run
<1> QED
  BY <1>1, <1>2

\* The sectors of q come in the order of the track.
Rising(q) == \A i, j \in 1 .. Len(q) : i < j => q[i].start < q[j].start

\* The steps of a pass over headers that lie apart go forward.
LEMMA RunForward ==
  ASSUME Types, NEW ts, NEW e, NEW q, Run(q, ts, e), Apart(Live(ts)), NEW i \in 1 .. Len(q)
  PROVE  /\ q[i] \in Here(ts, e) /\ Behind(q, i) = q[i].next /\ q[i].start < q[i].next
         /\ Behind(q, i - 1) <= q[i].start /\ Behind(q, i - 1) \in Nat
         /\ q[i].start \in Nat /\ q[i].next \in Nat
         /\ \A t \in Coded(ts, e) : t.start >= Behind(q, i - 1) => q[i].start <= t.start
<1>1. q \in Seq(Here(ts, e)) /\ q[i] = Following(q, i - 1, ts, e)
  BY DEF Run
<1>2. q[i] \in Here(ts, e)
  BY <1>1
<1>3. /\ q[i] # None /\ q[i] \in Live(ts) /\ q[i].start \in Nat /\ q[i].next \in Nat
  BY <1>2, HereHeaders
<1>4. i - 1 \in Nat /\ Len(q) \in Nat
  BY <1>1
<1>5. /\ q[i].start >= Behind(q, i - 1)
      /\ \A t \in Coded(ts, e) : t.start >= Behind(q, i - 1) => q[i].start <= t.start
  BY <1>1, <1>3, <1>4, Follows
<1>6. Behind(q, i) = q[i].next
  BY DEF Behind
<1>7. q[i].start < q[i].next
  BY <1>3 DEF Apart
<1>8. Behind(q, i - 1) \in Nat
  <2>1. CASE i - 1 \in 1 .. Len(q)
    <3>1. q[i - 1] \in Here(ts, e)
      BY <1>1, <2>1
    <3> QED  BY <2>1, <3>1, HereHeaders DEF Behind
  <2>2. CASE i - 1 \notin 1 .. Len(q)
    BY <2>2 DEF Behind
  <2> QED  BY <2>1, <2>2
<1> QED
  BY <1>2, <1>3, <1>5, <1>6, <1>7, <1>8

LEMMA RunRises ==
  ASSUME Types, NEW ts, NEW e, NEW q, Run(q, ts, e), Apart(Live(ts))
  PROVE  Rising(q)
<1>1. Len(q) \in Nat
  BY DEF Run
<1>2. \A i \in 1 .. Len(q) : /\ q[i].start \in Nat /\ q[i].next \in Nat /\ q[i].start < q[i].next
                             /\ Behind(q, i) = q[i].next /\ Behind(q, i - 1) <= q[i].start
  BY RunForward
<1> DEFINE D == {j \in 1 .. Len(q) : \E i \in 1 .. Len(q) : i < j /\ ~(q[i].start < q[j].start)}
<1>3. SUFFICES ASSUME D # {} PROVE FALSE
  BY DEF Rising
<1>4. D \subseteq Nat
  OBVIOUS
<1>5. PICK j \in D : \A k \in D : j <= k
  BY <1>3, <1>4, LeastOf
<1>6. j \in 1 .. Len(q)
  OBVIOUS
<1>7. PICK i \in 1 .. Len(q) : i < j /\ ~(q[i].start < q[j].start)
  OBVIOUS
<1>8. j - 1 \in 1 .. Len(q) /\ j - 1 \notin D
  BY <1>1, <1>5, <1>6, <1>7
<1>9. q[j - 1].start < q[j].start
  <2> HIDE DEF D
  <2>1. /\ q[j - 1].start \in Nat /\ q[j - 1].next \in Nat
        /\ q[j - 1].start < q[j - 1].next /\ Behind(q, j - 1) = q[j - 1].next
    BY <1>2, <1>8
  <2>2. Behind(q, j - 1) <= q[j].start /\ q[j].start \in Nat
    BY <1>2, <1>6
  <2> QED  BY <2>1, <2>2
<1>10. CASE i = j - 1
  BY <1>7, <1>9, <1>10
<1>11. CASE i < j - 1
  <2>1. q[i].start < q[j - 1].start
    BY <1>7, <1>8, <1>11
  <2> HIDE DEF D
  <2> QED  BY <1>2, <1>6, <1>7, <1>8, <1>9, <2>1
<1> QED
  BY <1>6, <1>7, <1>10, <1>11

\* A whole pass over headers that lie apart lists the headers of its encoding.
LEMMA WholeLists ==
  ASSUME Types, NEW ts \in Present, NEW e, NEW q, Whole(q, ts, e), Apart(Live(ts))
  PROVE  Rising(q) /\ \A s \in Coded(ts, e) : \E i \in 1 .. Len(q) : q[i] = s
<1>1. Run(q, ts, e) /\ q \in Seq(Here(ts, e)) /\ Len(q) \in Nat /\ Here(ts, e) = Coded(ts, e)
  BY DEF Whole, Run, Here
<1>2. Rising(q)
  BY <1>1, RunRises
<1>3. \A i \in 1 .. Len(q) :
        /\ q[i] \in Here(ts, e) /\ Behind(q, i) = q[i].next /\ q[i].start < q[i].next
        /\ Behind(q, i - 1) <= q[i].start /\ Behind(q, i - 1) \in Nat
        /\ q[i].start \in Nat /\ q[i].next \in Nat
        /\ \A t \in Coded(ts, e) : t.start >= Behind(q, i - 1) => q[i].start <= t.start
  BY <1>1, RunForward
<1>4. SUFFICES ASSUME NEW s \in Coded(ts, e) PROVE \E i \in 1 .. Len(q) : q[i] = s
  BY <1>2
<1>5. s \in Live(ts) /\ s.start \in Nat /\ s.next \in Nat /\ s # None
  BY <1>1, HereHeaders
\* The pass ends behind every header.
<1>6. s.start < Behind(q, Len(q))
  <2> DEFINE pos == Behind(q, Len(q))
             sc == Decode(ts, e, pos)
  <2>1. pos \in Nat /\ ~(Behind(q, Len(q) - 1) > pos)
    <3>1. CASE Len(q) = 0
      BY <3>1 DEF Behind
    <3>2. CASE Len(q) # 0
      <4>1. Len(q) \in 1 .. Len(q)
        BY <1>1, <3>2
      <4> QED  BY <1>3, <4>1
    <3> QED  BY <3>1, <3>2
  <2>2. sc = None \/ sc.next = pos
    BY <2>1 DEF Following, Whole
  <2>3. sc = Decode(ts, e, pos)
    OBVIOUS
  <2> HIDE DEF pos, sc
  <2>4. \/ sc = None /\ \A t \in Coded(ts, e) : ~(t.start >= pos)
        \/ sc # None /\ sc \in Coded(ts, e) /\ sc.start >= pos
    BY <2>3, Decoded, DirectoryAssumption
  <2>5. sc = None
    <3>1. SUFFICES ASSUME sc # None PROVE FALSE
      OBVIOUS
    <3>2. sc \in Here(ts, e) /\ sc.start >= pos /\ sc.next = pos
      BY <1>1, <2>2, <2>4, <3>1
    <3>3. sc \in Live(ts) /\ sc.start \in Nat /\ sc.next \in Nat
      BY <3>2, HereHeaders
    <3>4. sc.start < sc.next
      BY <3>3 DEF Apart
    <3> QED  BY <2>1, <3>2, <3>3, <3>4
  <2>6. ~(s.start >= pos)
    BY <2>4, <2>5
  <2> QED  BY <1>5, <2>1, <2>6 DEF pos
\* The first step that went past s has found it.
<1> DEFINE D == {i \in 1 .. Len(q) : s.start < Behind(q, i)}
<1>7. D # {}
  <2>1. Len(q) # 0
    BY <1>5, <1>6 DEF Behind
  <2>2. Len(q) \in D
    BY <1>1, <1>6, <2>1
  <2> QED  BY <2>2
<1>8. D \subseteq Nat
  OBVIOUS
<1>9. PICK i \in D : \A k \in D : i <= k
  BY <1>7, <1>8, LeastOf
<1>10. i \in 1 .. Len(q) /\ s.start < q[i].next
  BY <1>3
<1>11. s.start >= Behind(q, i - 1)
  <2>1. CASE i = 1
    BY <1>5, <2>1 DEF Behind
  <2>2. CASE i # 1
    <3>1. i - 1 \in 1 .. Len(q) /\ i - 1 \notin D
      BY <1>1, <1>9, <1>10, <2>2
    <3>2. ~(s.start < Behind(q, i - 1))
      BY <3>1
    <3> HIDE DEF D
    <3> QED  BY <1>3, <1>5, <1>10, <3>2
  <2> QED  BY <2>1, <2>2
<1> HIDE DEF D
<1>12. q[i].start <= s.start /\ q[i] \in Live(ts) /\ q[i].start \in Nat /\ q[i].next \in Nat
  BY <1>3, <1>10, <1>11, HereHeaders
<1>13. ~(q[i].start < s.start)
  <2>1. q[i].start < s.start => q[i].next <= s.start
    BY <1>5, <1>12 DEF Apart
  <2> QED  BY <1>5, <1>10, <1>12, <2>1
<1>14. q[i].start = s.start
  BY <1>5, <1>12, <1>13
<1> QED
  BY <1>5, <1>10, <1>12, <1>14 DEF Apart

-----------------------------------------------------------------------------
(***************************************************************************)
(* The invariant: what the passes have counted and collected so far, and   *)
(* how far the merge has come.                                             *)
(***************************************************************************)
Count(e) == [do |-> "count", enc |-> e]
Take(e)  == [do |-> "take", enc |-> e]

\* q is what the pass under way has met.
Begun(q, e) == IF pc = "rewind" THEN q = <<>> ELSE Run(q, call.ts, e) /\ After(ss, q, call.ts)

ListPasses ==
  \/ /\ todo = <<Count(call.enc), Take(call.enc)>> /\ held = NothingHeld
     /\ \E q : Begun(q, call.enc) /\ tally = Len(q)
  \/ /\ todo = <<Take(call.enc)>> /\ Size(call.ts, call.enc, tally)
     /\ Begun(held[call.enc], call.enc)

IsoPasses ==
  \/ /\ todo = <<Count("mfm"), Count("fm"), Take("fm"), Take("mfm")>> /\ held = NothingHeld
     /\ \E q : Begun(q, "mfm") /\ tally = Len(q)
  \/ /\ todo = <<Count("fm"), Take("fm"), Take("mfm")>> /\ held = NothingHeld
     /\ \E q, n : Begun(q, "fm") /\ Size(call.ts, "mfm", n) /\ tally = n + Len(q)
  \/ /\ todo = <<Take("fm"), Take("mfm")>> /\ held["mfm"] = <<>> /\ tally # 0
     /\ \E m, n : Size(call.ts, "fm", m) /\ Size(call.ts, "mfm", n) /\ tally = n + m
     /\ Begun(held["fm"], "fm")
  \/ /\ todo = <<Take("mfm")>> /\ Whole(held["fm"], call.ts, "fm")
     /\ \E n : Size(call.ts, "mfm", n) /\ tally = n + Len(held["fm"])
     /\ Begun(held["mfm"], "mfm")

\* The encodings of a listing, the headers it must list, and how many are left.
Sources  == IF call.fn = "list" THEN {call.enc} ELSE {"mfm", "fm"}
Listable == UNION {Here(call.ts, e) : e \in Sources}
Left     == IF call.fn = "list" THEN Len(held[call.enc]) ELSE Len(held["fm"]) + Len(held["mfm"])

\* The passes are over and the merge has not begun.
Collected ==
  /\ got = <<>> /\ tally = Left
  /\ \A e \in Sources : Whole(held[e], call.ts, e)

\* The headers merged come before those that are left.
Merged ==
  /\ Rising(got) /\ \A e \in Sources : Rising(held[e])
  /\ \A e \in Sources : \A i \in 1 .. Len(got), j \in 1 .. Len(held[e]) :
       got[i].start < held[e][j].start
  /\ \A e \in Sources : \A s \in Here(call.ts, e) :
       \/ \E i \in 1 .. Len(got) : got[i] = s
       \/ \E i \in 1 .. Len(held[e]) : held[e][i] = s

Orderly == call.ts \in Present /\ Apart(Live(call.ts))

Merging ==
  /\ got \in Seq(Listable) /\ tally = Len(got) + Left
  /\ \A e \in Sources : held[e] \in Seq(Here(call.ts, e))
  /\ Orderly => Merged

Done ==
  /\ got \in Seq(Listable) /\ Len(got) = tally
  /\ Orderly => Lists(got, Listable)

Listing == call.fn \in {"list", "listiso"}

Lister ==
  /\ DOMAIN held = Encodings
  /\ pc \in {"rewind", "pass", "merge"} => Listing
  /\ pc \in {"look", "scan", "found", "missing", "return0"} => ~Listing
  /\ pc \in {"rewind", "pass"} =>
       got = <<>> /\ IF call.fn = "list" THEN ListPasses ELSE IsoPasses
  /\ pc = "merge" => Merging
  /\ pc = "return" /\ Listing => Done

\* What a pass hands over does not depend on the step, but for a write.
LEMMA Kept ==
  ASSUME UNCHANGED image
  PROVE  /\ \A ts, e : Here(ts, e)' = Here(ts, e)
         /\ \A q, ts, e : Run(q, ts, e)' = Run(q, ts, e)
         /\ \A q, ts, e : Whole(q, ts, e)' = Whole(q, ts, e)
         /\ \A ts, e, n : Size(ts, e, n)' = Size(ts, e, n)
         /\ \A ts : Live(ts)' = Live(ts)
<1>1. \A ts : Live(ts)' = Live(ts)
  BY DEF Live, image
<1>2. \A ts, e : Coded(ts, e)' = Coded(ts, e)
  BY <1>1 DEF Coded
<1>3. \A ts, e : Here(ts, e)' = Here(ts, e)
  BY <1>2 DEF Here
<1>4. \A ts, e, pos : Decode(ts, e, pos)' = Decode(ts, e, pos)
  BY <1>2 DEF Decode
<1>5. \A q, i, ts, e : Following(q, i, ts, e)' = Following(q, i, ts, e)
  BY <1>4 DEF Following
<1>6. \A q, ts, e : Run(q, ts, e)' = Run(q, ts, e)
  BY <1>3, <1>5 DEF Run
<1>7. \A q, ts, e : Whole(q, ts, e)' = Whole(q, ts, e)
  BY <1>5, <1>6 DEF Whole
<1>8. \A ts, e, n : Size(ts, e, n)' = Size(ts, e, n)
  BY <1>3, <1>7 DEF Size
<1> QED
  BY <1>1, <1>3, <1>6, <1>7, <1>8

\* A pass begins with the cursor at the start of the track.
LEMMA RunBegins ==
  ASSUME NEW s \in Access, NEW ts, NEW e
  PROVE  Run(<<>>, ts, e) /\ After(Rewound(s), <<>>, ts) /\ Len(<<>>) = 0
<1>1. <<>> \in Seq(Here(ts, e)) /\ Len(<<>>) = 0
  OBVIOUS
<1>2. Rewound(s).bitoffset = 0 /\ Rewound(s).old_bitoffset = 0
  BY DEF Rewound, Access
<1> QED
  BY <1>1, <1>2 DEF Run, After, Behind

\* A fetch of a pass ends it or takes it on.
LEMMA PassOn ==
  ASSUME Types, NEW ts \in Sides, NEW e, Fetch(ss, ts, e),
         NEW q, Run(q, ts, e), After(ss, q, ts), NEW sc, sc = NextSector(ss, ts, e).sc
  PROVE  /\ sc = None => Whole(q, ts, e)
         /\ sc # None => /\ Run(Append(q, sc), ts, e) /\ After(ss', Append(q, sc), ts)
                         /\ Len(Append(q, sc)) = Len(q) + 1
<1>1. q \in Seq(Here(ts, e)) /\ Len(q) \in Nat
  BY DEF Run
<1>2. /\ sc = Following(q, Len(q), ts, e)
      /\ sc # None => /\ ss'.cur = ts /\ ss'.bitoffset = sc.next
                      /\ ss'.old_bitoffset = Behind(q, Len(q))
  BY <1>1, FetchFollows DEF Fetch
<1>3. CASE sc = None
  BY <1>2, <1>3 DEF Whole
<1>4. CASE sc # None
  <2>1. sc \in Here(ts, e)
    BY <1>1, <1>2, <1>4, Follows
  <2>2. Run(Append(q, sc), ts, e)
    BY <1>2, <1>4, RunGrows
  <2>3. LET r == Append(q, sc)
        IN  /\ Len(r) = Len(q) + 1 /\ Behind(r, Len(r)) = sc.next
            /\ \A i \in Int : i <= Len(q) => Behind(r, i) = Behind(q, i)
    BY <1>1, <2>1, BehindAppended
  <2>4. Behind(Append(q, sc), Len(Append(q, sc)) - 1) = Behind(q, Len(q))
    BY <1>1, <2>3
  <2> QED  BY <1>2, <1>4, <2>2, <2>3, <2>4 DEF After
<1> QED
  BY <1>3, <1>4

\* The passes that are over leave what the merge takes up.
LEMMA CollectedMerges == Types /\ Collected => Merging
<1> SUFFICES ASSUME Types, Collected PROVE Merging
  OBVIOUS
<1>1. \A e \in Sources : Whole(held[e], call.ts, e) /\ held[e] \in Seq(Here(call.ts, e))
  BY DEF Collected, Whole, Run
<1>2. got = <<>> /\ tally = Left
  BY DEF Collected
<1>3. Len(got) = 0 /\ got \in Seq(Listable)
  <2>1. <<>> \in Seq(Listable) /\ Len(<<>>) = 0
    BY EmptyCache, Zenon
  <2> QED  BY <1>2, <2>1, Zenon
<1>4. Left \in Nat
  <2>1. \A e \in Sources : Len(held[e]) \in Nat
    BY <1>1
  <2>2. CASE call.fn = "list"
    <3>1. Len(held[call.enc]) \in Nat
      BY <2>1, <2>2 DEF Sources
    <3> QED  BY <2>2, <3>1 DEF Left
  <2>3. CASE call.fn # "list"
    <3> DEFINE m == Len(held["fm"])
               n == Len(held["mfm"])
    <3>1. m \in Nat /\ n \in Nat
      BY <2>1, <2>3 DEF Sources
    <3>2. Left = m + n
      BY <2>3 DEF Left
    <3> HIDE DEF m, n
    <3> QED  BY <3>1, <3>2
  <2> QED  BY <2>2, <2>3
<1>5. ASSUME Orderly PROVE Merged
  <2>1. call.ts \in Present /\ Apart(Live(call.ts))
    BY <1>5 DEF Orderly
  <2>2. \A e \in Sources : /\ Rising(held[e])
                           /\ \A s \in Coded(call.ts, e) : \E i \in 1 .. Len(held[e]) : held[e][i] = s
    BY <1>1, <2>1, WholeLists
  <2>3. \A e \in Sources : Here(call.ts, e) = Coded(call.ts, e)
    BY <2>1 DEF Here
  <2>4. Rising(got)
    BY <1>3 DEF Rising
  <2> QED  BY <1>3, <2>2, <2>3, <2>4 DEF Merged
<1> QED
  BY <1>1, <1>2, <1>3, <1>4, <1>5 DEF Merging

LEMMA EmptyRun ==
  ASSUME NEW S, NEW q \in Seq(S), Len(q) = 0
  PROVE  q = <<>>
  OBVIOUS

\* What a step of a pass does, by what the pass is for.
LEMMA PassSteps ==
  ASSUME Types, Pass, NEW e, Head(todo).enc = e, NEW sc, sc = NextSector(ss, call.ts, e).sc
  PROVE  /\ pc = "pass" /\ call.ts \in Sides /\ call \in Calls /\ Fetch(ss, call.ts, e)
         /\ UNCHANGED <<image, call, got>>
         /\ \/ /\ sc = None /\ todo' = Tail(todo) /\ pc' = AfterPass(Tail(todo))
               /\ UNCHANGED <<tally, held>>
            \/ /\ sc # None /\ Head(todo).do = "count" /\ tally' = tally + 1
               /\ UNCHANGED <<todo, pc, held>>
            \/ /\ sc # None /\ Head(todo).do = "take"
               /\ held' = [held EXCEPT ![e] = Append(@, sc)]
               /\ UNCHANGED <<todo, pc, tally>>
  BY DEF Pass, Types, TypeOK, Sides

\* What it makes of the sectors met so far.
LEMMA PassGoes ==
  ASSUME Types, Pass, NEW e, Head(todo).enc = e, NEW sc, sc = NextSector(ss, call.ts, e).sc,
         NEW q, Begun(q, e)
  PROVE  /\ q \in Seq(Here(call.ts, e)) /\ Len(q) \in Nat
         /\ sc = None => Whole(q, call.ts, e)
         /\ sc # None /\ pc' = "pass" => Begun(Append(q, sc), e)'
         /\ sc # None => Len(Append(q, sc)) = Len(q) + 1
<1>1. /\ pc = "pass" /\ call.ts \in Sides /\ Fetch(ss, call.ts, e) /\ UNCHANGED <<image, call>>
  BY PassSteps
<1>2. Run(q, call.ts, e) /\ After(ss, q, call.ts)
  BY <1>1 DEF Begun
<1>3. /\ sc = None => Whole(q, call.ts, e)
      /\ sc # None => /\ Run(Append(q, sc), call.ts, e) /\ After(ss', Append(q, sc), call.ts)
                      /\ Len(Append(q, sc)) = Len(q) + 1
  BY <1>1, <1>2, PassOn
<1>4. q \in Seq(Here(call.ts, e)) /\ Len(q) \in Nat
  BY <1>2 DEF Run
<1>5. ASSUME sc # None, pc' = "pass" PROVE Begun(Append(q, sc), e)'
  <2>1. \A r : Run(r, call.ts, e)' = Run(r, call.ts, e)
    BY <1>1, Kept
  <2> QED  BY <1>1, <1>3, <1>5, <2>1 DEF Begun
<1> QED
  BY <1>3, <1>4, <1>5

\* A pass of the listing of one encoding.
LEMMA ListPass ==
  ASSUME Types, Lister, Pass, call.fn = "list"
  PROVE  \/ pc' \in {"pass", "rewind"} /\ ListPasses' /\ DOMAIN held' = Encodings
         \/ pc' = "merge" /\ Collected' /\ DOMAIN held' = Encodings
<1> DEFINE e == call.enc
           ts == call.ts
<1>1. pc = "pass" /\ got = <<>> /\ ListPasses /\ DOMAIN held = Encodings /\ e \in Encodings
  BY CallAssumption DEF Pass, Lister, Types, TypeOK
<1>2. Head(todo).enc = e
  BY <1>1 DEF ListPasses, Count, Take
<1>3. PICK sc : sc = NextSector(ss, ts, e).sc
  OBVIOUS
<1>4. PICK h : h = held[e]
  OBVIOUS
<1>5. /\ call.ts \in Sides /\ Fetch(ss, ts, e) /\ UNCHANGED <<image, call, got>>
      /\ \/ /\ sc = None /\ todo' = Tail(todo) /\ pc' = AfterPass(Tail(todo))
            /\ UNCHANGED <<tally, held>>
         \/ /\ sc # None /\ Head(todo).do = "count" /\ tally' = tally + 1
            /\ UNCHANGED <<todo, pc, held>>
         \/ /\ sc # None /\ Head(todo).do = "take" /\ held' = [held EXCEPT ![e] = Append(@, sc)]
            /\ UNCHANGED <<todo, pc, tally>>
  BY <1>2, <1>3, PassSteps
<1>6. /\ \A q : Run(q, ts, e)' = Run(q, ts, e)
      /\ \A q : Whole(q, ts, e)' = Whole(q, ts, e)
      /\ \A n : Size(ts, e, n)' = Size(ts, e, n)
      /\ ts' = ts /\ e' = e
  BY <1>5, Kept
<1>7. \A q : Begun(q, e) =>
        /\ q \in Seq(Here(ts, e)) /\ Len(q) \in Nat
        /\ sc = None => Whole(q, ts, e)
        /\ sc # None /\ pc' = "pass" => Begun(Append(q, sc), e)'
        /\ sc # None => Len(Append(q, sc)) = Len(q) + 1
  BY <1>2, <1>6, <1>3, PassGoes
<1>8. CASE /\ todo = <<Count(e), Take(e)>> /\ held = NothingHeld
           /\ \E q : Begun(q, e) /\ tally = Len(q)
  <2>1. PICK q : Begun(q, e) /\ tally = Len(q)
    BY <1>8
  <2>2. Head(todo) = Count(e) /\ Tail(todo) = <<Take(e)>>
    BY <1>8
  <2>3. Head(todo).do = "count" /\ held[e] = <<>>
    BY <1>1, <1>8, <2>2 DEF Count, NothingHeld
  <2>4. CASE sc = None
    <3>1. Whole(q, ts, e) /\ q \in Seq(Here(ts, e))
      BY <1>7, <2>1, <2>4
    <3>2. todo' = <<Take(e)>> /\ pc' = AfterPass(<<Take(e)>>) /\ UNCHANGED <<tally, held>>
      BY <1>5, <2>2, <2>4
    <3>3. AfterPass(<<Take(e)>>) = IF tally = 0 THEN "merge" ELSE "rewind"
      BY DEF AfterPass, Take
    <3>4. CASE tally = 0
      <4>1. q = <<>>
        BY <2>1, <3>1, <3>4, EmptyRun
      <4>2. Whole(held[e], ts, e)' /\ Len(held[e]) = 0
        BY <1>6, <2>3, <3>1, <3>2, <4>1
      <4> QED  BY <1>1, <1>5, <3>2, <3>3, <3>4, <4>2 DEF Collected, Left, Sources
    <3>5. CASE tally # 0
      <4>1. Size(ts, e, tally)
        BY <2>1, <3>1 DEF Size
      <4>2. pc' = "rewind" /\ Size(ts, e, tally)'
        BY <1>6, <3>2, <3>3, <3>5, <4>1
      <4> QED  BY <1>1, <1>5, <1>6, <2>3, <3>2, <4>2 DEF ListPasses, Begun
    <3> QED  BY <3>4, <3>5
  <2>5. CASE sc # None
    <3>1. tally' = tally + 1 /\ UNCHANGED <<todo, pc, held>>
      BY <1>5, <2>3, <2>5
    <3>2. Begun(Append(q, sc), e)' /\ tally' = Len(Append(q, sc))
      BY <1>1, <1>7, <2>1, <2>5, <3>1
    <3>3. ListPasses'
      BY <1>5, <1>6, <1>8, <3>1, <3>2 DEF ListPasses, NothingHeld
    <3> QED  BY <1>1, <3>1, <3>3
  <2> QED  BY <2>4, <2>5
<1>9. CASE todo = <<Take(e)>> /\ Size(ts, e, tally) /\ Begun(held[e], e)
  <2>1. Head(todo) = Take(e) /\ Tail(todo) = <<>> /\ Head(todo).do = "take"
    BY <1>9 DEF Take
  <2>2. CASE sc = None
    <3>1. todo' = <<>> /\ pc' = "merge" /\ UNCHANGED <<tally, held>>
      BY <1>5, <2>1, <2>2 DEF AfterPass
    <3>2. Whole(h, ts, e)
      BY <1>7, <1>9, <1>4, <2>2
    <3>3. PICK q \in Seq(Here(ts, e)) : Whole(q, ts, e) /\ Len(q) = tally
      BY <1>9 DEF Size
    <3>4. Len(h) = tally
      BY <3>2, <3>3, WholesAgree
    <3>5. Whole(held[e], ts, e)'
      BY <1>6, <1>4, <3>1, <3>2
    <3> QED  BY <1>1, <1>5, <1>4, <3>1, <3>4, <3>5 DEF Collected, Left, Sources
  <2>3. CASE sc # None
    <3>1. held' = [held EXCEPT ![e] = Append(@, sc)] /\ UNCHANGED <<todo, pc, tally>>
      BY <1>5, <2>1, <2>3
    <3>2. held'[e] = Append(h, sc) /\ DOMAIN held' = Encodings
      BY <1>1, <1>4, <3>1
    <3>3. Begun(Append(h, sc), e)'
      BY <1>1, <1>7, <1>9, <1>4, <2>3, <3>1
    <3>4. Size(ts, e, tally)'
      BY <1>6, <1>9, <3>1
    <3>5. Begun(held[e], e)'
      BY <1>6, <3>2, <3>3
    <3>6. ListPasses'
      BY <1>5, <1>6, <1>9, <3>1, <3>4, <3>5 DEF ListPasses
    <3> QED  BY <1>1, <3>1, <3>2, <3>6
  <2> QED  BY <2>2, <2>3
<1> QED
  BY <1>1, <1>8, <1>9 DEF ListPasses

\* A pass of the listing of both encodings.
LEMMA IsoPass ==
  ASSUME Types, Lister, Pass, call.fn # "list"
  PROVE  \/ pc' \in {"pass", "rewind"} /\ IsoPasses' /\ DOMAIN held' = Encodings
         \/ pc' = "merge" /\ Collected' /\ DOMAIN held' = Encodings
<1> DEFINE ts == call.ts
<1>1. /\ pc = "pass" /\ got = <<>> /\ IsoPasses /\ DOMAIN held = Encodings
      /\ {"mfm", "fm"} \subseteq Encodings
  BY AccessAssumption DEF Pass, Lister, Types, TypeOK
<1>2. UNCHANGED <<image, call, got>>
  BY DEF Pass
<1>3. /\ \A q, e : Run(q, ts, e)' = Run(q, ts, e)
      /\ \A q, e : Whole(q, ts, e)' = Whole(q, ts, e)
      /\ \A e, n : Size(ts, e, n)' = Size(ts, e, n)
      /\ ts' = ts /\ call' = call
  BY <1>2, Kept
<1>4. ASSUME NEW e, Head(todo).enc = e, NEW sc, sc = NextSector(ss, ts, e).sc
      PROVE  /\ \/ /\ sc = None /\ todo' = Tail(todo) /\ pc' = AfterPass(Tail(todo))
                   /\ UNCHANGED <<tally, held>>
                \/ /\ sc # None /\ Head(todo).do = "count" /\ tally' = tally + 1
                   /\ UNCHANGED <<todo, pc, held>>
                \/ /\ sc # None /\ Head(todo).do = "take"
                   /\ held' = [held EXCEPT ![e] = Append(@, sc)] /\ UNCHANGED <<todo, pc, tally>>
             /\ \A q : Begun(q, e) =>
                  /\ q \in Seq(Here(ts, e)) /\ Len(q) \in Nat
                  /\ sc = None => Whole(q, ts, e)
                  /\ sc # None /\ pc' = "pass" => Begun(Append(q, sc), e)'
                  /\ sc # None => Len(Append(q, sc)) = Len(q) + 1
  BY <1>4, PassSteps, PassGoes
<1>5. CASE /\ todo = <<Count("mfm"), Count("fm"), Take("fm"), Take("mfm")>> /\ held = NothingHeld
           /\ \E q : Begun(q, "mfm") /\ tally = Len(q)
  <2> DEFINE rest == <<Count("fm"), Take("fm"), Take("mfm")>>
  <2>1. PICK q : Begun(q, "mfm") /\ tally = Len(q)
    BY <1>5
  <2>2. Tail(todo) = rest /\ Head(todo).enc = "mfm" /\ Head(todo).do = "count"
    BY <1>5 DEF Count
  <2>3. PICK sc : sc = NextSector(ss, ts, "mfm").sc
    OBVIOUS
  <2>4. CASE sc = None
    <3>1. Whole(q, ts, "mfm") /\ q \in Seq(Here(ts, "mfm")) /\ Len(q) \in Nat
      BY <1>4, <2>1, <2>2, <2>3, <2>4
    <3>2. todo' = rest /\ pc' = AfterPass(rest) /\ UNCHANGED <<tally, held>>
      BY <1>4, <2>2, <2>3, <2>4
    <3>3. pc' = "rewind"
      BY <3>2 DEF AfterPass, Count
    <3>4. Size(ts, "mfm", tally)'
      BY <1>3, <2>1, <3>1, <3>2 DEF Size
    <3>5. Begun(<<>>, "fm")' /\ tally' = tally' + Len(<<>>)
      BY <2>1, <3>1, <3>2, <3>3 DEF Begun
    <3>6. IsoPasses'
      BY <1>3, <1>5, <3>2, <3>4, <3>5 DEF IsoPasses, NothingHeld
    <3> QED  BY <1>1, <3>2, <3>3, <3>6
  <2>5. CASE sc # None
    <3>1. tally' = tally + 1 /\ UNCHANGED <<todo, pc, held>>
      BY <1>4, <2>2, <2>3, <2>5
    <3>2. Begun(Append(q, sc), "mfm")' /\ tally' = Len(Append(q, sc))
      BY <1>1, <1>4, <2>1, <2>2, <2>3, <2>5, <3>1
    <3>3. IsoPasses'
      BY <1>3, <1>5, <3>1, <3>2 DEF IsoPasses, NothingHeld
    <3> QED  BY <1>1, <3>1, <3>3
  <2> QED  BY <2>4, <2>5
<1>6. CASE /\ todo = <<Count("fm"), Take("fm"), Take("mfm")>> /\ held = NothingHeld
           /\ \E q, n : Begun(q, "fm") /\ Size(ts, "mfm", n) /\ tally = n + Len(q)
  <2> DEFINE rest == <<Take("fm"), Take("mfm")>>
  <2>1. PICK q, n : Begun(q, "fm") /\ Size(ts, "mfm", n) /\ tally = n + Len(q)
    BY <1>6
  <2>2. Tail(todo) = rest /\ Head(todo).enc = "fm" /\ Head(todo).do = "count"
    BY <1>6 DEF Count
  <2>3. PICK sc : sc = NextSector(ss, ts, "fm").sc
    OBVIOUS
  <2>4. PICK p \in Seq(Here(ts, "mfm")) : Whole(p, ts, "mfm") /\ Len(p) = n /\ n \in Nat
    BY <2>1 DEF Size
  <2>5. held["fm"] = <<>> /\ held["mfm"] = <<>>
    BY <1>1, <1>6 DEF NothingHeld
  <2>6. CASE sc = None
    <3>1. Whole(q, ts, "fm") /\ q \in Seq(Here(ts, "fm")) /\ Len(q) \in Nat
      BY <1>4, <2>1, <2>2, <2>3, <2>6
    <3>2. todo' = rest /\ pc' = AfterPass(rest) /\ UNCHANGED <<tally, held>>
      BY <1>4, <2>2, <2>3, <2>6
    <3>3. AfterPass(rest) = IF tally = 0 THEN "merge" ELSE "rewind"
      BY DEF AfterPass, Take
    <3>4. CASE tally = 0
      <4>1. Len(q) = 0 /\ Len(p) = 0
        BY <2>1, <2>4, <3>1, <3>4
      <4>2. q = <<>> /\ p = <<>>
        BY <2>4, <3>1, <4>1, EmptyRun
      <4>3. Whole(held["fm"], ts, "fm")' /\ Whole(held["mfm"], ts, "mfm")'
        BY <1>3, <2>4, <2>5, <3>1, <3>2, <4>2
      <4>4. \A e \in Sources' : Whole(held[e], call.ts, e)'
        BY <1>2, <4>3 DEF Sources
      <4>5. Left' = 0 /\ tally' = 0
        <5>1. Len(held'["fm"]) = 0 /\ Len(held'["mfm"]) = 0
          BY <2>5, <3>2, EmptyCache
        <5> QED  BY <1>2, <3>2, <3>4, <5>1 DEF Left
      <4> QED  BY <1>1, <1>2, <3>2, <3>3, <3>4, <4>4, <4>5 DEF Collected
    <3>5. CASE tally # 0
      <4>1. Size(ts, "fm", Len(q))' /\ Size(ts, "mfm", n)'
        BY <1>3, <2>1, <3>1 DEF Size
      <4>2. pc' = "rewind" /\ Begun(held["fm"], "fm")'
        BY <2>5, <3>2, <3>3, <3>5 DEF Begun
      <4>3. IsoPasses'
        BY <1>3, <2>1, <2>5, <3>2, <3>5, <4>1, <4>2 DEF IsoPasses
      <4> QED  BY <1>1, <3>2, <4>2, <4>3
    <3> QED  BY <3>4, <3>5
  <2>7. CASE sc # None
    <3>1. tally' = tally + 1 /\ UNCHANGED <<todo, pc, held>>
      BY <1>4, <2>2, <2>3, <2>7
    <3>2. Begun(Append(q, sc), "fm")' /\ Len(Append(q, sc)) = Len(q) + 1 /\ Len(q) \in Nat
      BY <1>1, <1>4, <2>1, <2>2, <2>3, <2>7, <3>1
    <3>3. tally' = n + Len(Append(q, sc))
      BY <2>1, <2>4, <3>1, <3>2
    <3>4. Size(ts, "mfm", n)'
      BY <1>3, <2>1
    <3>5. IsoPasses'
      BY <1>3, <1>6, <3>1, <3>2, <3>3, <3>4 DEF IsoPasses, NothingHeld
    <3> QED  BY <1>1, <3>1, <3>5
  <2> QED  BY <2>6, <2>7
<1>7. CASE /\ todo = <<Take("fm"), Take("mfm")>> /\ held["mfm"] = <<>> /\ tally # 0
           /\ \E m, n : Size(ts, "fm", m) /\ Size(ts, "mfm", n) /\ tally = n + m
           /\ Begun(held["fm"], "fm")
  <2> DEFINE rest == <<Take("mfm")>>
  <2>1. PICK m, n : Size(ts, "fm", m) /\ Size(ts, "mfm", n) /\ tally = n + m
    BY <1>7
  <2>2. Tail(todo) = rest /\ Head(todo).enc = "fm" /\ Head(todo).do = "take"
    BY <1>7 DEF Take
  <2>3. PICK sc : sc = NextSector(ss, ts, "fm").sc
    OBVIOUS
  <2>4. PICK h : h = held["fm"]
    OBVIOUS
  <2>5. Begun(h, "fm")
    BY <1>7, <2>4
  <2>6. CASE sc = None
    <3>1. Whole(h, ts, "fm")
      BY <1>4, <2>2, <2>3, <2>6, <2>5
    <3>2. todo' = rest /\ pc' = AfterPass(rest) /\ UNCHANGED <<tally, held>>
      BY <1>4, <2>2, <2>3, <2>6
    <3>3. pc' = "rewind"
      BY <1>7, <3>2 DEF AfterPass, Take
    <3>4. Len(h) = m
      BY <2>1, <3>1, WholesAgree DEF Size
    <3>5. Whole(held["fm"], ts, "fm")' /\ Size(ts, "mfm", n)' /\ tally' = n + Len(held["fm"])'
      BY <1>3, <2>1, <2>4, <3>1, <3>2, <3>4
    <3>6. Begun(held["mfm"], "mfm")'
      BY <1>7, <3>2, <3>3 DEF Begun
    <3>7. IsoPasses'
      BY <1>3, <3>2, <3>5, <3>6 DEF IsoPasses
    <3> QED  BY <1>1, <3>2, <3>3, <3>7
  <2>7. CASE sc # None
    <3>1. held' = [held EXCEPT !["fm"] = Append(@, sc)] /\ UNCHANGED <<todo, pc, tally>>
      BY <1>4, <2>2, <2>3, <2>7
    <3>2. held'["fm"] = Append(h, sc) /\ held'["mfm"] = <<>> /\ DOMAIN held' = Encodings
      BY <1>1, <1>7, <2>4, <3>1
    <3>3. Begun(Append(h, sc), "fm")'
      BY <1>1, <1>4, <2>2, <2>3, <2>7, <2>5, <3>1
    <3>4. Begun(held["fm"], "fm")'
      BY <3>2, <3>3
    <3>5. Size(ts, "fm", m)' /\ Size(ts, "mfm", n)' /\ tally' = n + m
      BY <1>3, <2>1, <3>1
    <3>6. IsoPasses'
      BY <1>3, <1>7, <3>1, <3>2, <3>4, <3>5 DEF IsoPasses
    <3> QED  BY <1>1, <3>1, <3>2, <3>6
  <2> QED  BY <2>6, <2>7
<1>8. CASE /\ todo = <<Take("mfm")>> /\ Whole(held["fm"], ts, "fm")
           /\ \E n : Size(ts, "mfm", n) /\ tally = n + Len(held["fm"])
           /\ Begun(held["mfm"], "mfm")
  <2>1. PICK n : Size(ts, "mfm", n) /\ tally = n + Len(held["fm"])
    BY <1>8
  <2>2. Tail(todo) = <<>> /\ Head(todo).enc = "mfm" /\ Head(todo).do = "take"
    BY <1>8 DEF Take
  <2>3. PICK sc : sc = NextSector(ss, ts, "mfm").sc
    OBVIOUS
  <2>4. PICK h : h = held["mfm"]
    OBVIOUS
  <2>5. Begun(h, "mfm")
    BY <1>8, <2>4
  <2>6. CASE sc = None
    <3>1. Whole(h, ts, "mfm")
      BY <1>4, <2>2, <2>3, <2>6, <2>5
    <3>2. todo' = <<>> /\ pc' = "merge" /\ UNCHANGED <<tally, held>>
      BY <1>4, <2>2, <2>3, <2>6 DEF AfterPass
    <3>3. Len(h) = n /\ n \in Nat
      BY <2>1, <3>1, WholesAgree DEF Size
    <3>4. Whole(held["fm"], ts, "fm")' /\ Whole(held["mfm"], ts, "mfm")'
      BY <1>3, <1>8, <2>4, <3>1, <3>2
    <3>5. \A e \in Sources' : Whole(held[e], call.ts, e)'
      BY <1>2, <3>4 DEF Sources
    <3>6. tally' = Left'
      <4> DEFINE k == Len(held["fm"])
      <4>1. k \in Nat
        BY <1>8 DEF Whole, Run
      <4>2. Left' = k + n
        BY <1>2, <2>4, <3>2, <3>3 DEF Left
      <4>3. tally' = n + k
        BY <2>1, <3>2
      <4> HIDE DEF k
      <4> QED  BY <3>3, <4>1, <4>2, <4>3
    <3> QED  BY <1>1, <1>2, <3>2, <3>5, <3>6 DEF Collected
  <2>7. CASE sc # None
    <3>1. held' = [held EXCEPT !["mfm"] = Append(@, sc)] /\ UNCHANGED <<todo, pc, tally>>
      BY <1>4, <2>2, <2>3, <2>7
    <3>2. held'["mfm"] = Append(h, sc) /\ held'["fm"] = held["fm"] /\ DOMAIN held' = Encodings
      BY <1>1, <2>4, <3>1
    <3>3. Begun(Append(h, sc), "mfm")'
      BY <1>1, <1>4, <2>2, <2>3, <2>7, <2>5, <3>1
    <3>4. Begun(held["mfm"], "mfm")'
      BY <3>2, <3>3
    <3>5. Size(ts, "mfm", n)' /\ tally' = n + Len(held["fm"])' /\ Whole(held["fm"], ts, "fm")'
      BY <1>3, <1>8, <2>1, <3>1, <3>2
    <3>6. IsoPasses'
      BY <1>3, <1>8, <3>1, <3>4, <3>5 DEF IsoPasses
    <3> QED  BY <1>1, <3>1, <3>2, <3>6
  <2> QED  BY <2>6, <2>7
<1> QED
  BY <1>1, <1>5, <1>6, <1>7, <1>8 DEF IsoPasses

-----------------------------------------------------------------------------
(***************************************************************************)
(* The steps of a listing other than its passes.                           *)
(***************************************************************************)
LEMMA StartLister ==
  ASSUME Start
  PROVE  Lister'
<1>1. /\ pc' = Enter(call') /\ got' = <<>> /\ todo' = Passes(call') /\ tally' = 0
      /\ held' = NothingHeld
  BY DEF Start
<1>2. DOMAIN held' = Encodings
  BY <1>1 DEF NothingHeld
<1>3. (pc' = "rewind") => Listing'
  BY <1>1 DEF Enter, Listing
<1>4. CASE pc' = "rewind"
  <2>1. \A e : Begun(<<>>, e)' /\ tally' = Len(<<>>)
    BY <1>1, <1>4 DEF Begun
  <2>2. CASE call'.fn = "list"
    <3>1. todo' = <<Count(call'.enc), Take(call'.enc)>>
      BY <1>1, <2>2 DEF Passes, Count, Take
    <3>2. ListPasses'
      BY <1>1, <2>1, <3>1 DEF ListPasses, NothingHeld
    <3> QED  BY <1>1, <1>2, <1>3, <1>4, <2>2, <3>2 DEF Lister, Listing
  <2>3. CASE call'.fn = "listiso"
    <3>1. todo' = <<Count("mfm"), Count("fm"), Take("fm"), Take("mfm")>>
      BY <1>1, <2>3 DEF Passes, Count, Take
    <3>2. IsoPasses'
      BY <1>1, <2>1, <3>1 DEF IsoPasses, NothingHeld
    <3> QED  BY <1>1, <1>2, <1>3, <1>4, <2>3, <3>2 DEF Lister, Listing
  <2> QED  BY <1>1, <1>4, <2>2, <2>3 DEF Enter
<1>5. CASE pc' # "rewind"
  <2>1. pc' = "look" /\ ~Listing'
    BY <1>1, <1>5 DEF Enter, Listing
  <2> QED  BY <1>2, <2>1 DEF Lister
<1> QED
  BY <1>4, <1>5

LEMMA RewindLister ==
  ASSUME Types, Lister, Rewind
  PROVE  Lister'
<1>1. /\ pc = "rewind" /\ pc' = "pass" /\ ss' = Rewound(ss) /\ ss \in Access
      /\ UNCHANGED <<image, call, got, todo, tally, held>>
  BY DEF Rewind, Types
<1>2. /\ \A q, e : Run(q, call.ts, e)' = Run(q, call.ts, e)
      /\ \A q, e : Whole(q, call.ts, e)' = Whole(q, call.ts, e)
      /\ \A e, n : Size(call.ts, e, n)' = Size(call.ts, e, n)
  BY <1>1, Kept
<1>3. \A q, e : Begun(q, e) => Begun(q, e)'
  <2>1. SUFFICES ASSUME NEW q, NEW e, Begun(q, e) PROVE Begun(q, e)'
    OBVIOUS
  <2>2. q = <<>>
    BY <1>1, <2>1 DEF Begun
  <2>3. Run(q, call.ts, e) /\ After(Rewound(ss), q, call.ts)
    BY <1>1, <2>2, RunBegins
  <2> QED  BY <1>1, <1>2, <2>3 DEF Begun
<1>4. ListPasses => ListPasses'
  BY <1>1, <1>2, <1>3 DEF ListPasses, NothingHeld
<1>5. IsoPasses => IsoPasses'
  BY <1>1, <1>2, <1>3 DEF IsoPasses, NothingHeld
<1> QED
  BY <1>1, <1>4, <1>5 DEF Lister, Listing

LEMMA PassLister ==
  ASSUME Types, Types', Lister, Pass
  PROVE  Lister'
<1>1. pc = "pass" /\ Listing /\ got = <<>> /\ call' = call /\ got' = got
  BY DEF Pass, Lister
<1>2. CASE pc' \in {"pass", "rewind"}
  <2>1. /\ DOMAIN held' = Encodings
        /\ call.fn = "list" => ListPasses'
        /\ call.fn # "list" => IsoPasses'
    BY <1>2, ListPass, IsoPass
  <2> QED  BY <1>1, <1>2, <2>1 DEF Lister, Listing
<1>3. CASE pc' \notin {"pass", "rewind"}
  <2>1. pc' = "merge" /\ Collected' /\ DOMAIN held' = Encodings
    BY <1>3, ListPass, IsoPass
  <2>2. Merging'
    BY <2>1, CollectedMerges, PTL
  <2> QED  BY <1>1, <2>1, <2>2 DEF Lister, Listing
<1> QED
  BY <1>2, <1>3

\* The first of a sequence, and the others.
LEMMA HeadAndTail ==
  ASSUME NEW S, NEW a \in Seq(S), a # <<>>
  PROVE  /\ Len(a) \in Nat /\ 1 \in 1 .. Len(a) /\ Head(a) = a[1] /\ Head(a) \in S
         /\ Tail(a) \in Seq(S) /\ Len(Tail(a)) = Len(a) - 1
         /\ \A i \in 1 .. Len(Tail(a)) : i + 1 \in 1 .. Len(a) /\ Tail(a)[i] = a[i + 1]
  OBVIOUS

\* The merge takes the sector nearest to the start of the track, if any is left.
LEMMA Sourced ==
  ASSUME Types, Merging, call \in Calls, Listing
  PROVE  /\ Source \in Sources /\ Sources \subseteq Encodings
         /\ held[Source] = <<>> => \A e \in Sources : held[e] = <<>>
         /\ Orderly /\ held[Source] # <<>> =>
              \A e \in Sources : e # Source =>
                \A j \in 1 .. Len(held[e]) : Head(held[Source]).start < held[e][j].start
<1>1. CASE call.fn = "list"
  BY <1>1, CallAssumption DEF Source, Sources
<1>2. CASE call.fn # "list"
  <2> DEFINE fm == held["fm"]
             mfm == held["mfm"]
             ts == call.ts
  <2>1. Sources = {"mfm", "fm"} /\ Source = Nearest(fm, mfm) /\ Sources \subseteq Encodings
    BY <1>2, AccessAssumption DEF Sources, Source
  <2>2. fm \in Seq(Here(ts, "fm")) /\ mfm \in Seq(Here(ts, "mfm"))
    BY <2>1 DEF Merging
  <2>3. Source \in Sources /\ (held[Source] = <<>> => \A e \in Sources : held[e] = <<>>)
    BY <2>1 DEF Nearest
  <2>4. ASSUME Orderly, NEW e \in Sources, NEW f \in Sources, e # f, held[f] # <<>>,
               NEW j \in 1 .. Len(held[e]),
               Head(held[f]).start < Head(held[e]).start \/ ~(Head(held[e]).start < Head(held[f]).start)
        PROVE  Head(held[f]).start < held[e][j].start
    <3>1. held[e] \in Seq(Here(ts, e)) /\ held[f] \in Seq(Here(ts, f))
      BY DEF Merging
    <3>2. /\ Len(held[e]) \in Nat /\ 1 \in 1 .. Len(held[e]) /\ held[e] # <<>>
          /\ Head(held[e]) = held[e][1] /\ Head(held[e]) \in Here(ts, e)
          /\ Head(held[f]) \in Here(ts, f) /\ held[e][j] \in Here(ts, e)
      BY <2>4, <3>1, HeadAndTail
    <3>3. /\ Head(held[e]).start \in Nat /\ Head(held[f]).start \in Nat /\ held[e][j].start \in Nat
          /\ Head(held[e]).enc = e /\ Head(held[f]).enc = f
          /\ Head(held[e]) \in Live(ts) /\ Head(held[f]) \in Live(ts)
      BY <3>2, HereHeaders
    <3>4. Apart(Live(ts)) /\ Rising(held[e])
      BY <2>4 DEF Orderly, Merging, Merged
    <3>5. Head(held[e]).start # Head(held[f]).start
      BY <2>4, <3>3, <3>4 DEF Apart
    <3>6. j = 1 \/ held[e][1].start < held[e][j].start
      BY <3>2, <3>4 DEF Rising
    <3> QED  BY <2>4, <3>2, <3>3, <3>5, <3>6
  <2>5. ASSUME Orderly, held[Source] # <<>>, NEW e \in Sources, e # Source,
               NEW j \in 1 .. Len(held[e])
        PROVE  Head(held[Source]).start < held[e][j].start
    <3>1. held[e] # <<>>
      BY <2>1, <2>2
    <3>2. \/ Head(held[Source]).start < Head(held[e]).start
          \/ ~(Head(held[e]).start < Head(held[Source]).start)
      BY <2>1, <2>5, <3>1 DEF Nearest
    <3> QED  BY <2>3, <2>4, <2>5, <3>2
  <2> QED  BY <2>1, <2>3, <2>5
<1> QED
  BY <1>1, <1>2

LEMMA MergeLister ==
  ASSUME Types, Lister, Merge
  PROVE  Lister'
<1> DEFINE ts == call.ts
<1>1. PICK src, a : src = Source /\ a = held[src]
  OBVIOUS
<1>2. /\ pc = "merge" /\ pc' = "merge" /\ a # <<>> /\ got' = Append(got, Head(a))
      /\ held' = [held EXCEPT ![src] = Tail(a)] /\ UNCHANGED <<image, call, tally>>
  BY <1>1 DEF Merge
<1>3. Merging /\ Listing /\ DOMAIN held = Encodings /\ call \in Calls
  BY <1>2 DEF Lister, Types, TypeOK
<1>4. /\ src \in Sources /\ Sources \subseteq Encodings
      /\ Orderly => \A e \in Sources : e # src =>
           \A j \in 1 .. Len(held[e]) : Head(a).start < held[e][j].start
  BY <1>1, <1>2, <1>3, Sourced
<1>5. /\ held'[src] = Tail(a) /\ DOMAIN held' = Encodings
      /\ \A e \in Sources : e # src => held'[e] = held[e]
  BY <1>2, <1>3, <1>4
<1>6. \A e \in Sources : held[e] \in Seq(Here(ts, e)) /\ Len(held[e]) \in Nat
  BY <1>3 DEF Merging
<1>7. /\ Len(a) \in Nat /\ 1 \in 1 .. Len(a) /\ Head(a) = a[1] /\ Head(a) \in Here(ts, src)
      /\ Tail(a) \in Seq(Here(ts, src)) /\ Len(Tail(a)) = Len(a) - 1
      /\ \A i \in 1 .. Len(Tail(a)) : i + 1 \in 1 .. Len(a) /\ Tail(a)[i] = a[i + 1]
  BY <1>1, <1>2, <1>4, <1>6, HeadAndTail
<1>8. PICK h : h = Head(a)
  OBVIOUS
<1>9. PICK b : b = Tail(a)
  OBVIOUS
<1>10. h \in Listable
  BY <1>4, <1>7, <1>8 DEF Listable
<1>11. /\ got \in Seq(Listable) /\ Len(got) \in Nat /\ got' \in Seq(Listable)
       /\ Len(got') = Len(got) + 1 /\ got'[Len(got) + 1] = h
       /\ \A i \in 1 .. Len(got) : got'[i] = got[i]
  <2>1. got \in Seq(Listable) /\ got' = Append(got, h)
    BY <1>2, <1>3, <1>8 DEF Merging
  <2> QED  BY <1>10, <2>1
<1>12. \A t, e : Here(t, e)' = Here(t, e)
  BY <1>2, Kept
<1>13. Listable' = Listable /\ Sources' = Sources
  BY <1>2, <1>12 DEF Listable, Sources
<1>14. \A e \in Sources : held'[e] \in Seq(Here(ts, e))
  BY <1>5, <1>6, <1>7
<1>15. Left \in Nat /\ Left' \in Nat /\ Left' + 1 = Left
  <2>1. CASE call.fn = "list"
    <3>1. src = call.enc
      BY <1>1, <2>1 DEF Source
    <3>2. Left = Len(a) /\ Left' = Len(b)
      BY <1>1, <1>2, <1>5, <1>9, <2>1, <3>1 DEF Left
    <3> QED  BY <1>7, <1>9, <3>2
  <2>2. CASE call.fn # "list"
    <3>1. PICK m, n : m = Len(held["fm"]) /\ n = Len(held["mfm"])
      OBVIOUS
    <3>2. Left = m + n /\ m \in Nat /\ n \in Nat
      BY <1>6, <2>2, <3>1 DEF Left, Sources
    <3>3. PICK k, l : k = Len(held'["fm"]) /\ l = Len(held'["mfm"])
      OBVIOUS
    <3>4. Left' = k + l
      BY <1>2, <2>2, <3>3 DEF Left
    <3>5. PICK u : u = Len(a) /\ u \in Nat /\ u >= 1 /\ Len(b) = u - 1
      BY <1>7, <1>9
    <3>6. CASE src = "fm"
      <4>1. k = u - 1 /\ m = u /\ l = n
        BY <1>1, <1>5, <1>9, <2>2, <3>1, <3>3, <3>5, <3>6 DEF Sources
      <4> QED  BY <3>2, <3>4, <3>5, <4>1
    <3>7. CASE src = "mfm"
      <4>1. l = u - 1 /\ n = u /\ k = m
        BY <1>1, <1>5, <1>9, <2>2, <3>1, <3>3, <3>5, <3>7 DEF Sources
      <4> QED  BY <3>2, <3>4, <3>5, <4>1
    <3> QED  BY <1>4, <2>2, <3>6, <3>7 DEF Sources
  <2> QED  BY <2>1, <2>2
<1>16. tally' = Len(got') + Left'
  <2>1. tally' = Len(got) + Left
    BY <1>2, <1>3 DEF Merging
  <2>2. PICK k, l, m : k = Len(got) /\ l = Left /\ m = Left' /\ tally' = k + l
                       /\ Len(got') = k + 1
    BY <1>11, <2>1
  <2>3. k \in Nat /\ l \in Nat /\ m \in Nat /\ m + 1 = l
    BY <1>11, <1>15, <2>2
  <2>4. ASSUME NEW x \in Int, NEW y \in Int, NEW z \in Int, z + 1 = y
        PROVE  x + y = (x + 1) + z
    BY <2>4
  <2>5. k + l = (k + 1) + m
    BY <2>3, <2>4
  <2> QED  BY <2>2, <2>5, Zenon
<1>17. ASSUME Orderly
       PROVE  Merged'
  <2>1. Merged
    BY <1>3, <1>17 DEF Merging
  <2>2. \A e \in Sources : e # src => \A j \in 1 .. Len(held[e]) : h.start < held[e][j].start
    BY <1>4, <1>8, <1>17
  <2>3. \A j \in 1 .. Len(b) : h.start < b[j].start
    <3>1. Rising(a)
      BY <1>1, <1>4, <2>1 DEF Merged
    <3> QED  BY <1>7, <1>8, <1>9, <3>1 DEF Rising
  <2>4. Rising(got')
    <3>1. \A i \in 1 .. Len(got) : got[i].start < h.start
      <4>1. \A i \in 1 .. Len(got), j \in 1 .. Len(a) : got[i].start < a[j].start
        BY <1>1, <1>4, <2>1 DEF Merged
      <4> QED  BY <1>7, <1>8, <4>1
    <3>2. Rising(got)
      BY <2>1 DEF Merged
    <3>3. SUFFICES ASSUME NEW i \in 1 .. Len(got'), NEW j \in 1 .. Len(got'), i < j
                   PROVE  got'[i].start < got'[j].start
      BY DEF Rising
    <3>4. i \in 1 .. Len(got) /\ got'[i] = got[i]
      BY <1>11, <3>3
    <3>5. CASE j = Len(got) + 1
      BY <1>11, <3>1, <3>4, <3>5
    <3>6. CASE j # Len(got) + 1
      <4>1. j \in 1 .. Len(got) /\ got'[j] = got[j]
        BY <1>11, <3>6
      <4> QED  BY <3>2, <3>3, <3>4, <4>1 DEF Rising
    <3> QED  BY <3>5, <3>6
  <2>5. \A e \in Sources : Rising(held'[e])
    <3>1. Rising(a) /\ \A e \in Sources : Rising(held[e])
      BY <1>1, <1>4, <2>1 DEF Merged
    <3>2. Rising(b)
      BY <1>7, <1>9, <3>1 DEF Rising
    <3> QED  BY <1>5, <1>9, <3>1, <3>2
  <2>6. \A e \in Sources : \A i \in 1 .. Len(got'), j \in 1 .. Len(held'[e]) :
          got'[i].start < held'[e][j].start
    <3> SUFFICES ASSUME NEW e \in Sources, NEW i \in 1 .. Len(got'), NEW j \in 1 .. Len(held'[e])
                 PROVE  got'[i].start < held'[e][j].start
      OBVIOUS
    <3>1. \A k \in 1 .. Len(got), l \in 1 .. Len(held[e]) : got[k].start < held[e][l].start
      BY <2>1 DEF Merged
    <3>2. CASE i = Len(got) + 1
      BY <1>5, <1>9, <1>11, <2>2, <2>3, <3>2
    <3>3. CASE i # Len(got) + 1
      <4>1. i \in 1 .. Len(got) /\ got'[i] = got[i]
        BY <1>11, <3>3
      <4>2. \E l \in 1 .. Len(held[e]) : held'[e][j] = held[e][l]
        <5>1. CASE e # src
          BY <1>5, <5>1
        <5>2. CASE e = src
          <6>1. j + 1 \in 1 .. Len(a) /\ held'[e][j] = a[j + 1]
            BY <1>5, <1>7, <5>2
          <6> QED  BY <1>1, <5>2, <6>1
        <5> QED  BY <5>1, <5>2
      <4> QED  BY <3>1, <4>1, <4>2
    <3> QED  BY <3>2, <3>3
  <2>7. \A e \in Sources : \A s \in Here(ts, e) :
          \/ \E i \in 1 .. Len(got') : got'[i] = s
          \/ \E i \in 1 .. Len(held'[e]) : held'[e][i] = s
    <3> SUFFICES ASSUME NEW e \in Sources, NEW s \in Here(ts, e)
                 PROVE  \/ \E i \in 1 .. Len(got') : got'[i] = s
                        \/ \E i \in 1 .. Len(held'[e]) : held'[e][i] = s
      OBVIOUS
    <3>1. \/ \E i \in 1 .. Len(got) : got[i] = s
          \/ \E i \in 1 .. Len(held[e]) : held[e][i] = s
      BY <2>1 DEF Merged
    <3>2. CASE \E i \in 1 .. Len(got) : got[i] = s
      <4>1. PICK i \in 1 .. Len(got) : got[i] = s
        BY <3>2
      <4>2. i \in 1 .. Len(got') /\ got'[i] = s
        BY <1>11, <4>1
      <4> QED  BY <4>2
    <3>3. CASE e # src /\ \E i \in 1 .. Len(held[e]) : held[e][i] = s
      BY <1>5, <3>3
    <3>4. CASE e = src /\ \E i \in 1 .. Len(held[e]) : held[e][i] = s
      <4>1. PICK i \in 1 .. Len(a) : a[i] = s
        BY <1>1, <3>4
      <4>2. CASE i = 1
        <5>1. s = h /\ Len(got) + 1 \in 1 .. Len(got')
          BY <1>7, <1>8, <1>11, <4>1, <4>2
        <5> QED  BY <1>11, <5>1
      <4>3. CASE i # 1
        <5>1. i - 1 \in 1 .. Len(b) /\ (i - 1) + 1 = i
          BY <1>7, <1>9, <4>3
        <5>2. b[i - 1] = s
          BY <1>7, <1>9, <4>1, <5>1
        <5> QED  BY <1>5, <1>9, <3>4, <5>1, <5>2
      <4> QED  BY <4>2, <4>3
    <3> QED  BY <3>1, <3>2, <3>3, <3>4
  <2> QED  BY <1>2, <1>12, <1>13, <2>4, <2>5, <2>6, <2>7 DEF Merged, Rising
<1>18. Orderly' = Orderly
  BY <1>2, Kept DEF Orderly, Apart
<1>19. Merging'
  BY <1>2, <1>11, <1>12, <1>13, <1>14, <1>16, <1>17, <1>18 DEF Merging
<1> QED
  BY <1>2, <1>3, <1>5, <1>19 DEF Lister, Listing

LEMMA ListedLister ==
  ASSUME Types, Lister, Listed
  PROVE  Lister'
<1>1. /\ pc = "merge" /\ pc' = "return" /\ held[Source] = <<>>
      /\ UNCHANGED <<image, call, got, tally, held>>
  BY DEF Listed
<1>2. Merging /\ Listing /\ DOMAIN held = Encodings /\ call \in Calls
  BY <1>1 DEF Lister, Types, TypeOK
<1>3. \A e \in Sources : held[e] = <<>> /\ Len(held[e]) = 0
  <2>1. \A e \in Sources : held[e] = <<>>
    BY <1>1, <1>2, Sourced
  <2> QED  BY <2>1, EmptyCache, Zenon
<1>4. Left = 0
  <2>1. CASE call.fn = "list"
    BY <1>3, <2>1 DEF Left, Sources
  <2>2. CASE call.fn # "list"
    <3>1. Len(held["fm"]) = 0 /\ Len(held["mfm"]) = 0
      BY <1>3, <2>2 DEF Sources
    <3> QED  BY <2>2, <3>1 DEF Left
  <2> QED  BY <2>1, <2>2
<1>5. got \in Seq(Listable) /\ Len(got) \in Nat /\ Len(got) = tally
  <2>1. got \in Seq(Listable) /\ tally = Len(got) + 0
    BY <1>2, <1>4 DEF Merging
  <2>2. Len(got) \in Nat
    BY <2>1
  <2> QED  BY <2>1, <2>2
<1>6. ASSUME Orderly PROVE Lists(got, Listable)
  <2>1. Merged
    BY <1>2, <1>6 DEF Merging
  <2>2. \A s \in Listable : \E i \in 1 .. Len(got) : got[i] = s
    <3> SUFFICES ASSUME NEW e \in Sources, NEW s \in Here(call.ts, e)
                 PROVE  \E i \in 1 .. Len(got) : got[i] = s
      BY DEF Listable
    <3>1. ~ \E i \in 1 .. Len(held[e]) : held[e][i] = s
      BY <1>3
    <3> QED  BY <2>1, <3>1 DEF Merged
  <2>3. \A i \in 1 .. Len(got) : got[i] \in Listable
    BY <1>5
  <2>4. Rising(got)
    BY <2>1 DEF Merged
  <2> QED  BY <2>2, <2>3, <2>4 DEF Lists, Rising
<1>7. /\ \A t, e : Here(t, e)' = Here(t, e)
      /\ Orderly' = Orderly
  BY <1>1, Kept DEF Orderly, Apart
<1>8. Listable' = Listable
  BY <1>1, <1>7 DEF Listable, Sources
<1>9. Done'
  BY <1>1, <1>5, <1>6, <1>7, <1>8 DEF Done, Lists
<1> QED
  BY <1>1, <1>2, <1>9 DEF Lister, Listing

\* The steps outside a listing.
LEMMA ElsewhereLister ==
  ASSUME Lister,
         \/ GetNextSector \/ ResetSearchTrackPosition \/ ClearTrackCache \/ SetSectorAccessFlags
         \/ Denied \/ OutOfRange \/ CacheHit \/ CacheMiss \/ Scan \/ Missing \/ SearchFound
         \/ ReadFound \/ ReadOtherSize \/ WriteFound \/ WriteOtherSector \/ Return
  PROVE  Lister'
<1>1. CASE \/ GetNextSector \/ ResetSearchTrackPosition \/ ClearTrackCache
           \/ SetSectorAccessFlags \/ Return
  <2>1. pc' = "idle" /\ DOMAIN held' = Encodings
    BY <1>1 DEF GetNextSector, ResetSearchTrackPosition, ClearTrackCache, SetSectorAccessFlags,
                Return, work, Lister, NothingHeld
  <2> QED  BY <2>1 DEF Lister
<1>2. CASE \/ Denied \/ OutOfRange \/ CacheHit \/ CacheMiss \/ Scan \/ Missing \/ SearchFound
           \/ ReadFound \/ ReadOtherSize \/ WriteFound \/ WriteOtherSector
  <2>1. /\ pc \in {"look", "scan", "found", "missing"} /\ call' = call /\ held' = held
        /\ pc' \in {"look", "scan", "found", "missing", "return", "return0"}
    BY <1>2 DEF Denied, OutOfRange, CacheHit, CacheMiss, Scan, Missing, SearchFound, ReadFound,
                NextOrReturn, ReadOtherSize, WriteFound, WriteOtherSector
  <2>2. ~Listing /\ ~Listing' /\ DOMAIN held' = Encodings
    BY <2>1 DEF Lister, Listing
  <2> QED  BY <2>1, <2>2 DEF Lister
<1> QED
  BY <1>1, <1>2

LEMMA ListerStep ==
  ASSUME Types, Types', Lister, [Next]_vars
  PROVE  Lister'
<1>1. CASE UNCHANGED vars
  <2>1. UNCHANGED <<image, call, ss, pc, got, todo, tally, held>>
    BY <1>1 DEF vars, work
  <2>2. /\ \A ts, e : Here(ts, e)' = Here(ts, e)
        /\ \A q, ts, e : Run(q, ts, e)' = Run(q, ts, e)
        /\ \A q, ts, e : Whole(q, ts, e)' = Whole(q, ts, e)
        /\ \A ts, e, n : Size(ts, e, n)' = Size(ts, e, n)
        /\ \A ts : Live(ts)' = Live(ts)
    BY <2>1, Kept
  <2>3. \A q, e : Begun(q, e)' = Begun(q, e)
    BY <2>1, <2>2 DEF Begun
  <2>4. ListPasses' = ListPasses /\ IsoPasses' = IsoPasses
    BY <2>1, <2>2, <2>3 DEF ListPasses, IsoPasses, NothingHeld
  <2>5. Listable' = Listable /\ Sources' = Sources /\ Left' = Left /\ Orderly' = Orderly
    BY <2>1, <2>2 DEF Listable, Sources, Left, Orderly, Apart
  <2>6. Merging' = Merging /\ Done' = Done
    BY <2>1, <2>2, <2>5 DEF Merging, Merged, Done, Lists, Rising
  <2> QED  BY <2>1, <2>4, <2>6 DEF Lister, Listing
<1> QED
  BY <1>1, StartLister, RewindLister, PassLister, MergeLister, ListedLister, ElsewhereLister
     DEF Next, Step

LEMMA InitLister == Init => Lister
  BY DEF Init, Lister, NothingHeld

\* A listing that ends has counted the sectors it hands over.
LEMMA DoneCounted == Lister => CountMatches
  BY DEF Lister, Listing, Done, CountMatches

\* What a listing of both encodings must list.
LEMMA DoneListed ==
  ASSUME Lister
  PROVE  ListInOrder
<1>1. SUFFICES ASSUME pc = "return", call.fn = "listiso", call.ts \in Present, Apart(Live(call.ts))
               PROVE  Lists(got, {s \in Live(call.ts) : s.enc \in {"mfm", "fm"}})
  BY DEF ListInOrder
<1>2. Lists(got, Listable)
  BY <1>1 DEF Lister, Listing, Done, Orderly
<1>3. Listable = {s \in Live(call.ts) : s.enc \in {"mfm", "fm"}}
  BY <1>1 DEF Listable, Sources, Here, Coded
<1> QED
  BY <1>2, <1>3

\* A listing counts the sectors it hands over (315 and 333), whatever track it
\* is of: the pass that collects meets what the pass that counts has met.
THEOREM CountsMatch == Spec => []CountMatches
<1>1. Types /\ Lister /\ [Next]_vars => (Types /\ Lister)'
  BY TypesStep, ListerStep
<1> QED
  BY InitTypes, InitLister, <1>1, DoneCounted, PTL DEF Spec

\* On a track whose headers lie apart the merged listing (423) holds each
\* sector of both encodings once, in the order of the track.
THEOREM ListsInOrder == Spec => []ListInOrder
<1>1. Types /\ Lister /\ [Next]_vars => (Types /\ Lister)'
  BY TypesStep, ListerStep
<1>2. Lister => ListInOrder
  BY DoneListed
<1> QED
  BY InitTypes, InitLister, <1>1, <1>2, PTL DEF Spec

=============================================================================

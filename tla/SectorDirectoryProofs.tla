------------------------ MODULE SectorDirectoryProofs ------------------------
(***************************************************************************)
(* Proofs about the searches, the reads and the writes of SectorAccess     *)
(* (hxcfe_searchSector, hxcfe_readSectorData, hxcfe_writeSectorData), and  *)
(* that the sector access implements SectorDirectory.                      *)
(***************************************************************************)
EXTENDS SectorListProofs

\* The track is plain, if the image holds it.
Clean == call.ts \in Present => Plain(call.ts)

\* The program has not torn a cache.
Untorn == cleared # "torn"

Simple == Untorn /\ Clean

\* The sector asked for now, and the one asked for as the i-th.
Target   == Found(call.ts, call.enc, Wanted)
Asked(i) == Found(call.ts, call.enc, call.id + i - 1)

\* The sectors handed over so far.
Handed ==
  /\ got \in Seq(tracks[call.ts])
  /\ Simple /\ call.fn \in {"read", "write"} =>
       \A i \in 1 .. Len(got) : got[i] # None /\ got[i] = Asked(i)
  /\ call.fn = "read" /\ status = "FDC_NOERROR" =>
       \A i \in 1 .. Len(got) : got[i].has /\ got[i].start \notin badcrc[call.ts]

\* The call waits for a sector.
Waiting ==
  /\ call.fn = "search" => got = <<>>
  /\ call.fn \in {"read", "write"} => Len(got) < call.n

\* The sectors the search has gone past are not the one asked for.
Scanned ==
  Untorn /\ call.ts \in Present /\ Plain(call.ts) =>
    /\ ss.bitoffset \in Nat /\ ss.old_bitoffset <= ss.bitoffset
    /\ ss.cur = call.ts \/ ss.bitoffset = 0
    /\ \A t \in tracks[call.ts] : t.start < ss.bitoffset => t.id # Wanted

\* The call is over.
Replied ==
  /\ Simple => Directory!Answers(call, got)
  /\ pc = "return" /\ call.fn = "read" /\ status = "FDC_NOERROR" => Len(got) = call.n

Searcher ==
  /\ pc \in {"look", "scan", "found", "missing"} => Handed /\ Waiting
  /\ pc = "scan" => Scanned
  /\ pc = "found" => sector \in Here(call.ts, call.enc) /\ (Simple => sector = Target)
  /\ pc = "missing" => (Simple => Target = None)
  /\ pc \in {"return", "return0"} /\ ~Listing => Handed /\ Replied

-----------------------------------------------------------------------------
(***************************************************************************)
(* The sector a search must find.                                          *)
(***************************************************************************)
\* It is the first one with its number; the headers of a track are finitely
\* many and start at different places, so there is one first.
LEMMA FoundIs ==
  ASSUME Types, NEW ts \in Present, NEW e, NEW id, NEW sc \in Coded(ts, e), sc.id = id,
         \A t \in Coded(ts, e) : t.id = id => sc.start <= t.start
  PROVE  Found(ts, e, id) = sc
<1> DEFINE S == {t \in Coded(ts, e) : t.id = id}
<1>1. ts \in TrackSides /\ tracks \in Layouts
  BY DirectoryAssumption DEF Types, TypeOK
<1>2. S \subseteq tracks[ts] /\ sc \in S /\ Found(ts, e, id) = First(S)
  BY DEF Coded, Live, Found
<1>3. \A t \in S : sc.start <= t.start
  OBVIOUS
<1> HIDE DEF S
<1>4. PICK f : f = First(S)
  OBVIOUS
<1>5. f \in S /\ \A t \in S : f.start <= t.start
  BY <1>1, <1>2, <1>4, Firsts
<1>6. f \in tracks[ts] /\ sc \in tracks[ts] /\ f.start \in Nat /\ sc.start \in Nat
  BY <1>1, <1>2, <1>5, DirectoryAssumption DEF IsHeader
<1>7. f.start = sc.start
  BY <1>2, <1>3, <1>5, <1>6
<1> QED
  BY <1>1, <1>2, <1>4, <1>6, <1>7, DirectoryAssumption

LEMMA FoundNone ==
  ASSUME NEW ts, NEW e, NEW id, ts \in Present => \A t \in Coded(ts, e) : t.id # id
  PROVE  Found(ts, e, id) = None
  BY DEF Found, First

LEMMA FoundSome ==
  ASSUME Types, NEW ts, NEW e, NEW id, Found(ts, e, id) # None
  PROVE  ts \in Present /\ Found(ts, e, id) \in Coded(ts, e) /\ Found(ts, e, id).id = id
<1> DEFINE S == {t \in Coded(ts, e) : t.id = id}
<1>1. ts \in Present /\ Found(ts, e, id) = First(S)
  BY DEF Found
<1>2. ts \in TrackSides /\ tracks \in Layouts /\ S \subseteq tracks[ts]
  BY <1>1, DirectoryAssumption DEF Types, TypeOK, Coded, Live
<1>3. PICK f : f = First(S)
  OBVIOUS
<1>4. f # None
  BY <1>1, <1>3
<1> HIDE DEF S
<1>5. f \in S
  BY <1>2, <1>3, <1>4, Firsts
<1> QED
  BY <1>1, <1>3, <1>5 DEF S

\* A fetch hands over a header of the track, on any track.
LEMMA NextHere ==
  ASSUME Types, NEW s \in Access, NEW ts \in TrackSides, NEW e,
         NEW nx, nx = NextSector(s, ts, e), nx.sc # None
  PROVE  nx.sc \in Here(ts, e)
<1>1. ts \in Sides
  BY DEF Sides
<1>2. ts \in Present /\ nx.sc = Decode(ts, e, From(s, ts))
  BY <1>1, Nexts
<1>3. PICK pos : pos = From(s, ts)
  OBVIOUS
<1>4. nx.sc \in Coded(ts, e)
  BY <1>2, <1>3, Decoded
<1> QED
  BY <1>2, <1>4 DEF Here

\* A fetch on a plain track hands over what the decoder finds.
LEMMA PlainFetch ==
  ASSUME Types, NEW ts \in Present, Plain(ts), NEW e, NEW s \in Access,
         s.bitoffset \in Nat, s.old_bitoffset <= s.bitoffset, s.cur = ts \/ s.bitoffset = 0,
         NEW nx, nx = NextSector(s, ts, e)
  PROVE  /\ nx.sc = Decode(ts, e, s.bitoffset)
         /\ nx.sc # None =>
              /\ nx.sc \in Coded(ts, e) /\ nx.sc \in tracks[ts] /\ nx.sc.start >= s.bitoffset
              /\ \A t \in Coded(ts, e) : t.start >= s.bitoffset => nx.sc.start <= t.start
              /\ nx.sc.start \in Nat /\ nx.sc.next \in Nat /\ nx.sc.start < nx.sc.next
              /\ nx.ss.cur = ts /\ nx.ss.bitoffset = nx.sc.next /\ nx.ss.old_bitoffset = s.bitoffset
         /\ nx.sc = None => \A t \in Coded(ts, e) : ~(t.start >= s.bitoffset)
<1> DEFINE pos == s.bitoffset
<1>1. PICK d : d = Decode(ts, e, pos)
  OBVIOUS
<1>2. ts \in TrackSides /\ lost[ts] = {} /\ Apart(tracks[ts])
  BY PlainTrack DEF Plain
<1>3. From(s, ts) = pos /\ ~AtEnd(s)
  BY DEF From, AtEnd, Access
<1>4. \/ d = None /\ \A t \in Coded(ts, e) : ~(t.start >= pos)
      \/ /\ d # None /\ d \in Coded(ts, e) /\ d \in tracks[ts] /\ d.start >= pos
         /\ \A t \in Coded(ts, e) : t.start >= pos => d.start <= t.start
  BY <1>1, <1>2, Decoded
<1>5. d # None => d.start \in Nat /\ d.next \in Nat /\ d.start < d.next
  BY <1>2, <1>4, PlainTrack DEF Apart
<1>6. NextSector(s, ts, e) =
        IF d = None \/ d.next = pos
        THEN [ss |-> [s EXCEPT !.cur = ts, !.old_bitoffset = pos, !.bitoffset = -1], sc |-> None]
        ELSE [ss |-> [s EXCEPT !.cur = ts, !.old_bitoffset = pos, !.bitoffset = d.next], sc |-> d]
  BY <1>1, <1>3 DEF NextSector
<1>7. pos \in Nat
  OBVIOUS
<1>8. CASE d = None
  BY <1>1, <1>4, <1>6, <1>8
<1>9. CASE d # None
  <2> DEFINE r == [s EXCEPT !.cur = ts, !.old_bitoffset = pos, !.bitoffset = d.next]
  <2>1. r.cur = ts /\ r.bitoffset = d.next /\ r.old_bitoffset = pos
    BY DEF Access
  <2>2. d.next # pos
    BY <1>4, <1>5, <1>7, <1>9
  <2>3. nx = [ss |-> r, sc |-> d]
    BY <1>6, <1>9, <2>2
  <2> HIDE DEF r
  <2> QED  BY <1>1, <1>4, <1>5, <1>9, <2>1, <2>3
<1> QED
  BY <1>8, <1>9

-----------------------------------------------------------------------------
(***************************************************************************)
(* The steps of a search.                                                  *)
(***************************************************************************)
\* What a call is answered from does not depend on the step, but for a write.
LEMMA SameTrack ==
  ASSUME UNCHANGED <<image, call, Untorn>>
  PROVE  /\ Simple' = Simple
         /\ \A ts : Plain(ts)' = Plain(ts)
         /\ \A ts, e : Coded(ts, e)' = Coded(ts, e) /\ Here(ts, e)' = Here(ts, e)
         /\ \A ts, e, id : Found(ts, e, id)' = Found(ts, e, id)
         /\ \A i : Asked(i)' = Asked(i)
<1>1. \A ts, e : Coded(ts, e)' = Coded(ts, e)
  BY DEF Coded, Live, image
<1>2. \A ts, e, id : Found(ts, e, id)' = Found(ts, e, id)
  BY <1>1 DEF Found
<1>3. \A ts : Plain(ts)' = Plain(ts)
  BY DEF Plain, Apart, image
<1> QED
  BY <1>1, <1>2, <1>3 DEF Simple, Clean, Here, Asked

\* A step of a call tears no cache.
LEMMA TornStays ==
  ASSUME [Next]_vars, pc # "idle"
  PROVE  Untorn' = Untorn
  BY DEF Untorn, Reset, Next, Step, GetNextSector, ResetSearchTrackPosition, ClearTrackCache,
     SetSectorAccessFlags, Start, Denied, OutOfRange, CacheHit, CacheMiss, Scan, Missing,
     SearchFound, ReadFound, ReadOtherSize, WriteFound, WriteOtherSector, Rewind, Pass,
     Merge, Listed, Return, vars

LEMMA KeepHanded ==
  ASSUME Handed, UNCHANGED <<image, call, got, badcrc, Untorn>>,
         status' = "FDC_NOERROR" => status = "FDC_NOERROR"
  PROVE  Handed'
<1>1. Simple' = Simple /\ \A i : Asked(i)' = Asked(i)
  BY SameTrack
<1> QED
  BY <1>1 DEF Handed, image

\* A search that hits nothing starts where no header has the number it asks for.
LEMMA MissSearcher ==
  ASSUME Types, CachesKnown, Searcher, CacheMiss
  PROVE  Searcher'
<1> DEFINE ts == call.ts
<1>1. /\ pc = "look" /\ pc' = "scan" /\ ts \in TrackSides /\ Hits(ts, Wanted) = {}
      /\ ss' = IF cache[ts] = <<>> THEN Rewound(ss) ELSE At(ss, ts, Resume(ts))
      /\ UNCHANGED <<image, call, got, badcrc, status, Untorn>> /\ ss \in Access
  BY DEF CacheMiss, InRange, Types, Untorn, Reset
<1>2. Handed' /\ Waiting' /\ Wanted' = Wanted
  BY <1>1, KeepHanded DEF Searcher, Waiting, Wanted
<1>3. SUFFICES ASSUME Untorn, ts \in Present, Plain(ts)
               PROVE  /\ ss'.bitoffset \in Nat /\ ss'.old_bitoffset <= ss'.bitoffset
                      /\ ss'.cur = ts \/ ss'.bitoffset = 0
                      /\ \A t \in tracks[ts] : t.start < ss'.bitoffset => t.id # Wanted
  <2>1. Plain(ts)' = Plain(ts)
    BY <1>1, SameTrack
  <2> QED  BY <1>1, <1>2, <2>1 DEF Searcher, Scanned, image
<1>4. \A t \in tracks[ts] : t.start \in Nat /\ t.data \in Nat
  BY <1>3, PlainTrack
<1>5. CASE cache[ts] = <<>>
  <2>1. ss'.bitoffset = 0 /\ ss'.old_bitoffset = 0
    BY <1>1, <1>5 DEF Rewound, Access
  <2> QED  BY <1>4, <2>1
<1>6. CASE cache[ts] # <<>>
  <2> DEFINE c == cache[ts]
             last == c[Len(c)]
  <2>1. Gapless(c, ts) /\ c \in Seq(tracks[ts])
    BY <1>3, PlainTrack, WholeGapless DEF Untorn
  <2>2. Len(c) \in Nat /\ Len(c) \in 1 .. Len(c) /\ last \in tracks[ts]
    BY <1>6, <2>1
  <2>3. last.start \in Nat /\ last.data \in Nat
    BY <1>4, <2>2
  <2>4. /\ ss'.cur = ts /\ ss'.bitoffset = last.data + 1 /\ ss'.old_bitoffset = last.data + 1
    BY <1>1, <1>6 DEF At, Access, Resume
  <2>5. ASSUME NEW t \in tracks[ts], t.start < last.data + 1
        PROVE  \E i \in 1 .. Len(c) : c[i] = t
    <3>1. t.start \in Nat /\ (last.start < t.start => last.data < t.start)
      BY <1>3, <1>4, <2>2, PlainTrack
    <3>2. t.start = last.start \/ t.start < last.start
      <4> HIDE DEF last
      <4> QED  BY <2>3, <2>5, <3>1
    <3>3. t.start = last.start => t = last
      BY <1>3, <2>2, PlainTrack
    <3>4. t.start < last.start => \E j \in 1 .. Len(c) : c[j] = t
      BY <2>1, <2>2 DEF Gapless
    <3> QED  BY <2>2, <3>2, <3>3, <3>4
  <2>6. ASSUME NEW t \in tracks[ts], t.start < last.data + 1
        PROVE  t.id # Wanted
    <3>1. PICK i \in 1 .. Len(c) : c[i] = t
      BY <2>5, <2>6
    <3>2. t.cyl = ts[1] /\ t.head = ts[2]
      BY <1>3 DEF Plain
    <3> QED  BY <1>1, <3>1, <3>2 DEF Hits, Says
  <2> HIDE DEF last
  <2> QED  BY <2>3, <2>4, <2>6
<1> QED
  BY <1>5, <1>6

\* A fetch of the scan finds the sector, goes past another one, or ends it.
LEMMA ScanSearcher ==
  ASSUME Types, Searcher, Scan
  PROVE  Searcher'
<1> DEFINE ts == call.ts
           e == call.enc
<1>1. PICK nx : nx = NextSector(ss, ts, e)
  OBVIOUS
<1>2. /\ pc = "scan" /\ Fetch(ss, ts, e) /\ ss' = nx.ss /\ ss \in Access
      /\ ts \in TrackSides /\ ts \in Sides
      /\ \/ nx.sc = None /\ pc' = "missing"
         \/ nx.sc # None /\ nx.sc.id = Wanted /\ pc' = "found" /\ sector' = nx.sc
         \/ nx.sc # None /\ nx.sc.id # Wanted /\ pc' = "scan"
      /\ UNCHANGED <<image, call, got, badcrc, status, Untorn>>
  BY <1>1 DEF Scan, Fetch, Types, Sides, Untorn
<1>3. Handed' /\ Waiting' /\ Wanted' = Wanted
  BY <1>2, KeepHanded DEF Searcher, Waiting, Wanted
<1>4. /\ Simple' = Simple /\ \A k : Plain(k)' = Plain(k)
      /\ \A k, f : Here(k, f)' = Here(k, f)
      /\ Target' = Target
  BY <1>2, <1>3, SameTrack DEF Target
<1>5. nx.sc # None => nx.sc \in Here(ts, e)
  BY <1>1, <1>2, NextHere
<1>6. ts \notin Present => nx.sc = None /\ Target = None
  BY <1>1 DEF NextSector, Target, Found
<1>7. ASSUME Untorn, ts \in Present, Plain(ts)
      PROVE  /\ nx.sc = None => Target = None
             /\ nx.sc # None /\ nx.sc.id = Wanted => Target = nx.sc
             /\ nx.sc # None /\ nx.sc.id # Wanted =>
                  /\ nx.ss.bitoffset \in Nat /\ nx.ss.old_bitoffset <= nx.ss.bitoffset
                  /\ nx.ss.cur = ts
                  /\ \A t \in tracks[ts] : t.start < nx.ss.bitoffset => t.id # Wanted
  <2>1. /\ ss.bitoffset \in Nat /\ ss.old_bitoffset <= ss.bitoffset
        /\ ss.cur = ts \/ ss.bitoffset = 0
        /\ \A t \in tracks[ts] : t.start < ss.bitoffset => t.id # Wanted
    BY <1>2, <1>7 DEF Searcher, Scanned
  <2>2. /\ nx.sc # None =>
             /\ nx.sc \in Coded(ts, e) /\ nx.sc \in tracks[ts] /\ nx.sc.start >= ss.bitoffset
             /\ \A t \in Coded(ts, e) : t.start >= ss.bitoffset => nx.sc.start <= t.start
             /\ nx.sc.start \in Nat /\ nx.sc.next \in Nat /\ nx.sc.start < nx.sc.next
             /\ nx.ss.cur = ts /\ nx.ss.bitoffset = nx.sc.next
             /\ nx.ss.old_bitoffset = ss.bitoffset
        /\ nx.sc = None => \A t \in Coded(ts, e) : ~(t.start >= ss.bitoffset)
    BY <1>1, <1>2, <1>7, <2>1, PlainFetch
  <2>3. \A t \in tracks[ts] : t.start \in Nat
    BY <1>7, PlainTrack
  <2>4. \A t \in Coded(ts, e) : t \in tracks[ts]
    BY DEF Coded, Live
  <2>5. ASSUME nx.sc = None PROVE Target = None
    <3>1. \A t \in Coded(ts, e) : t.id # Wanted
      BY <2>1, <2>2, <2>3, <2>4, <2>5
    <3> QED  BY <3>1, FoundNone DEF Target
  <2>6. ASSUME nx.sc # None, nx.sc.id = Wanted PROVE Target = nx.sc
    <3>1. \A t \in Coded(ts, e) : t.id = Wanted => nx.sc.start <= t.start
      BY <2>1, <2>2, <2>3, <2>4, <2>6
    <3> QED  BY <1>7, <2>2, <2>6, <3>1, FoundIs DEF Target
  <2>7. ASSUME nx.sc # None, nx.sc.id # Wanted, NEW t \in tracks[ts], t.start < nx.sc.next
        PROVE  t.id # Wanted
    <3>1. /\ nx.sc.start < t.start => nx.sc.next <= t.start
          /\ nx.sc.start = t.start => t = nx.sc
          /\ nx.sc.enc = t.enc /\ lost[ts] = {} /\ t.start \in Nat
      BY <1>7, <2>2, <2>7, PlainTrack
    <3>2. t \in Coded(ts, e)
      BY <2>2, <2>7, <3>1 DEF Coded, Live
    <3>3. t.start = nx.sc.start \/ t.start < ss.bitoffset
      BY <2>1, <2>2, <2>7, <3>1, <3>2
    <3> QED  BY <2>1, <2>7, <3>1, <3>3
  <2> QED  BY <2>1, <2>2, <2>5, <2>6, <2>7
<1>8. CASE nx.sc = None /\ pc' = "missing"
  BY <1>3, <1>4, <1>6, <1>7, <1>8 DEF Searcher, Simple, Clean
<1>9. CASE nx.sc # None /\ nx.sc.id = Wanted /\ pc' = "found" /\ sector' = nx.sc
  BY <1>2, <1>3, <1>4, <1>5, <1>6, <1>7, <1>9 DEF Searcher, Simple, Clean
<1>10. CASE nx.sc # None /\ nx.sc.id # Wanted /\ pc' = "scan"
  <2>1. Scanned'
    BY <1>2, <1>3, <1>4, <1>7, <1>10 DEF Scanned, image
  <2> QED  BY <1>3, <1>10, <2>1 DEF Searcher
<1> QED
  BY <1>2, <1>8, <1>9, <1>10

\* A hit on a plain track is the first header with the number asked for: the
\* headers before it are cached before it.
LEMMA HitSearcher ==
  ASSUME Types, CachesKnown, Searcher, CacheHit
  PROVE  Searcher'
<1> DEFINE ts == call.ts
           e == call.enc
<1>1. PICK k, h : k = Hit(ts, Wanted) /\ h = cache[ts][k]
  OBVIOUS
<1>2. PICK s : s = At(ss, ts, h.start)
  OBVIOUS
<1>3. PICK nx : nx = NextSector(s, ts, e)
  OBVIOUS
<1>4. /\ pc = "look" /\ ts \in TrackSides /\ Hits(ts, Wanted) # {}
      /\ \/ nx.sc = None /\ pc' = "missing"
         \/ nx.sc # None /\ pc' = "found" /\ sector' = nx.sc
      /\ UNCHANGED <<image, call, got, badcrc, status, Untorn>>
  BY <1>1, <1>2, <1>3 DEF CacheHit, InRange, Untorn
<1>5. Handed' /\ Waiting' /\ Wanted' = Wanted
  BY <1>4, KeepHanded DEF Searcher, Waiting, Wanted
<1>6. /\ Simple' = Simple /\ \A f : Here(ts, f)' = Here(ts, f)
      /\ Target' = Target /\ call' = call
  BY <1>4, <1>5, SameTrack DEF Target
<1>7. /\ k \in Hits(ts, Wanted) /\ \A j \in Hits(ts, Wanted) : k <= j
  BY <1>1, <1>4, FirstHit
<1>8. /\ k \in 1 .. Len(cache[ts]) /\ h.id = Wanted /\ h \in tracks[ts] /\ h.start \in Nat
  <2>1. k \in 1 .. Len(cache[ts]) /\ h.id = Wanted
    BY <1>1, <1>7 DEF Hits, Says
  <2>2. h \in tracks[ts] /\ tracks \in Layouts
    BY <1>1, <1>4, <2>1 DEF Types, TypeOK, Headers
  <2> QED  BY <1>4, <2>1, <2>2, DirectoryAssumption DEF IsHeader
<1>9. s \in Access /\ s.cur = ts /\ s.bitoffset = h.start /\ s.old_bitoffset = h.start
  <2>1. ss \in Access /\ ts \in Sides
    BY <1>4 DEF Types, Sides
  <2> QED  BY <1>2, <1>8, <2>1 DEF At, Access
<1>10. nx.sc # None => nx.sc \in Here(ts, e)
  BY <1>3, <1>4, <1>9, NextHere
<1>11. ts \notin Present => nx.sc = None /\ Target = None
  BY <1>3 DEF NextSector, Target, Found
<1>12. ASSUME Untorn, ts \in Present, Plain(ts)
       PROVE  nx.sc = Target
  <2>1. /\ nx.sc = Decode(ts, e, h.start)
        /\ nx.sc # None => nx.sc \in Coded(ts, e)
    BY <1>3, <1>8, <1>9, <1>12, PlainFetch
  <2>2. lost[ts] = {} /\ \A t \in tracks[ts] : t.enc = h.enc /\ t.start \in Nat /\ t # None
    BY <1>8, <1>12, PlainTrack
  <2>3. CASE h.enc = e
    <3>1. nx.sc = h
      BY <1>4, <1>8, <2>1, <2>2, <2>3, DecodedThere
    <3>2. h \in Coded(ts, e)
      BY <1>8, <2>2, <2>3 DEF Coded, Live
    <3>3. ASSUME NEW t \in Coded(ts, e), t.id = Wanted, t.start < h.start
          PROVE  FALSE
      <4>1. t \in tracks[ts]
        BY DEF Coded, Live
      <4>2. PICK j \in 1 .. k : cache[ts][j] = t
        BY <1>1, <1>8, <1>12, <3>3, <4>1, WholeGapless DEF Gapless, Untorn
      <4>3. t.cyl = ts[1] /\ t.head = ts[2]
        BY <1>12, <4>1 DEF Plain
      <4>4. cache[ts] \in Seq(tracks[ts])
        BY <1>12, PlainTrack
      <4>5. j \in Hits(ts, Wanted)
        BY <1>8, <3>3, <4>2, <4>3, <4>4 DEF Hits, Says
      <4>6. j = k
        BY <1>7, <1>8, <4>2, <4>5
      <4> QED  BY <1>1, <1>8, <3>3, <4>2, <4>6
    <3>4. \A t \in Coded(ts, e) : t.id = Wanted => h.start <= t.start
      <4>1. \A t \in Coded(ts, e) : t.start \in Nat
        BY <2>2 DEF Coded, Live
      <4> QED  BY <1>8, <3>3, <4>1
    <3> QED  BY <1>8, <1>12, <3>1, <3>2, <3>4, FoundIs DEF Target
  <2>4. CASE h.enc # e
    <3>1. \A t \in Coded(ts, e) : FALSE
      BY <2>2, <2>4 DEF Coded, Live
    <3> QED  BY <2>1, <3>1, FoundNone DEF Target
  <2> QED  BY <2>3, <2>4
<1>13. Simple => nx.sc = Target
  BY <1>11, <1>12 DEF Simple, Clean
<1> QED
  BY <1>4, <1>5, <1>6, <1>10, <1>13 DEF Searcher

-----------------------------------------------------------------------------
(***************************************************************************)
(* The answer of a call.                                                   *)
(***************************************************************************)
LEMMA SameFound ==
  \A ts, e, id : Directory!Found(ts, e, id) = Found(ts, e, id)
  BY DEF Directory!Found, Directory!First, Directory!Coded, Directory!Live,
         Found, First, Coded, Live

\* The answers, call by call.
LEMMA SearchAnswers ==
  ASSUME call.fn = "search", NEW a,
         a = IF Found(call.ts, call.enc, call.id) = None THEN <<>>
             ELSE <<Found(call.ts, call.enc, call.id)>>
  PROVE  Directory!Answers(call, a)
  BY SameFound DEF Directory!Answers

LEMMA SectorsAnswer ==
  ASSUME call.fn \in {"read", "write"}, NEW a, Len(a) <= call.n,
         \A i \in 1 .. Len(a) : a[i] # None /\ a[i] = Asked(i),
         Len(a) < call.n =>
           \/ Found(call.ts, call.enc, call.id + Len(a)) = None
           \/ /\ call.fn = "read"
              /\ Found(call.ts, call.enc, call.id + Len(a)).size # call.size
  PROVE  Directory!Answers(call, a)
  BY SameFound DEF Directory!Answers, Asked

LEMMA OtherAnswers ==
  ASSUME call.fn \notin {"search", "read", "write", "list", "listiso"}, NEW a
  PROVE  Directory!Answers(call, a)
  BY DEF Directory!Answers

\* They depend on the headers of the track of the call only.
LEMMA SameSide ==
  ASSUME tracks' = tracks, call' = call, lost'[call.ts] = lost[call.ts]
  PROVE  /\ Clean' = Clean /\ \A i : Asked(i)' = Asked(i)
         /\ \A a : Directory!Answers(call, a)' = Directory!Answers(call, a)
<1> DEFINE ts == call.ts
<1>1. Live(ts)' = Live(ts) /\ Directory!Live(ts)' = Directory!Live(ts)
  BY DEF Live, Directory!Live
<1>2. \A e : Coded(ts, e)' = Coded(ts, e) /\ Directory!Coded(ts, e)' = Directory!Coded(ts, e)
  BY <1>1 DEF Coded, Directory!Coded
<1>3. \A e, id : /\ Found(ts, e, id)' = Found(ts, e, id)
                 /\ Directory!Found(ts, e, id)' = Directory!Found(ts, e, id)
  BY <1>2 DEF Found, Directory!Found
<1>4. \A a, S : Directory!Lists(a, S)' = Directory!Lists(a, S)
  BY DEF Directory!Lists
<1>5. \A a : Directory!Answers(call, a)' = Directory!Answers(call, a)
  BY <1>1, <1>2, <1>3, <1>4 DEF Directory!Answers
<1>6. Clean' = Clean
  BY DEF Clean, Plain, Apart
<1>7. \A i : Asked(i)' = Asked(i)
  BY <1>3 DEF Asked
<1> QED
  BY <1>5, <1>6, <1>7

LEMMA SameAnswers ==
  ASSUME UNCHANGED <<image, call>>
  PROVE  \A a : Directory!Answers(call, a)' = Directory!Answers(call, a)
  BY SameSide DEF image

\* A call that does not get the sector it waits for is answered without it.
LEMMA MissAnswers ==
  ASSUME Types, Handed, Waiting, ~Listing, call \in Calls, Simple, Target = None
  PROVE  Directory!Answers(call, got)
<1>1. call.id \in Nat /\ call.n \in Nat /\ Len(got) \in Nat
  BY CallAssumption DEF Handed
<1>2. CASE call.fn = "search"
  <2>1. Found(call.ts, call.enc, call.id) = None
    <3>1. Wanted = call.id
      BY <1>1, <1>2 DEF Wanted
    <3> QED  BY <3>1 DEF Target
  <2> QED  BY <1>2, <2>1, SearchAnswers DEF Waiting
<1>3. CASE call.fn \in {"read", "write"}
  <2>1. Found(call.ts, call.enc, call.id + Len(got)) = None
    BY <1>3 DEF Target, Wanted
  <2>2. Len(got) <= call.n
    BY <1>1, <1>3 DEF Waiting
  <2> QED  BY <1>3, <2>1, <2>2, SectorsAnswer DEF Handed
<1>4. CASE call.fn \notin {"search", "read", "write"}
  BY <1>4, OtherAnswers DEF Listing
<1> QED
  BY <1>2, <1>3, <1>4

\* The sector found is handed over as the next one of a read or a write.
LEMMA NextHanded ==
  ASSUME Types, Handed, Waiting, call \in Calls, call.fn \in {"read", "write"},
         sector # None, sector \in tracks[call.ts], Simple => sector = Target,
         NEW g, g = Append(got, sector)
  PROVE  /\ g \in Seq(tracks[call.ts]) /\ Len(g) = Len(got) + 1 /\ Len(got) \in Nat
         /\ Len(g) <= call.n /\ call.n \in Nat
         /\ \A i \in 1 .. Len(g) : \/ i \in 1 .. Len(got) /\ g[i] = got[i]
                                   \/ i = Len(got) + 1 /\ g[i] = sector
         /\ Simple => \A i \in 1 .. Len(g) : g[i] # None /\ g[i] = Asked(i)
<1>1. got \in Seq(tracks[call.ts]) /\ Len(got) \in Nat /\ call.n \in Nat /\ call.id \in Nat
  BY CallAssumption DEF Handed
<1>2. /\ g \in Seq(tracks[call.ts]) /\ Len(g) = Len(got) + 1
      /\ \A i \in 1 .. Len(g) : \/ i \in 1 .. Len(got) /\ g[i] = got[i]
                                \/ i = Len(got) + 1 /\ g[i] = sector
  BY <1>1
<1>3. Len(g) <= call.n
  BY <1>1, <1>2 DEF Waiting
<1>4. ASSUME Simple, NEW i \in 1 .. Len(g) PROVE g[i] # None /\ g[i] = Asked(i)
  <2>1. CASE i \in 1 .. Len(got) /\ g[i] = got[i]
    BY <1>4, <2>1 DEF Handed
  <2>2. CASE i = Len(got) + 1 /\ g[i] = sector
    <3>1. call.id + i - 1 = call.id + Len(got)
      BY <1>1, <2>2
    <3>2. Asked(i) = Target
      BY <3>1 DEF Asked, Target, Wanted
    <3> QED  BY <1>4, <2>2, <3>2
  <2> QED  BY <1>2, <2>1, <2>2
<1> QED
  BY <1>1, <1>2, <1>3, <1>4

LEMMA SingleIn == \A S : \A s \in S : <<s>> \in Seq(S)
  OBVIOUS

\* The steps that end a call that waits.
LEMMA RefusedSearcher ==
  ASSUME Types, Lister, Searcher, Denied \/ OutOfRange \/ Missing
  PROVE  Searcher'
<1>1. /\ pc \in {"look", "missing"} /\ Handed /\ Waiting /\ ~Listing /\ call \in Calls
      /\ UNCHANGED <<image, call, got, badcrc, Untorn>>
      /\ status' = "FDC_NOERROR" => status = "FDC_NOERROR"
  BY DEF Denied, OutOfRange, Missing, Searcher, Lister, Types, TypeOK, Untorn, Reset
<1>2. Handed' /\ Simple' = Simple /\ \A a : Directory!Answers(call, a)' = Directory!Answers(call, a)
  BY <1>1, KeepHanded, SameTrack, SameAnswers
<1>3. Simple => Target = None
  <2>1. CASE Missing
    BY <2>1 DEF Missing, Searcher
  <2>2. CASE Denied \/ OutOfRange
    BY <2>2, DirectoryAssumption DEF Denied, OutOfRange, InRange, Target, Found
  <2> QED  BY <2>1, <2>2
<1>4. CASE OutOfRange
  <2>1. pc' = "missing" /\ Wanted' = Wanted
    BY <1>4 DEF OutOfRange, Wanted
  <2>2. Target' = Target /\ Waiting'
    BY <1>1, <2>1, SameTrack DEF Target, Waiting
  <2> QED  BY <1>2, <1>3, <2>1, <2>2 DEF Searcher
<1>5. CASE Denied \/ Missing
  <2>1. pc' = "return" /\ (call.fn = "read" => status' # "FDC_NOERROR")
    BY <1>5 DEF Denied, Missing
  <2>2. Simple => Directory!Answers(call, got)
    BY <1>1, <1>3, MissAnswers
  <2>3. Replied'
    BY <1>1, <1>2, <2>1, <2>2 DEF Replied
  <2> QED  BY <1>2, <2>1, <2>3 DEF Searcher
<1> QED
  BY <1>4, <1>5

LEMMA SearchFoundSearcher ==
  ASSUME Types, Searcher, SearchFound
  PROVE  Searcher'
<1>1. /\ pc = "found" /\ call.fn = "search" /\ got' = <<sector>> /\ pc' = "return"
      /\ UNCHANGED <<image, call, Untorn>> /\ Waiting /\ call \in Calls
      /\ sector # None /\ sector \in tracks[call.ts] /\ (Simple => sector = Target)
  BY DEF SearchFound, Searcher, Types, TypeOK, Headers, Untorn
<1>2. Simple' = Simple /\ \A a : Directory!Answers(call, a)' = Directory!Answers(call, a)
  BY <1>1, SameTrack, SameAnswers
<1>3. Handed'
  <2>1. got' \in Seq(tracks[call.ts]) /\ tracks' = tracks /\ call'.fn = "search"
    BY <1>1, SingleIn DEF image
  <2> QED  BY <1>1, <2>1 DEF Handed
<1>4. ASSUME Simple PROVE Directory!Answers(call, got')
  <2>1. Wanted = call.id
    BY <1>1, CallAssumption DEF Wanted
  <2>2. Found(call.ts, call.enc, call.id) = sector
    BY <1>1, <1>4, <2>1 DEF Target
  <2> QED  BY <1>1, <2>2, SearchAnswers
<1>5. Replied'
  BY <1>1, <1>2, <1>4 DEF Replied
<1> QED
  BY <1>1, <1>3, <1>5 DEF Searcher

LEMMA ReadSearcher ==
  ASSUME Types, Searcher, ReadFound \/ ReadOtherSize
  PROVE  Searcher'
<1>1. /\ pc = "found" /\ call.fn = "read" /\ UNCHANGED <<image, call, badcrc, Untorn>>
      /\ Handed /\ Waiting /\ call \in Calls
      /\ sector # None /\ sector \in tracks[call.ts] /\ (Simple => sector = Target)
  BY DEF ReadFound, ReadOtherSize, Searcher, Types, TypeOK, Headers, Untorn
<1>2. /\ Simple' = Simple /\ \A a : Directory!Answers(call, a)' = Directory!Answers(call, a)
      /\ \A i : Asked(i)' = Asked(i)
  BY <1>1, SameTrack, SameAnswers
<1>3. call.n \in Nat /\ Len(got) \in Nat
  BY <1>1, CallAssumption DEF Handed
<1>4. CASE ReadFound
  <2>1. PICK g : g = Append(got, sector)
    OBVIOUS
  <2>2. /\ got' = g /\ status' = ReadStatus(sector)
        /\ pc' = IF Len(got) + 1 < call.n THEN "look" ELSE "return"
    BY <1>4, <2>1 DEF ReadFound, NextOrReturn
  <2>3. /\ g \in Seq(tracks[call.ts]) /\ Len(g) = Len(got) + 1
        /\ Len(g) <= call.n
        /\ \A i \in 1 .. Len(g) : \/ i \in 1 .. Len(got) /\ g[i] = got[i]
                                  \/ i = Len(got) + 1 /\ g[i] = sector
        /\ Simple => \A i \in 1 .. Len(g) : g[i] # None /\ g[i] = Asked(i)
    BY <1>1, <2>1, NextHanded
  <2>4. status' = "FDC_NOERROR" =>
          /\ status = "FDC_NOERROR" /\ sector.start \notin badcrc[call.ts] /\ sector.has
    BY <2>2 DEF ReadStatus
  <2>5. Handed'
    <3>1. status' = "FDC_NOERROR" =>
            \A i \in 1 .. Len(g) : g[i].has /\ g[i].start \notin badcrc[call.ts]
      BY <1>1, <2>3, <2>4 DEF Handed
    <3> QED  BY <1>1, <1>2, <2>2, <2>3, <3>1 DEF Handed, image
  <2>6. CASE pc' = "look"
    <3>1. Len(g) < call.n
      BY <2>2, <2>3, <2>6
    <3>2. Waiting'
      BY <1>1, <2>2, <3>1 DEF Waiting
    <3> QED  BY <2>5, <2>6, <3>2 DEF Searcher
  <2>7. CASE pc' = "return"
    <3>1. Len(g) = call.n
      BY <1>3, <2>2, <2>3, <2>7
    <3>2. Simple => Directory!Answers(call, g)
      BY <1>1, <1>3, <2>3, <3>1, SectorsAnswer
    <3>3. Replied'
      BY <1>1, <1>2, <2>2, <3>1, <3>2 DEF Replied
    <3> QED  BY <2>5, <2>7, <3>3 DEF Searcher
  <2> QED  BY <2>2, <2>6, <2>7
<1>5. CASE ReadOtherSize
  <2>1. sector.size # call.size /\ pc' = "return0" /\ UNCHANGED <<got, status>>
    BY <1>5 DEF ReadOtherSize
  <2>2. Handed'
    BY <1>1, <2>1, KeepHanded
  <2>3. ASSUME Simple PROVE Directory!Answers(call, got)
    <3>1. Found(call.ts, call.enc, call.id + Len(got)).size # call.size
      BY <1>1, <2>1, <2>3 DEF Target, Wanted
    <3>2. Len(got) <= call.n
      BY <1>1, <1>3 DEF Waiting
    <3> QED  BY <1>1, <2>3, <3>1, <3>2, SectorsAnswer DEF Handed
  <2>4. Replied'
    BY <1>1, <1>2, <2>1, <2>3 DEF Replied
  <2> QED  BY <2>1, <2>2, <2>4 DEF Searcher
<1> QED
  BY <1>4, <1>5

\* A write that leaves the track plain has destroyed no header.
LEMMA WriteSearcher ==
  ASSUME Types, Searcher, WriteFound
  PROVE  Searcher'
<1>1. /\ pc = "found" /\ call.fn = "write" /\ UNCHANGED <<tracks, call, Untorn>>
      /\ lost' = [lost EXCEPT ![call.ts] = @ \union Overwritten(sector, call.size)]
      /\ Handed /\ Waiting /\ call \in Calls /\ call.ts \in TrackSides
      /\ sector # None /\ sector \in tracks[call.ts] /\ (Simple => sector = Target)
      /\ call.ts \in Present
  BY DEF WriteFound, Searcher, Types, TypeOK, Headers, Here, Untorn
<1>2. PICK g : g = Append(got, sector)
  OBVIOUS
<1>3. got' = g /\ pc' = IF Len(got) + 1 < call.n THEN "look" ELSE "return"
  BY <1>2 DEF WriteFound, NextOrReturn
<1>4. /\ g \in Seq(tracks[call.ts]) /\ Len(g) = Len(got) + 1 /\ Len(got) \in Nat
      /\ Len(g) <= call.n /\ call.n \in Nat
      /\ Simple => \A i \in 1 .. Len(g) : g[i] # None /\ g[i] = Asked(i)
  BY <1>1, <1>2, NextHanded
<1>5. Simple' => lost'[call.ts] = lost[call.ts]
  <2>1. lost'[call.ts] = lost[call.ts] \union Overwritten(sector, call.size)
    BY <1>1 DEF Types
  <2>2. Simple' => lost'[call.ts] = {}
    BY <1>1 DEF Simple, Clean, Plain
  <2> QED  BY <2>1, <2>2
<1>6. Simple' => /\ Simple /\ \A i : Asked(i)' = Asked(i)
                 /\ \A a : Directory!Answers(call, a)' = Directory!Answers(call, a)
  BY <1>1, <1>5, SameSide DEF Simple
<1>7. Handed'
  BY <1>1, <1>3, <1>4, <1>6 DEF Handed
<1>8. CASE pc' = "look"
  <2>1. Waiting'
    BY <1>1, <1>3, <1>4, <1>8 DEF Waiting
  <2> QED  BY <1>7, <1>8, <2>1 DEF Searcher
<1>9. CASE pc' = "return"
  <2>1. Len(g) = call.n
    BY <1>3, <1>4, <1>9
  <2>2. Simple => Directory!Answers(call, g)
    BY <1>1, <1>4, <2>1, SectorsAnswer
  <2>3. Replied'
    BY <1>1, <1>3, <1>6, <2>2 DEF Replied
  <2> QED  BY <1>7, <1>9, <2>3 DEF Searcher
<1> QED
  BY <1>3, <1>8, <1>9

LEMMA WriteOtherSearcher ==
  ASSUME Searcher, WriteOtherSector
  PROVE  Searcher'
<1>1. /\ pc = "found" /\ pc' = "look" /\ UNCHANGED <<image, call, got, badcrc, status, Untorn>>
  BY DEF WriteOtherSector, Untorn
<1>2. Handed' /\ Waiting'
  BY <1>1, KeepHanded DEF Searcher, Waiting
<1> QED
  BY <1>1, <1>2 DEF Searcher

\* The steps outside a search, a read or a write, and the first one.
LEMMA ElsewhereSearcher ==
  ASSUME Lister,
         \/ GetNextSector \/ ResetSearchTrackPosition \/ ClearTrackCache \/ SetSectorAccessFlags
         \/ Rewind \/ Pass \/ Merge \/ Listed \/ Return
  PROVE  Searcher'
<1>1. CASE \/ GetNextSector \/ ResetSearchTrackPosition \/ ClearTrackCache
           \/ SetSectorAccessFlags \/ Return \/ Rewind \/ Pass \/ Merge
  <2>1. pc' \in {"idle", "rewind", "pass", "merge"}
    BY <1>1 DEF GetNextSector, ResetSearchTrackPosition, ClearTrackCache, SetSectorAccessFlags,
                Return, Rewind, Pass, AfterPass, Merge, work
  <2> QED  BY <2>1 DEF Searcher
<1>2. CASE Listed
  <2>1. pc' = "return" /\ Listing'
    BY <1>2 DEF Listed, Lister, Listing
  <2> QED  BY <2>1 DEF Searcher
<1> QED
  BY <1>1, <1>2

LEMMA StartSearcher ==
  ASSUME Start
  PROVE  Searcher'
<1>1. call' \in Calls /\ got' = <<>> /\ pc' \in {"rewind", "look"}
  BY DEF Start, Enter
<1>2. got' \in Seq(tracks'[call'.ts]) /\ Len(got') = 0
  <2>1. \A S : <<>> \in Seq(S) /\ Len(<<>>) = 0
    BY EmptyCache
  <2> QED  BY <1>1, <2>1
<1>3. call'.n \in Nat \ {0}
  BY <1>1, CallAssumption
<1>4. Handed' /\ Waiting'
  BY <1>1, <1>2, <1>3 DEF Handed, Waiting
<1> QED
  BY <1>1, <1>4 DEF Searcher

LEMMA SearcherStep ==
  ASSUME Types, CachesKnown, Lister, Searcher, [Next]_vars
  PROVE  Searcher'
<1>1. CASE UNCHANGED vars
  <2>1. UNCHANGED <<image, call, ss, badcrc, pc, sector, got, status, Untorn>>
    BY <1>1 DEF vars, work, Untorn
  <2>2. /\ Simple' = Simple /\ \A ts : Plain(ts)' = Plain(ts)
        /\ \A ts, e : Here(ts, e)' = Here(ts, e)
        /\ \A ts, e, id : Found(ts, e, id)' = Found(ts, e, id)
        /\ \A a : Directory!Answers(call, a)' = Directory!Answers(call, a)
    BY <2>1, SameTrack, SameAnswers
  <2>3. Wanted' = Wanted
    BY <2>1 DEF Wanted
  <2>4. Target' = Target /\ (Handed => Handed') /\ (Waiting => Waiting')
    BY <2>1, <2>2, <2>3, KeepHanded DEF Target, Waiting
  <2>5. (Scanned => Scanned') /\ (Replied => Replied')
    BY <2>1, <2>2, <2>3 DEF Scanned, Replied, image
  <2> QED  BY <2>1, <2>2, <2>4, <2>5 DEF Searcher, Listing
<1> QED
  BY <1>1, MissSearcher, ScanSearcher, HitSearcher, RefusedSearcher, SearchFoundSearcher,
     ReadSearcher, WriteSearcher, WriteOtherSearcher, ElsewhereSearcher, StartSearcher
     DEF Next, Step

LEMMA InitSearcher == Init => Searcher
  BY DEF Init, Searcher

\* The sectors a read of a plain track has handed over bear the numbers asked
\* for, also when a cache is torn: a search ends at a header with its number.
Numbered ==
  call # NoCall /\ call.fn = "read" /\ Plain(call.ts) =>
    /\ got \in Seq(tracks[call.ts])
    /\ \A i \in 1 .. Len(got) : got[i].id = call.id + i - 1

LEMMA NumberedStep ==
  ASSUME Types, Lister, Searcher, WrongOnlyAfterStaleHit, Numbered, [Next]_vars
  PROVE  Numbered'
<1>1. CASE Start
  <2>1. \A S : <<>> \in Seq(S) /\ Len(<<>>) = 0
    BY EmptyCache
  <2> QED  BY <1>1, <2>1 DEF Start, Numbered
<1>2. CASE Return
  BY <1>2 DEF Return, Numbered
<1>3. CASE WriteFound \/ SearchFound \/ Merge
  <2>1. call' = call /\ (call.fn # "read")
    BY <1>3 DEF WriteFound, SearchFound, Merge, Lister, Listing
  <2> QED  BY <2>1 DEF Numbered
<1>4. CASE ReadFound
  <2>1. /\ pc = "found" /\ call.fn = "read" /\ UNCHANGED <<image, call>>
        /\ got' = Append(got, sector) /\ call \in Calls /\ call # NoCall
        /\ sector \in tracks[call.ts] /\ call.ts \in TrackSides
    BY <1>4 DEF ReadFound, Types, TypeOK, Headers
  <2>2. ASSUME Plain(call.ts)
        PROVE  got' \in Seq(tracks[call.ts]) /\ \A i \in 1 .. Len(got') : got'[i].id = call.id + i - 1
    <3>1. sector.id = Wanted
      <4>1. SUFFICES ASSUME sector.id # Wanted PROVE FALSE
        OBVIOUS
      <4>2. PICK i \in 1 .. Len(cache[call.ts]) :
              cache[call.ts][i].enc # call.enc \/ cache[call.ts][i] \in lost[call.ts]
        BY <2>1, <4>1 DEF WrongOnlyAfterStaleHit
      <4>3. cache[call.ts][i] \in tracks[call.ts]
        BY <2>1 DEF Types, TypeOK, Headers
      <4>4. sector.enc = call.enc
        BY <2>1 DEF Searcher, Here, Coded
      <4> QED  BY <2>1, <2>2, <4>2, <4>3, <4>4 DEF Plain
    <3>2. call.id \in Nat /\ Wanted = call.id + Len(got)
      BY <2>1, CallAssumption DEF Wanted
    <3>3. got \in Seq(tracks[call.ts]) /\ \A i \in 1 .. Len(got) : got[i].id = call.id + i - 1
      BY <2>1, <2>2 DEF Numbered
    <3>4. /\ got' \in Seq(tracks[call.ts]) /\ Len(got') = Len(got) + 1
          /\ \A i \in 1 .. Len(got) : got'[i] = got[i]
          /\ got'[Len(got) + 1] = sector
      BY <2>1, <3>3
    <3> QED  BY <3>1, <3>2, <3>3, <3>4
  <2>3. Plain(call.ts)' = Plain(call.ts)
    BY <2>1 DEF Plain, Apart, image
  <2> QED  BY <2>1, <2>2, <2>3 DEF Numbered, image
<1>5. CASE ~(Start \/ Return \/ WriteFound \/ SearchFound \/ Merge \/ ReadFound)
  <2>1. UNCHANGED <<image, call, got>>
    BY <1>5 DEF Next, Step, GetNextSector, ResetSearchTrackPosition, ClearTrackCache,
       SetSectorAccessFlags, Denied, OutOfRange, CacheHit, CacheMiss, Scan, Missing,
       ReadOtherSize, WriteOtherSector, Rewind, Pass, Listed, vars, work
  <2>2. \A ts : Plain(ts)' = Plain(ts)
    BY <2>1 DEF Plain, Apart, image
  <2> QED  BY <2>1, <2>2 DEF Numbered, image
<1> QED
  BY <1>1, <1>2, <1>3, <1>4, <1>5

\* All that the proofs below need.
AccessInv ==
  Types /\ CachesKnown /\ Lister /\ Searcher /\ WrongOnlyAfterStaleHit /\ Numbered

LEMMA InitAccess == Init => AccessInv
  <1>1. Init => CachesKnown
    BY InitKnown DEF Init, CachesKnown
  <1>2. Init => WrongOnlyAfterStaleHit /\ Numbered
    BY DEF Init, WrongOnlyAfterStaleHit, Numbered
  <1> QED  BY <1>1, <1>2, InitTypes, InitLister, InitSearcher DEF AccessInv

LEMMA AccessStep == AccessInv /\ [Next]_vars => AccessInv'
  BY TypesStep, CachesKnownStep, ListerStep, SearcherStep, FoundStep, NumberedStep DEF AccessInv

-----------------------------------------------------------------------------
(***************************************************************************)
(* What follows from the invariant.                                        *)
(***************************************************************************)
\* A read without an error has filled the buffer with the sectors asked for
\* (701-763): each has data and a good CRC and, on a plain track, its number.
THEOREM ReadsAreHonest == Spec => []ReadHonest
<1>1. AccessInv => ReadHonest
  <2>1. SUFFICES ASSUME AccessInv, pc = "return", call.fn = "read", status = "FDC_NOERROR"
                 PROVE  /\ Len(got) = call.n
                        /\ \A i \in 1 .. Len(got) : got[i].has /\ got[i].start \notin badcrc[call.ts]
                        /\ Plain(call.ts) => \A i \in 1 .. Len(got) : got[i].id = call.id + i - 1
    BY DEF ReadHonest
  <2>2. Types /\ Handed /\ Replied
    BY <2>1 DEF AccessInv, Searcher, Listing
  <2>3. Plain(call.ts) => \A i \in 1 .. Len(got) : got[i].id = call.id + i - 1
    BY <2>1 DEF AccessInv, Numbered, Types, TypeOK
  <2> QED  BY <2>1, <2>2, <2>3 DEF Handed, Replied
<1> QED
  BY InitAccess, AccessStep, <1>1, PTL DEF Spec

\* A listing of a plain track is answered with all its headers, in order.
LEMMA ListAnswers ==
  ASSUME Types, Lister, pc = "return", Listing, Clean
  PROVE  Directory!Answers(call, got)
<1> DEFINE ts == call.ts
           S == IF call.fn = "list"
                THEN IF ts \in Present THEN Directory!Coded(ts, call.enc) ELSE {}
                ELSE IF ts \in Present
                     THEN {s \in Directory!Live(ts) : s.enc \in {"mfm", "fm"}} ELSE {}
<1>1. got \in Seq(Listable) /\ (Orderly => Lists(got, Listable))
  BY DEF Lister, Done
<1>2. Listable = S
  BY DEF Listing, Listable, Sources, Here, Coded, Live, Directory!Coded, Directory!Live
<1>3. Lists(got, Listable)
  <2>1. CASE ts \in Present
    <3>1. Apart(tracks[ts]) /\ lost[ts] = {}
      BY <2>1 DEF Clean, Plain
    <3>2. Live(ts) = tracks[ts]
      BY <3>1 DEF Live
    <3> QED  BY <1>1, <2>1, <3>1, <3>2 DEF Orderly
  <2>2. CASE ts \notin Present
    <3>1. Listable = {}
      BY <2>2 DEF Listable, Here
    <3>2. \A i \in 1 .. Len(got) : FALSE
      BY <1>1, <3>1
    <3> QED  BY <3>1, <3>2 DEF Lists
  <2> QED  BY <2>1, <2>2
<1>4. Directory!Lists(got, S)
  BY <1>2, <1>3 DEF Lists, Directory!Lists
<1> QED
  BY <1>4 DEF Listing, Directory!Answers

\* Every call on a plain track is answered from the headers of the track, and
\* a listing also when a cache is torn.
LEMMA AnswersHold ==
  AccessInv /\ pc \in {"return", "return0"} /\ Clean /\ (Untorn \/ Listing)
    => Directory!Answers(call, got)
<1>1. CASE Listing
  BY <1>1, ListAnswers DEF AccessInv, Lister
<1>2. CASE ~Listing
  BY <1>2 DEF AccessInv, Searcher, Replied, Simple
<1> QED
  BY <1>1, <1>2

\* The step that ends a call replies to it.
LEMMA ReplyStep ==
  ASSUME AccessInv, AccessInv', pc \notin {"idle", "return", "return0"},
         pc' \in {"return", "return0"}, tracks' = tracks, call' = call,
         Directory!Overrun \/ UNCHANGED lost,
         Clean' => lost'[call.ts] = lost[call.ts], Untorn' = Untorn
  PROVE  Directory!Reply
<1>1. call # NoCall
  BY DEF AccessInv, Types, TypeOK
<1>2. Answered = <<>> /\ Answered' = <<got'>>
  BY DEF Answered
<1>3. (AccessInv /\ pc \in {"return", "return0"} /\ Clean /\ (Untorn \/ Listing)
         => Directory!Answers(call, got))'
  BY AnswersHold, PTL
<1>4. Clean' /\ (Untorn \/ Listing)' => Directory!Answers(call, got')
  BY <1>3, SameSide
<1>5. Directory!Promised(call.ts, call)' <=> Clean' /\ (Untorn \/ Listing)'
  BY DEF Clean, Untorn, Listing, Plain, Apart, Directory!Plain, Directory!Apart,
         Directory!Promised
<1>6. UNCHANGED (cleared = "torn")
  BY DEF Untorn
<1> QED
  BY <1>1, <1>2, <1>4, <1>5, <1>6 DEF Directory!Reply

\* A step of a call that is not the last one of it.
LEMMA QuietStep ==
  ASSUME pc \notin {"return", "return0"}, pc' \notin {"return", "return0"},
         UNCHANGED <<image, call, Untorn>>
  PROVE  UNCHANGED Directory!dvars
  BY DEF Answered, Directory!dvars, Directory!image, image, Untorn

LEMMA DirectoryStep ==
  ASSUME AccessInv, AccessInv', Next
  PROVE  [Directory!DNext]_(Directory!dvars)
<1>1. CASE GetNextSector \/ ResetSearchTrackPosition \/ ClearTrackCache \/ SetSectorAccessFlags
  <2>1. pc = "idle" /\ pc' = "idle" /\ UNCHANGED <<image, call>>
    BY <1>1 DEF GetNextSector, ResetSearchTrackPosition, ClearTrackCache, SetSectorAccessFlags, work
  <2>2. call = NoCall
    BY <2>1 DEF AccessInv, Types, TypeOK
  <2>3. Directory!Tear
    BY <2>1, <2>2 DEF Directory!Tear, Answered, Directory!image, image
  <2> QED  BY <2>3 DEF Directory!DNext
<1>2. CASE Start
  <2>1. pc = "idle" /\ pc' \in {"rewind", "look"} /\ call' \in Calls /\ UNCHANGED <<image, cleared>>
    BY <1>2 DEF Start, Enter
  <2>2. call = NoCall
    BY <2>1 DEF AccessInv, Types, TypeOK
  <2>3. Directory!Ask
    BY <2>1, <2>2 DEF Directory!Ask, Answered, Directory!image, image
  <2> QED  BY <2>3 DEF Directory!DNext
<1>3. CASE Return
  <2>1. Directory!Finish
    BY <1>3 DEF Return, Directory!Finish, Answered, Directory!image, image
  <2> QED  BY <2>1 DEF Directory!DNext
<1>4. CASE WriteFound
  <2>1. /\ pc = "found" /\ call.fn = "write" /\ UNCHANGED <<tracks, call, cleared>>
        /\ lost' = [lost EXCEPT ![call.ts] = @ \union Overwritten(sector, call.size)]
        /\ pc' \in {"look", "return"}
    BY <1>4 DEF WriteFound, NextOrReturn
  <2>2. call.ts \in Present /\ call.ts \in TrackSides /\ call # NoCall
    BY <2>1 DEF AccessInv, Types, TypeOK, Searcher, Here
  <2>3. Directory!Overrun
    <3>1. Overwritten(sector, call.size) \in SUBSET tracks[call.ts]
      BY DEF Overwritten
    <3> QED  BY <2>1, <2>2, <3>1 DEF Directory!Overrun
  <2>4. CASE pc' = "look"
    <3>1. Directory!Write
      BY <2>1, <2>2, <2>3, <2>4 DEF Directory!Write, Answered
    <3> QED  BY <3>1 DEF Directory!DNext
  <2>5. CASE pc' = "return"
    <3>1. Clean' => lost'[call.ts] = lost[call.ts]
      <4>1. lost'[call.ts] = lost[call.ts] \union Overwritten(sector, call.size)
        BY <2>1, <2>2 DEF AccessInv, Types
      <4>2. Clean' => lost'[call.ts] = {}
        BY <2>1, <2>2 DEF Clean, Plain
      <4> QED  BY <4>1, <4>2
    <3>2. Directory!Reply
      BY <2>1, <2>3, <2>5, <3>1, ReplyStep DEF Untorn
    <3> QED  BY <3>2 DEF Directory!DNext
  <2> QED  BY <2>1, <2>4, <2>5
<1>5. CASE \/ Denied \/ OutOfRange \/ CacheHit \/ CacheMiss \/ Scan \/ Missing \/ SearchFound
           \/ ReadFound \/ ReadOtherSize \/ WriteOtherSector
           \/ Rewind \/ Pass \/ Merge \/ Listed
  <2>1. pc \notin {"idle", "return", "return0"} /\ UNCHANGED <<image, call>>
    BY <1>5 DEF Denied, OutOfRange, CacheHit, CacheMiss, Scan, Missing, SearchFound, ReadFound,
                ReadOtherSize, WriteOtherSector, Rewind, Pass, Merge, Listed
  <2>2. Untorn' = Untorn
    BY <2>1, TornStays
  <2>3. CASE pc' \in {"return", "return0"}
    <3>1. Directory!Reply
      BY <2>1, <2>2, <2>3, ReplyStep DEF image
    <3> QED  BY <3>1 DEF Directory!DNext
  <2>4. CASE pc' \notin {"return", "return0"}
    BY <2>1, <2>2, <2>4, QuietStep
  <2> QED  BY <2>3, <2>4
<1> QED
  BY <1>1, <1>2, <1>3, <1>4, <1>5 DEF Next, Step

\* The sector access implements SectorDirectory: every call on a plain track
\* is answered from the headers of the track alone, whatever the cursor and the
\* cache have kept of the calls before it, until a write
\* destroys a header or, for a search, a cache is torn.
THEOREM DirectoryImplemented == Spec => DirectoryKept
<1>1. Init => Directory!DInit
  BY DEF Init, Directory!DInit, Answered, Directory!TrackSides, TrackSides
<1>2. AccessInv /\ AccessInv' /\ [Next]_vars => [Directory!DNext]_(Directory!dvars)
  <2> SUFFICES ASSUME AccessInv, AccessInv', [Next]_vars PROVE [Directory!DNext]_(Directory!dvars)
    OBVIOUS
  <2>1. CASE UNCHANGED vars
    BY <2>1 DEF vars, work, image, Answered, Directory!dvars, Directory!image
  <2>2. CASE Next
    BY <2>2, DirectoryStep
  <2> QED  BY <2>1, <2>2
<1> QED
  BY InitAccess, AccessStep, <1>1, <1>2, PTL DEF Spec, DirectoryKept, Directory!DSpec

=============================================================================

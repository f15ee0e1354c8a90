------------------------- MODULE SectorAccessProofs -------------------------
(***************************************************************************)
(* Proofs about SectorAccess, for any number of tracks, layouts of the     *)
(* tracks, calls and size of the cache.                                    *)
(***************************************************************************)
EXTENDS SectorAccess, WellFoundedInduction, TLAPS

\* The track sides an access can be put to; a new one is on track 0.
Sides == TrackSides \union {c.ts : c \in Calls} \union {c.ts : c \in Cursors} \union {<<0, 0>>}

Access == [bitoffset : Nat \union {-1}, old_bitoffset : Nat \union {-1},
           cur : Sides, ignore_side : BOOLEAN]

\* The types, as far as the proofs need them.
Types ==
  /\ TypeOK
  /\ DOMAIN lost = TrackSides /\ DOMAIN cache = TrackSides
  /\ \A ts \in TrackSides : cache[ts] \in Seq(tracks[ts])
  /\ ss \in Access
  /\ pc \in {"scan", "found"} => call.ts \in TrackSides
  /\ pc = "found" => sector # None

(***************************************************************************)
(* The headers, the decoder and the cache of one track side.               *)
(***************************************************************************)
\* The first header of a set of headers is in it and before the others.
LEMMA Firsts ==
  ASSUME NEW l \in Layouts, NEW ts \in TrackSides, NEW S, S \subseteq l[ts]
  PROVE  \/ S = {} /\ First(S) = None
         \/ First(S) \in S /\ First(S) # None /\ \A t \in S : First(S).start <= t.start
<1>1. HasFirst(l[ts]) /\ None \notin l[ts]
  BY DirectoryAssumption
<1>2. CASE S = {}
  BY <1>2 DEF First
<1>3. CASE S # {}
  <2>1. \E s \in S : \A t \in S : s.start <= t.start
    BY <1>1, <1>3 DEF HasFirst
  <2>2. First(S) \in S /\ \A t \in S : First(S).start <= t.start
    BY <1>3, <2>1 DEF First
  <2> QED  BY <1>1, <2>2
<1> QED
  BY <1>2, <1>3

\* The decoder finds a header of its encoding, the first from a position on.
LEMMA Decoded ==
  ASSUME Types, NEW ts \in TrackSides, NEW e, NEW pos, NEW sc, sc = Decode(ts, e, pos)
  PROVE  \/ sc = None /\ \A t \in Coded(ts, e) : ~(t.start >= pos)
         \/ /\ sc # None /\ sc \in Coded(ts, e) /\ sc \in tracks[ts] /\ IsHeader(sc)
            /\ sc.start >= pos
            /\ \A t \in Coded(ts, e) : t.start >= pos => sc.start <= t.start
<1> DEFINE S == {s \in Coded(ts, e) : s.start >= pos}
<1>1. S \subseteq tracks[ts] /\ tracks \in Layouts
  BY DEF Coded, Live, Types, TypeOK
<1>2. \/ S = {} /\ First(S) = None
      \/ First(S) \in S /\ First(S) # None /\ \A t \in S : First(S).start <= t.start
  BY <1>1, Firsts
<1>3. \A s \in tracks[ts] : IsHeader(s)
  BY <1>1, DirectoryAssumption
<1> QED
  BY <1>1, <1>2, <1>3 DEF Decode

\* A fetch keeps the form of the access; a sector it returns was decoded.
LEMMA Nexts ==
  ASSUME Types, NEW s \in Access, NEW ts \in Sides, NEW e
  PROVE  LET nx == NextSector(s, ts, e)
         IN  /\ nx.ss \in Access /\ nx.ss.cur = ts
             /\ nx.sc # None => /\ ts \in Present /\ ~AtEnd(s)
                                /\ nx.sc = Decode(ts, e, From(s, ts))
                                /\ nx.ss.bitoffset = nx.sc.next
             /\ \/ nx.sc # None
                \/ nx.ss.bitoffset = -1
                \/ ts \notin Present /\ nx.ss.bitoffset = s.bitoffset
                \/ AtEnd(s) /\ nx.ss = [s EXCEPT !.cur = ts]
<1> DEFINE sc == Decode(ts, e, From(s, ts))
<1>1. sc = Decode(ts, e, From(s, ts))
  OBVIOUS
<1> HIDE DEF sc
<1>2. ts \in Present /\ sc # None => sc.next \in Nat
  <2>1. ts \in Present => ts \in TrackSides
    BY DirectoryAssumption
  <2> DEFINE pos == From(s, ts)
  <2>2. sc = Decode(ts, e, pos)
    BY <1>1
  <2> HIDE DEF pos
  <2>3. ASSUME ts \in Present PROVE sc = None \/ (sc # None /\ IsHeader(sc))
    <3>1. ts \in TrackSides
      BY <2>1, <2>3
    <3> QED  BY <2>2, <3>1, Decoded
  <2>4. IsHeader(sc) => sc.next \in Nat
    BY DEF IsHeader
  <2> QED  BY <2>3, <2>4
<1>3. NextSector(s, ts, e) =
        IF ts \notin Present \/ AtEnd(s)
        THEN [ss |-> [s EXCEPT !.cur = ts], sc |-> None]
        ELSE IF sc = None \/ sc.next = From(s, ts)
        THEN [ss |-> [s EXCEPT !.cur = ts, !.old_bitoffset = s.bitoffset, !.bitoffset = -1],
              sc |-> None]
        ELSE [ss |-> [s EXCEPT !.cur = ts, !.old_bitoffset = s.bitoffset, !.bitoffset = sc.next],
              sc |-> sc]
  BY DEF NextSector, sc
<1>4. CASE ts \notin Present \/ AtEnd(s)
  BY <1>3, <1>4 DEF Access
<1>5. CASE ~(ts \notin Present \/ AtEnd(s)) /\ (sc = None \/ sc.next = From(s, ts))
  <2> DEFINE r == [s EXCEPT !.cur = ts, !.old_bitoffset = s.bitoffset, !.bitoffset = -1]
  <2>1. r \in Access /\ r.cur = ts /\ r.bitoffset = -1
    BY DEF Access
  <2>2. NextSector(s, ts, e) = [ss |-> r, sc |-> None]
    BY <1>3, <1>5
  <2> HIDE DEF r
  <2> QED  BY <1>5, <1>1, <2>1, <2>2
<1>6. CASE ~(ts \notin Present \/ AtEnd(s)) /\ ~(sc = None \/ sc.next = From(s, ts))
  <2> DEFINE r == [s EXCEPT !.cur = ts, !.old_bitoffset = s.bitoffset, !.bitoffset = sc.next]
  <2>1. r \in Access /\ r.cur = ts /\ r.bitoffset = sc.next
    BY <1>2, <1>6 DEF Access
  <2>2. NextSector(s, ts, e) = [ss |-> r, sc |-> sc]
    BY <1>3, <1>6
  <2> HIDE DEF r
  <2> QED  BY <1>6, <1>1, <2>1, <2>2
<1> QED
  BY <1>4, <1>5, <1>6

\* The cache is extended at its end, and not beyond its size.
LEMMA Remembered ==
  ASSUME NEW S, NEW c \in Seq(S), Len(c) <= MaxCached, NEW sc, sc = None \/ sc \in S
  PROVE  LET r == Remember(c, sc)
         IN  /\ r \in Seq(S) /\ Len(r) <= MaxCached /\ Len(c) <= Len(r)
             /\ \A i \in 1 .. Len(c) : r[i] = c[i]
<1>1. CASE sc = None \/ Len(c) >= MaxCached \/ Cached(c, sc)
  BY <1>1 DEF Remember
<1>2. CASE ~(sc = None \/ Len(c) >= MaxCached \/ Cached(c, sc))
  <2>1. Remember(c, sc) = Append(c, sc) /\ sc \in S
    BY <1>2 DEF Remember
  <2>2. /\ Append(c, sc) \in Seq(S) /\ Len(Append(c, sc)) = Len(c) + 1
        /\ \A i \in 1 .. Len(c) : Append(c, sc)[i] = c[i]
        /\ Append(c, sc)[Len(c) + 1] = sc
    BY <2>1
  <2>3. Len(c) \in Nat /\ MaxCached \in Nat /\ Len(c) < MaxCached
    BY <1>2, AccessAssumption
  <2> QED  BY <1>2, <2>1, <2>2, <2>3
<1> QED
  BY <1>1, <1>2

\* When it is extended, and with what.
LEMMA RememberedLast ==
  ASSUME NEW S, NEW c \in Seq(S), Len(c) <= MaxCached, NEW sc, sc = None \/ sc \in S
  PROVE  \/ /\ sc = None \/ Len(c) >= MaxCached \/ Cached(c, sc)
            /\ Remember(c, sc) = c
         \/ /\ sc # None /\ ~(Len(c) >= MaxCached) /\ ~Cached(c, sc)
            /\ Len(Remember(c, sc)) = Len(c) + 1 /\ Remember(c, sc)[Len(c) + 1] = sc
<1>1. CASE sc = None \/ Len(c) >= MaxCached \/ Cached(c, sc)
  BY <1>1 DEF Remember
<1>2. CASE ~(sc = None \/ Len(c) >= MaxCached \/ Cached(c, sc))
  <2>1. Remember(c, sc) = Append(c, sc) /\ sc \in S
    BY <1>2 DEF Remember
  <2>2. Len(Append(c, sc)) = Len(c) + 1 /\ Append(c, sc)[Len(c) + 1] = sc
    BY <2>1
  <2> QED  BY <1>2, <2>1, <2>2
<1> QED
  BY <1>1, <1>2

LEMMA RememberedHere ==
  ASSUME Types, NEW ts \in TrackSides, NEW sc, sc = None \/ sc \in tracks[ts]
  PROVE  LET r == Remember(cache[ts], sc)
         IN  /\ r \in Seq(tracks[ts]) /\ Len(r) <= MaxCached /\ Len(cache[ts]) <= Len(r)
             /\ \A i \in 1 .. Len(cache[ts]) : r[i] = cache[ts][i]
<1>1. cache[ts] \in Seq(tracks[ts]) /\ Len(cache[ts]) <= MaxCached
  BY DEF Types, TypeOK
<1> QED
  BY <1>1, Remembered

\* What a fetch does.
LEMMA Fetched ==
  ASSUME Types, NEW s \in Access, NEW ts \in Sides, NEW e, Fetch(s, ts, e)
  PROVE  /\ ss' \in Access
         /\ DOMAIN cache' = TrackSides
         /\ \A k \in TrackSides : /\ cache'[k] \in Seq(tracks[k]) /\ Len(cache'[k]) <= MaxCached
                                  /\ Len(cache[k]) <= Len(cache'[k])
                                  /\ \A i \in 1 .. Len(cache[k]) : cache'[k][i] = cache[k][i]
         /\ \A k \in TrackSides : k # ts => cache'[k] = cache[k]
         /\ ts \in Present => cache'[ts] = Remember(cache[ts], NextSector(s, ts, e).sc)
         /\ ts \notin Present => cache' = cache
<1> DEFINE sc == NextSector(s, ts, e).sc
<1>1. ss' \in Access
  BY Nexts DEF Fetch
<1>2. ts \in Present => ts \in TrackSides
  BY DirectoryAssumption
<1>3. sc # None => sc = Decode(ts, e, From(s, ts)) /\ ts \in Present
  BY Nexts
<1> HIDE DEF sc
<1>4. ts \in Present => sc = None \/ sc \in tracks[ts]
  BY <1>2, <1>3, Decoded
<1> USE DEF sc
<1>5. cache' = IF ts \in Present THEN [cache EXCEPT ![ts] = Remember(@, sc)] ELSE cache
  BY DEF Fetch
<1>6. \A k \in TrackSides : cache[k] \in Seq(tracks[k]) /\ Len(cache[k]) <= MaxCached
  BY DEF Types, TypeOK
<1> HIDE DEF sc
<1>7. ts \in Present =>
        LET r == Remember(cache[ts], sc)
        IN  /\ r \in Seq(tracks[ts]) /\ Len(r) <= MaxCached /\ Len(cache[ts]) <= Len(r)
            /\ \A i \in 1 .. Len(cache[ts]) : r[i] = cache[ts][i]
  <2> SUFFICES ASSUME ts \in Present
               PROVE  LET r == Remember(cache[ts], sc)
                      IN  /\ r \in Seq(tracks[ts]) /\ Len(r) <= MaxCached
                          /\ Len(cache[ts]) <= Len(r)
                          /\ \A i \in 1 .. Len(cache[ts]) : r[i] = cache[ts][i]
    OBVIOUS
  <2>1. cache[ts] \in Seq(tracks[ts]) /\ Len(cache[ts]) <= MaxCached
    BY <1>2, <1>6
  <2>2. sc = None \/ sc \in tracks[ts]
    BY <1>4
  <2> QED  BY <1>2, <2>2, RememberedHere
<1>8. DOMAIN cache = TrackSides
  BY DEF Types
<1>9. CASE ts \in Present
  <2>1. cache' = [k \in TrackSides |-> IF k = ts THEN Remember(cache[ts], sc) ELSE cache[k]]
    BY <1>5, <1>8, <1>9
  <2>2. \A k \in TrackSides : Len(cache[k]) \in Nat
    BY <1>6
  <2> QED  BY <1>1, <1>2, <1>6, <1>7, <1>9, <2>1, <2>2 DEF sc
<1>10. CASE ts \notin Present
  <2>1. \A k \in TrackSides : Len(cache[k]) \in Nat
    BY <1>6
  <2> QED  BY <1>1, <1>5, <1>6, <1>8, <1>10, <2>1
<1> QED
  BY <1>9, <1>10

\* Every set of natural numbers that is not empty has a least element.
LEMMA LeastOf ==
  ASSUME NEW S, S \subseteq Nat, S # {}
  PROVE  \E m \in S : \A k \in S : m <= k
<1>1. PICK m \in S : \A k \in S : <<k, m>> \notin OpToRel(<, Nat)
  BY NatLessThanWellFounded, WFMin
<1>2. \A k \in S : ~(k < m)
  BY <1>1 DEF OpToRel
<1> QED
  BY <1>2

LEMMA EmptyCache == \A S : <<>> \in Seq(S) /\ Len(<<>>) = 0
  OBVIOUS

\* The cursor put somewhere has the form of an access.
LEMMA Placed ==
  ASSUME NEW s \in Access
  PROVE  /\ Rewound(s) \in Access
         /\ \A f \in BOOLEAN : [s EXCEPT !.ignore_side = f] \in Access
         /\ \A ts \in Sides, pos \in Nat : At(s, ts, pos) \in Access
  BY DEF Rewound, At, Access

\* The first hit is a hit, and the first.
LEMMA FirstHit ==
  ASSUME Types, NEW ts \in TrackSides, NEW id, Hits(ts, id) # {}
  PROVE  Hit(ts, id) \in Hits(ts, id) /\ \A j \in Hits(ts, id) : Hit(ts, id) <= j
<1>1. Hits(ts, id) \subseteq Nat
  BY DEF Hits, Types, TypeOK
<1>2. \E i \in Hits(ts, id) : \A j \in Hits(ts, id) : i <= j
  BY <1>1, LeastOf
<1> QED
  BY <1>2 DEF Hit

\* What a step that changes neither the image nor a sector found must keep.
LEMMA KeepTypes ==
  ASSUME Types, UNCHANGED image, ss' \in Access, DOMAIN cache' = TrackSides,
         \A ts \in TrackSides : cache'[ts] \in Seq(tracks[ts]) /\ Len(cache'[ts]) <= MaxCached,
         call' \in Calls \union {NoCall}, call' = NoCall <=> pc' = "idle",
         pc' \in {"scan", "found"} => call'.ts \in TrackSides,
         sector' # None => sector' \in tracks[call'.ts],
         pc' = "found" => sector' # None
  PROVE  Types'
<1>1. /\ tracks' = tracks /\ lost' = lost
  BY DEF image
<1>2. /\ ss'.bitoffset \in Nat \union {-1} /\ ss'.old_bitoffset \in Nat \union {-1}
  BY DEF Access
<1>3. \A ts \in TrackSides : \A i \in 1 .. Len(cache'[ts]) : cache'[ts][i] \in tracks[ts]
  OBVIOUS
<1>4. TypeOK'
  BY <1>1, <1>2, <1>3 DEF Types, TypeOK, Headers
<1> QED
  BY <1>1, <1>4 DEF Types

\* Every action keeps the types.
LEMMA TypesStep ==
  ASSUME Types, [Next]_vars
  PROVE  Types'
<1> USE DEF Types, TypeOK, Headers, image, work
<1>1. CASE GetNextSector
  <2>1. PICK c \in Cursors : Fetch(ss, c.ts, c.enc)
    BY <1>1 DEF GetNextSector
  <2>2. c.ts \in Sides
    BY DEF Sides
  <2>3. /\ ss' \in Access /\ DOMAIN cache' = TrackSides
        /\ \A ts \in TrackSides : cache'[ts] \in Seq(tracks[ts]) /\ Len(cache'[ts]) <= MaxCached
    BY <2>1, <2>2, Fetched
  <2>4. UNCHANGED <<image, call, badcrc, work>>
    BY <1>1 DEF GetNextSector
  <2> QED  BY <2>3, <2>4, KeepTypes
<1>2. CASE ResetSearchTrackPosition
  <2>1. ss' \in Access
    BY <1>2, Placed DEF ResetSearchTrackPosition
  <2>2. UNCHANGED <<image, call, cache, badcrc, work>>
    BY <1>2 DEF ResetSearchTrackPosition
  <2> QED  BY <2>1, <2>2, KeepTypes
<1>3. CASE ClearTrackCache
  <2>1. ss' \in Access
    BY <1>3 DEF ClearTrackCache
  <2>2. \A ts \in TrackSides : cache'[ts] = <<>>
    BY <1>3 DEF ClearTrackCache
  <2>3. \A ts \in TrackSides : cache'[ts] \in Seq(tracks[ts]) /\ Len(cache'[ts]) <= MaxCached
    <3>1. SUFFICES ASSUME NEW ts \in TrackSides
                   PROVE  cache'[ts] \in Seq(tracks[ts]) /\ Len(cache'[ts]) <= MaxCached
      OBVIOUS
    <3>2. cache'[ts] = <<>>
      BY <2>2
    <3>3. <<>> \in Seq(tracks[ts]) /\ Len(<<>>) = 0 /\ 0 <= MaxCached
      BY AccessAssumption, EmptyCache
    <3> QED  BY <3>2, <3>3
  <2>4. DOMAIN cache' = TrackSides /\ UNCHANGED <<image, call, badcrc, work>>
    BY <1>3 DEF ClearTrackCache
  <2> QED  BY <2>1, <2>3, <2>4, KeepTypes
<1>4. CASE SetSectorAccessFlags
  <2>1. ss' \in Access
    BY <1>4, Placed DEF SetSectorAccessFlags
  <2>2. UNCHANGED <<image, call, cache, badcrc, work>>
    BY <1>4 DEF SetSectorAccessFlags
  <2> QED  BY <2>1, <2>2, KeepTypes
<1>5. CASE Start
  <2>1. call' \in Calls /\ call' # NoCall
    BY <1>5, DirectoryAssumption DEF Start
  <2>2. pc' \in {"rewind", "look"} /\ sector' = None /\ UNCHANGED <<image, ss, cache>>
    BY <1>5 DEF Start, Enter
  <2> QED  BY <2>1, <2>2, KeepTypes
<1>6. CASE Denied
  BY <1>6 DEF Denied, InRange
<1>7. CASE OutOfRange
  <2>1. ss' \in Access
    BY <1>7, Placed DEF OutOfRange
  <2>2. pc' = "missing" /\ pc # "idle" /\ UNCHANGED <<image, call, cache, sector>>
    BY <1>7 DEF OutOfRange
  <2> QED  BY <2>1, <2>2, KeepTypes
<1>8. CASE CacheHit
  <2>1. call \in Calls /\ call.ts \in TrackSides /\ call.ts \in Sides
    BY <1>8 DEF CacheHit, InRange, Sides
  <2> DEFINE h == cache[call.ts][Hit(call.ts, Wanted)]
             s == At(ss, call.ts, h.start)
             sc == NextSector(s, call.ts, call.enc).sc
  <2>2. s \in Access
    <3>1. Hit(call.ts, Wanted) \in Hits(call.ts, Wanted)
      BY <1>8, <2>1, FirstHit DEF CacheHit
    <3>2. h \in tracks[call.ts]
      BY <2>1, <3>1 DEF Hits
    <3>3. h.start \in Nat
      BY <2>1, <3>2, DirectoryAssumption DEF IsHeader
    <3> QED  BY <2>1, <3>3, Placed
  <2>3. /\ Fetch(s, call.ts, call.enc) /\ pc = "look"
        /\ IF sc = None THEN pc' = "missing" /\ sector' = None
           ELSE pc' = "found" /\ sector' = sc
        /\ UNCHANGED <<image, call>>
    BY <1>8 DEF CacheHit
  <2> HIDE DEF h, s
  <2>4. /\ ss' \in Access /\ DOMAIN cache' = TrackSides
        /\ \A ts \in TrackSides : cache'[ts] \in Seq(tracks[ts]) /\ Len(cache'[ts]) <= MaxCached
    BY <2>1, <2>2, <2>3, Fetched
  <2>5. sc # None => sc = Decode(call.ts, call.enc, From(s, call.ts))
    BY <2>1, <2>2, Nexts
  <2> HIDE DEF sc
  <2>6. sc # None => sc \in tracks[call.ts]
    BY <2>1, <2>5, Decoded
  <2>7. /\ call' = call /\ call # NoCall /\ pc' # "idle"
        /\ sector' # None => sector' \in tracks[call.ts]
        /\ pc' = "found" => sector' # None
    BY <2>1, <2>3, <2>6, DirectoryAssumption
  <2> QED  BY <2>1, <2>3, <2>4, <2>7, KeepTypes
<1>9. CASE CacheMiss
  <2>1. call \in Calls /\ call.ts \in TrackSides /\ call.ts \in Sides
    BY <1>9 DEF CacheMiss, InRange, Sides
  <2>2. cache[call.ts] # <<>> => Resume(call.ts) \in Nat
    <3>1. SUFFICES ASSUME cache[call.ts] # <<>> PROVE Resume(call.ts) \in Nat
      OBVIOUS
    <3>2. cache[call.ts][Len(cache[call.ts])] \in tracks[call.ts]
      BY <2>1, <3>1
    <3> QED  BY <2>1, <3>2, DirectoryAssumption DEF IsHeader, Resume
  <2>3. ss' \in Access
    BY <1>9, <2>1, <2>2, Placed DEF CacheMiss
  <2>4. pc' = "scan" /\ UNCHANGED <<image, call, cache, sector>> /\ call # NoCall
    BY <1>9 DEF CacheMiss
  <2> QED  BY <2>1, <2>3, <2>4, KeepTypes
<1>10. CASE Scan
  <2>1. call \in Calls /\ call.ts \in TrackSides /\ call.ts \in Sides
    BY <1>10 DEF Scan, Sides
  <2> DEFINE sc == NextSector(ss, call.ts, call.enc).sc
  <2>2. /\ Fetch(ss, call.ts, call.enc) /\ pc = "scan"
        /\ \/ sc = None /\ pc' = "missing" /\ sector' = None
           \/ sc # None /\ pc' = "found" /\ sector' = sc
           \/ sc # None /\ pc' = "scan" /\ sector' = None
        /\ UNCHANGED <<image, call>>
    BY <1>10 DEF Scan
  <2>3. /\ ss' \in Access /\ DOMAIN cache' = TrackSides
        /\ \A ts \in TrackSides : cache'[ts] \in Seq(tracks[ts]) /\ Len(cache'[ts]) <= MaxCached
    BY <2>1, <2>2, Fetched
  <2>4. sc # None => sc = Decode(call.ts, call.enc, From(ss, call.ts))
    BY <2>1, Nexts
  <2> HIDE DEF sc
  <2>5. sc # None => sc \in tracks[call.ts]
    BY <2>1, <2>4, Decoded
  <2>6. /\ call' = call /\ call # NoCall /\ pc' # "idle"
        /\ sector' # None => sector' \in tracks[call.ts]
        /\ pc' = "found" => sector' # None
    BY <2>1, <2>2, <2>5, DirectoryAssumption
  <2> QED  BY <2>1, <2>2, <2>3, <2>6, KeepTypes
<1>11. CASE Missing
  BY <1>11 DEF Missing
<1>12. CASE SearchFound
  BY <1>12 DEF SearchFound
<1>13. CASE ReadFound
  BY <1>13 DEF ReadFound, NextOrReturn
<1>14. CASE ReadOtherSize
  BY <1>14 DEF ReadOtherSize
<1>15. CASE WriteFound
  <2>1. call \in Calls /\ call.ts \in TrackSides
    BY <1>15 DEF WriteFound
  <2>2. Overwritten(sector, call.size) \subseteq tracks[call.ts]
    BY DEF Overwritten
  <2>3. lost' = [ts \in TrackSides |->
                   IF ts = call.ts THEN lost[ts] \union Overwritten(sector, call.size)
                   ELSE lost[ts]]
    BY <1>15 DEF WriteFound
  <2>4. pc' \in {"look", "return"} /\ UNCHANGED <<tracks, call, ss, cache, sector>>
    BY <1>15 DEF WriteFound, NextOrReturn
  <2>5. TypeOK'
    BY <1>15, <2>1, <2>2, <2>3, <2>4 DEF WriteFound
  <2> QED  BY <2>3, <2>4, <2>5
<1>16. CASE WriteOtherSector
  BY <1>16 DEF WriteOtherSector
<1>17. CASE Rewind
  <2>1. ss' \in Access
    BY <1>17, Placed DEF Rewind
  <2>2. pc' = "pass" /\ pc # "idle" /\ UNCHANGED <<image, call, cache, sector>>
    BY <1>17 DEF Rewind
  <2> QED  BY <2>1, <2>2, KeepTypes
<1>18. CASE Pass
  <2>1. call \in Calls /\ call.ts \in Sides
    BY <1>18 DEF Pass, Sides
  <2>2. Fetch(ss, call.ts, Head(todo).enc) /\ pc' \in {"pass", "merge", "rewind"}
        /\ UNCHANGED <<image, call, sector>>
    BY <1>18 DEF Pass, AfterPass
  <2>3. /\ ss' \in Access /\ DOMAIN cache' = TrackSides
        /\ \A ts \in TrackSides : cache'[ts] \in Seq(tracks[ts]) /\ Len(cache'[ts]) <= MaxCached
    BY <2>1, <2>2, Fetched
  <2> QED  BY <2>1, <2>2, <2>3, DirectoryAssumption, KeepTypes
<1>19. CASE Merge
  BY <1>19 DEF Merge
<1>20. CASE Listed
  <2>1. ss' \in Access
    BY <1>20, Placed DEF Listed
  <2>2. pc' = "return" /\ pc # "idle" /\ UNCHANGED <<image, call, cache, sector>>
    BY <1>20 DEF Listed
  <2> QED  BY <2>1, <2>2, KeepTypes
<1>21. CASE Return
  BY <1>21 DEF Return
<1>22. CASE UNCHANGED vars
  BY <1>22 DEF vars
<1> QED
  BY <1>1, <1>2, <1>3, <1>4, <1>5, <1>6, <1>7, <1>8, <1>9, <1>10, <1>11,
     <1>12, <1>13, <1>14, <1>15, <1>16, <1>17, <1>18, <1>19, <1>20, <1>21,
     <1>22
     DEF Next, Step

(***************************************************************************)
(* A hit leads to the sector asked for, but for a stale or foreign header. *)
(***************************************************************************)
\* The decoder put at a header of its encoding finds this header.
LEMMA DecodedThere ==
  ASSUME Types, NEW ts \in TrackSides, NEW e, NEW h \in tracks[ts], h \notin lost[ts],
         h.enc = e, NEW sc, sc = Decode(ts, e, h.start)
  PROVE  sc = h
<1>1. h \in Coded(ts, e)
  BY DEF Coded, Live
<1>2. IsHeader(h) /\ tracks \in Layouts
  BY DirectoryAssumption DEF Types, TypeOK
<1>3. h.start \in Nat
  BY <1>2 DEF IsHeader
<1>4. /\ sc \in tracks[ts] /\ IsHeader(sc) /\ sc.start >= h.start
      /\ h.start >= h.start => sc.start <= h.start
  BY <1>1, <1>3, Decoded
<1>5. sc.start = h.start
  BY <1>3, <1>4 DEF IsHeader
<1> QED
  BY <1>2, <1>4, <1>5, DirectoryAssumption

LEMMA FoundStep ==
  ASSUME Types, Types', WrongOnlyAfterStaleHit, [Next]_vars
  PROVE  WrongOnlyAfterStaleHit'
<1>1. CASE CacheHit
  <2>1. call \in Calls /\ call.ts \in TrackSides /\ call.ts \in Sides
    BY <1>1 DEF CacheHit, InRange, Sides, Types, TypeOK
  <2> DEFINE k == Hit(call.ts, Wanted)
             h == cache[call.ts][k]
             s == At(ss, call.ts, h.start)
             sc == NextSector(s, call.ts, call.enc).sc
  <2>2. /\ k \in 1 .. Len(cache[call.ts]) /\ h.id = Wanted /\ h \in tracks[call.ts]
        /\ h.start \in Nat
    <3>1. k \in Hits(call.ts, Wanted)
      BY <1>1, <2>1, FirstHit DEF CacheHit
    <3>2. k \in 1 .. Len(cache[call.ts]) /\ h.id = Wanted
      BY <3>1 DEF Hits, Says
    <3>3. h \in tracks[call.ts]
      BY <2>1, <3>2 DEF Types, TypeOK, Headers
    <3>4. h.start \in Nat
      BY <2>1, <3>3, DirectoryAssumption DEF IsHeader, Types, TypeOK
    <3> QED  BY <3>2, <3>3, <3>4
  <2>3. s \in Access /\ From(s, call.ts) = h.start
    <3>1. s \in Access /\ s.cur = call.ts /\ s.bitoffset = h.start
      BY <2>1, <2>2 DEF At, Access, Types
    <3> QED  BY <2>2, <3>1 DEF From
  <2>4. /\ Fetch(s, call.ts, call.enc)
        /\ IF sc = None THEN pc' = "missing" ELSE pc' = "found" /\ sector' = sc
        /\ UNCHANGED <<image, call, got>>
    BY <1>1 DEF CacheHit
  <2>5. sc # None => sc = Decode(call.ts, call.enc, From(s, call.ts))
    BY <2>1, <2>3, Nexts
  <2>6. Len(cache[call.ts]) <= Len(cache'[call.ts]) /\ cache'[call.ts][k] = h
        /\ k \in 1 .. Len(cache'[call.ts])
    <3>1. /\ Len(cache[call.ts]) <= Len(cache'[call.ts])
          /\ \A i \in 1 .. Len(cache[call.ts]) : cache'[call.ts][i] = cache[call.ts][i]
      BY <2>1, <2>3, <2>4, Fetched
    <3>2. Len(cache[call.ts]) \in Nat /\ Len(cache'[call.ts]) \in Nat
      BY <2>1, <2>4 DEF Types, image
    <3> QED  BY <2>2, <3>1, <3>2
  <2> HIDE DEF s, sc, h, k
  <2>7. CASE h.enc = call.enc /\ h \notin lost[call.ts]
    <3>1. sc # None => sc = h
      BY <2>1, <2>2, <2>3, <2>5, <2>7, DecodedThere
    <3>2. Wanted' = Wanted
      BY <2>4 DEF Wanted
    <3> QED  BY <2>2, <2>4, <3>1, <3>2 DEF WrongOnlyAfterStaleHit
  <2>8. CASE ~(h.enc = call.enc /\ h \notin lost[call.ts])
    <3>1. Wanted' = Wanted /\ lost' = lost /\ call' = call
      BY <2>4 DEF Wanted, image
    <3> QED  BY <2>2, <2>6, <2>8, <3>1 DEF WrongOnlyAfterStaleHit
  <2> QED  BY <2>7, <2>8
<1>2. CASE Scan
  <2>1. pc' = "found" => sector'.id = Wanted
    BY <1>2 DEF Scan
  <2>2. Wanted' = Wanted
    BY <1>2 DEF Scan, Wanted
  <2> QED  BY <2>1, <2>2 DEF WrongOnlyAfterStaleHit
<1>3. CASE UNCHANGED vars
  <2>1. UNCHANGED <<pc, sector, call, got, cache, lost>>
    BY <1>3 DEF vars, work, image
  <2> QED  BY <2>1 DEF WrongOnlyAfterStaleHit, Wanted
<1>4. CASE Next /\ ~CacheHit /\ ~Scan
  <2>1. pc' # "found"
    BY <1>4 DEF Next, Step, GetNextSector, ResetSearchTrackPosition, ClearTrackCache, work,
       SetSectorAccessFlags, Start, Enter, Denied, OutOfRange, CacheMiss, Missing,
       SearchFound, ReadFound, NextOrReturn, ReadOtherSize, WriteFound, WriteOtherSector,
       Rewind, Pass, AfterPass, Merge, Listed, Return
  <2> QED  BY <2>1 DEF WrongOnlyAfterStaleHit
<1> QED
  BY <1>1, <1>2, <1>3, <1>4

-----------------------------------------------------------------------------
(***************************************************************************)
(* On a plain track the cache is the first part of the track.              *)
(***************************************************************************)
\* c holds the sectors of the track side from the first one on.
Gapless(c, ts) ==
  /\ \A i, j \in 1 .. Len(c) : i < j => c[i].start < c[j].start
  /\ \A i \in 1 .. Len(c) : \A t \in tracks[ts] :
       t.start < c[i].start => \E j \in 1 .. i : c[j] = t

\* The sectors the cursor has passed are cached, as long as there is room.
Passed(s, c, ts) ==
  s.cur = ts /\ ~AtEnd(s) /\ Len(c) < MaxCached =>
    \A t \in tracks[ts] : t.start < s.bitoffset => Cached(c, t)

\* Both, with the cursor at s.
Known(s) ==
  \A ts \in Present : Plain(ts) => Gapless(cache[ts], ts) /\ Passed(s, cache[ts], ts)

\* What a plain track of an image is.
LEMMA PlainTrack ==
  ASSUME Types, NEW ts \in Present, Plain(ts)
  PROVE  /\ ts \in TrackSides /\ ts \in Sides /\ lost[ts] = {}
         /\ cache[ts] \in Seq(tracks[ts]) /\ Len(cache[ts]) <= MaxCached
         /\ \A t \in tracks[ts] : t.start \in Nat /\ t.data \in Nat /\ t.next \in Nat
                                  /\ t.size \in Nat /\ t # None
         /\ \A t, u \in tracks[ts] :
              /\ t.start = u.start => t = u
              /\ t.start < u.start => t.data < u.start /\ t.next <= u.start
              /\ t.enc = u.enc
<1>1. ts \in TrackSides /\ ts \in Sides
  BY DirectoryAssumption DEF Sides
<1>2. tracks \in Layouts /\ cache[ts] \in Seq(tracks[ts]) /\ Len(cache[ts]) <= MaxCached
  BY <1>1 DEF Types, TypeOK
<1>3. \A t \in tracks[ts] : t.start \in Nat /\ t.data \in Nat /\ t.next \in Nat
                            /\ t.size \in Nat /\ t # None
  BY <1>1, <1>2, DirectoryAssumption DEF IsHeader
<1>4. /\ lost[ts] = {}
      /\ \A t, u \in tracks[ts] : t.start < u.start =>
                                    t.data + t.size < u.start /\ t.next <= u.start
      /\ \A t, u \in tracks[ts] : t.start = u.start => t = u
      /\ \A t, u \in tracks[ts] : t.enc = u.enc
  BY DEF Plain, Apart
<1>5. \A t, u \in tracks[ts] : t.start < u.start => t.data < u.start
  <2>1. SUFFICES ASSUME NEW t \in tracks[ts], NEW u \in tracks[ts], t.start < u.start
                 PROVE  t.data < u.start
    OBVIOUS
  <2>2. t.data + t.size < u.start /\ t.data \in Nat /\ t.size \in Nat /\ u.start \in Nat
    BY <1>3, <1>4, <2>1
  <2> QED  BY <2>2
<1> QED
  BY <1>1, <1>2, <1>3, <1>4, <1>5

\* A fetch finds the first sector that is not cached, or one that is.
LEMMA FetchPasses ==
  ASSUME Types, NEW ts \in Present, Plain(ts), NEW s \in Access, NEW e,
         Gapless(cache[ts], ts), Passed(s, cache[ts], ts),
         NEW nx, nx = NextSector(s, ts, e), NEW r, r = Remember(cache[ts], nx.sc)
  PROVE  Gapless(r, ts) /\ Passed(nx.ss, r, ts)
<1> DEFINE c == cache[ts]
           sc == nx.sc
<1>1. /\ ts \in TrackSides /\ ts \in Sides /\ lost[ts] = {}
      /\ c \in Seq(tracks[ts]) /\ Len(c) <= MaxCached /\ Len(c) \in Nat
  BY PlainTrack
<1>2. \A t \in tracks[ts] : t.start \in Nat /\ t.next \in Nat /\ t # None
  BY PlainTrack
<1>3. \A t, u \in tracks[ts] : /\ t.start = u.start => t = u
                               /\ t.start < u.start => t.next <= u.start
                               /\ t.enc = u.enc
  BY PlainTrack
<1>4. /\ nx.ss \in Access /\ nx.ss.cur = ts
      /\ sc # None => /\ ~AtEnd(s) /\ sc = Decode(ts, e, From(s, ts))
                      /\ nx.ss.bitoffset = sc.next
      /\ \/ sc # None
         \/ nx.ss.bitoffset = -1
         \/ AtEnd(s) /\ nx.ss = [s EXCEPT !.cur = ts]
  BY <1>1, Nexts
<1>5. Gapless(c, ts) /\ Passed(s, c, ts) /\ r = Remember(c, sc)
  OBVIOUS
<1> HIDE DEF c, sc
<1>6. CASE sc = None
  <2>1. r = c
    BY <1>5, <1>6 DEF Remember
  <2>2. CASE nx.ss.bitoffset = -1
    <3>1. \A t \in tracks[ts] : ~(t.start < nx.ss.bitoffset)
      BY <1>2, <2>2
    <3> QED  BY <1>5, <2>1, <3>1 DEF Passed
  <2>3. CASE AtEnd(s) /\ nx.ss = [s EXCEPT !.cur = ts]
    <3>1. AtEnd(nx.ss)
      BY <2>3 DEF AtEnd, Access
    <3> QED  BY <1>5, <2>1, <3>1 DEF Passed
  <2> QED  BY <1>4, <1>6, <2>2, <2>3
<1>7. CASE sc # None
  <2> DEFINE here == From(s, ts)
  <2>1. /\ sc \in Coded(ts, e) /\ sc \in tracks[ts] /\ sc.start >= here
        /\ \A t \in Coded(ts, e) : t.start >= here => sc.start <= t.start
    BY <1>1, <1>4, <1>7, Decoded
  <2>2. here \in Nat /\ (here = 0 \/ (s.cur = ts /\ here = s.bitoffset))
    BY DEF From, Access
  <2>3. \A t \in tracks[ts] : t \in Coded(ts, e)
    BY <1>1, <1>3, <2>1 DEF Coded, Live
  <2> HIDE DEF here
  <2>4. \A t \in tracks[ts] : t.start < sc.start /\ Len(c) < MaxCached => Cached(c, t)
    <3>1. SUFFICES ASSUME NEW t \in tracks[ts], t.start < sc.start, Len(c) < MaxCached
                   PROVE  Cached(c, t)
      OBVIOUS
    <3>2. t.start \in Nat /\ sc.start \in Nat
      BY <1>2, <2>1
    <3>3. t.start < here
      BY <2>1, <2>2, <2>3, <3>1, <3>2
    <3>4. s.cur = ts /\ here = s.bitoffset
      BY <2>2, <3>2, <3>3
    <3> QED  BY <1>4, <1>5, <1>7, <3>1, <3>3, <3>4 DEF Passed
  <2>5. Len(c) <= Len(r) /\ Len(r) \in Nat /\ \A i \in 1 .. Len(c) : r[i] = c[i]
    <3>1. sc = None \/ sc \in tracks[ts]
      BY <2>1
    <3>2. LET q == Remember(c, sc)
          IN  /\ q \in Seq(tracks[ts]) /\ Len(q) <= MaxCached /\ Len(c) <= Len(q)
              /\ \A i \in 1 .. Len(c) : q[i] = c[i]
      BY <1>1, <3>1, RememberedHere DEF c
    <3> QED  BY <1>1, <1>5, <3>2
  <2>6. Cached(r, sc) \/ ~(Len(r) < MaxCached)
    <3>1. CASE Len(c) >= MaxCached \/ Cached(c, sc)
      <4>1. r = c
        BY <1>5, <3>1 DEF Remember
      <4>2. CASE Len(c) >= MaxCached
        BY <1>1, <4>1, <4>2, AccessAssumption
      <4>3. CASE Cached(c, sc)
        BY <4>1, <4>3
      <4> QED  BY <3>1, <4>2, <4>3
    <3>2. CASE ~(Len(c) >= MaxCached) /\ ~Cached(c, sc)
      <4>1. Len(r) = Len(c) + 1 /\ r[Len(c) + 1] = sc
        BY <1>1, <1>5, <1>7, <2>1, <3>2, RememberedLast
      <4>2. Len(c) + 1 \in 1 .. Len(r)
        BY <1>1, <4>1
      <4> QED  BY <4>1, <4>2 DEF Cached
    <3> QED  BY <3>1, <3>2
  <2>7. Passed(nx.ss, r, ts)
    <3>1. SUFFICES ASSUME Len(r) < MaxCached, NEW t \in tracks[ts], t.start < sc.next
                   PROVE  Cached(r, t)
      BY <1>4, <1>7 DEF Passed
    <3>2. t.start = sc.start \/ t.start < sc.start
      <4>1. sc.start < t.start => sc.next <= t.start
        BY <1>3, <2>1
      <4>2. t.start \in Nat /\ sc.start \in Nat /\ sc.next \in Nat
        BY <1>2, <2>1
      <4> QED  BY <3>1, <4>1, <4>2
    <3>3. Len(c) < MaxCached /\ (\A u \in tracks[ts] : Cached(c, u) => Cached(r, u))
      <4>1. Len(c) <= Len(r) /\ Len(r) \in Nat /\ \A i \in 1 .. Len(c) : r[i] = c[i]
        BY <2>5
      <4>2. Len(c) < MaxCached
        BY <1>1, <3>1, <4>1, AccessAssumption
      <4>3. ASSUME NEW u \in tracks[ts], Cached(c, u)
            PROVE  Cached(r, u)
        <5>1. PICK i \in 1 .. Len(c) : c[i].start = u.start
          BY <4>3 DEF Cached
        <5>2. i \in 1 .. Len(r) /\ r[i] = c[i]
          BY <1>1, <4>1, <5>1
        <5> QED  BY <5>1, <5>2 DEF Cached
      <4> QED  BY <4>2, <4>3
    <3>4. Cached(r, sc)
      BY <2>6, <3>1
    <3>5. CASE t.start = sc.start
      BY <3>4, <3>5 DEF Cached
    <3>6. CASE t.start < sc.start
      BY <2>4, <3>3, <3>6
    <3> QED  BY <3>2, <3>5, <3>6
  <2>8. Gapless(r, ts)
    <3>1. CASE Len(c) >= MaxCached \/ Cached(c, sc)
      BY <1>5, <3>1 DEF Remember
    <3>2. CASE ~(Len(c) >= MaxCached) /\ ~Cached(c, sc)
      <4>1. /\ Len(r) = Len(c) + 1 /\ r[Len(c) + 1] = sc
            /\ \A i \in 1 .. Len(c) : r[i] = c[i]
        <5>1. Len(r) = Len(c) + 1 /\ r[Len(c) + 1] = sc
          BY <1>1, <1>5, <1>7, <2>1, <3>2, RememberedLast
        <5> QED  BY <2>5, <5>1
      <4>2. \A i \in 1 .. Len(c) : c[i] \in tracks[ts] /\ c[i].start < sc.start
        <5>1. SUFFICES ASSUME NEW i \in 1 .. Len(c)
                       PROVE  c[i] \in tracks[ts] /\ c[i].start < sc.start
          OBVIOUS
        <5>2. c[i] \in tracks[ts] /\ c[i].start \in Nat /\ sc.start \in Nat
          BY <1>1, <1>2, <2>1
        <5>3. ~(c[i].start = sc.start)
          BY <3>2 DEF Cached
        <5>4. ~(sc.start < c[i].start)
          <6>1. SUFFICES ASSUME sc.start < c[i].start PROVE FALSE
            OBVIOUS
          <6>2. PICK j \in 1 .. i : c[j] = sc
            BY <1>5, <2>1, <6>1 DEF Gapless
          <6>3. j \in 1 .. Len(c)
            BY <1>1
          <6> QED  BY <3>2, <6>2, <6>3 DEF Cached
        <5> QED  BY <5>2, <5>3, <5>4
      <4>3. \A i, j \in 1 .. Len(r) : i < j => r[i].start < r[j].start
        <5>1. SUFFICES ASSUME NEW i \in 1 .. Len(r), NEW j \in 1 .. Len(r), i < j
                       PROVE  r[i].start < r[j].start
          OBVIOUS
        <5>2. i \in 1 .. Len(c)
          BY <1>1, <4>1, <5>1
        <5>3. CASE j = Len(c) + 1
          BY <4>1, <4>2, <5>2, <5>3
        <5>4. CASE j # Len(c) + 1
          <6>1. j \in 1 .. Len(c)
            BY <1>1, <4>1, <5>4
          <6> QED  BY <1>5, <4>1, <5>1, <5>2, <6>1 DEF Gapless
        <5> QED  BY <5>3, <5>4
      <4>4. \A i \in 1 .. Len(r) : \A t \in tracks[ts] :
              t.start < r[i].start => \E j \in 1 .. i : r[j] = t
        <5>1. SUFFICES ASSUME NEW i \in 1 .. Len(r), NEW t \in tracks[ts],
                              t.start < r[i].start
                       PROVE  \E j \in 1 .. i : r[j] = t
          OBVIOUS
        <5>2. CASE i = Len(c) + 1
          <6>1. Cached(c, t)
            BY <1>1, <2>4, <3>2, <4>1, <5>1, <5>2, AccessAssumption
          <6>2. PICK j \in 1 .. Len(c) : c[j].start = t.start
            BY <6>1 DEF Cached
          <6>3. c[j] = t
            BY <1>3, <4>2, <6>2
          <6>4. j \in 1 .. i /\ r[j] = t
            BY <1>1, <4>1, <5>2, <6>3
          <6> QED  BY <6>4
        <5>3. CASE i # Len(c) + 1
          <6>1. i \in 1 .. Len(c)
            BY <1>1, <4>1, <5>3
          <6>2. PICK j \in 1 .. i : c[j] = t
            BY <1>5, <4>1, <5>1, <6>1 DEF Gapless
          <6>3. j \in 1 .. Len(c)
            BY <1>1, <6>1
          <6> QED  BY <4>1, <6>2, <6>3
        <5> QED  BY <5>2, <5>3
      <4> QED  BY <4>3, <4>4 DEF Gapless
    <3> QED  BY <3>1, <3>2
  <2> QED  BY <2>7, <2>8
<1> QED
  BY <1>6, <1>7

\* A fetch keeps what is known, whatever track side it is of.
LEMMA FetchKnown ==
  ASSUME Types, NEW s \in Access, NEW ts \in Sides, NEW e, Fetch(s, ts, e),
         UNCHANGED image,
         \A k \in Present : Plain(k) => /\ Gapless(cache[k], k)
                                        /\ k = ts => Passed(s, cache[k], k)
  PROVE  Known(ss)'
<1>1. \A k \in Present : Plain(k)' = Plain(k)
  BY DEF Plain, image, Apart
<1>2. ss' = NextSector(s, ts, e).ss
  BY DEF Fetch
<1>3. SUFFICES ASSUME NEW k \in Present, Plain(k)
               PROVE  Gapless(cache'[k], k) /\ Passed(ss', cache'[k], k)
  BY <1>1 DEF Known, Gapless, Passed, image, AtEnd, Cached
<1>4. Gapless(cache[k], k) /\ (k = ts => Passed(s, cache[k], k)) /\ k \in TrackSides
  BY <1>3, DirectoryAssumption
<1>5. CASE k = ts
  <2>1. cache'[k] = Remember(cache[k], NextSector(s, k, e).sc)
    BY <1>5, Fetched
  <2> QED  BY <1>2, <1>3, <1>4, <1>5, <2>1, FetchPasses
<1>6. CASE k # ts
  <2>1. cache'[k] = cache[k]
    BY <1>4, <1>6, Fetched
  <2>2. ss'.cur = ts
    BY <1>2, Nexts
  <2> QED  BY <1>4, <1>6, <2>1, <2>2 DEF Passed
<1> QED
  BY <1>5, <1>6

\* The places a cursor is put to have nothing behind them that is unknown.
LEMMA RewoundKnown ==
  ASSUME Types, NEW s \in Access, Known(ss)
  PROVE  Known(Rewound(s))
<1>1. SUFFICES ASSUME NEW ts \in Present, Plain(ts)
               PROVE  Passed(Rewound(s), cache[ts], ts)
  BY DEF Known
<1>2. \A t \in tracks[ts] : t.start \in Nat
  BY <1>1, PlainTrack
<1>3. Rewound(s).bitoffset = 0
  BY DEF Rewound, Access
<1> QED
  BY <1>2, <1>3 DEF Passed

LEMMA AtKnown ==
  ASSUME Types, Known(ss), NEW ts \in TrackSides, cache[ts] # <<>>,
         NEW pos, \/ pos = Resume(ts)
                  \/ \E i \in 1 .. Len(cache[ts]) : pos = cache[ts][i].start
  PROVE  Known(At(ss, ts, pos))
<1>1. SUFFICES ASSUME NEW k \in Present, Plain(k)
               PROVE  Passed(At(ss, ts, pos), cache[k], k)
  BY DEF Known
<1>2. At(ss, ts, pos).cur = ts /\ At(ss, ts, pos).bitoffset = pos
  BY DEF At, Types, Access
<1>3. CASE k # ts
  BY <1>2, <1>3 DEF Passed
<1>4. CASE k = ts
  <2> DEFINE c == cache[ts]
  <2>1. Gapless(c, ts) /\ c \in Seq(tracks[ts]) /\ c # <<>>
    BY <1>1, <1>4, PlainTrack DEF Known
  <2>2. \A t \in tracks[ts] : t.start \in Nat /\ t.data \in Nat
    BY <1>1, <1>4, PlainTrack
  <2>3. \A t, u \in tracks[ts] : t.start < u.start => t.data < u.start
    BY <1>1, <1>4, PlainTrack
  <2>4. Len(c) \in Nat /\ Len(c) > 0 /\ \A i \in 1 .. Len(c) : c[i] \in tracks[ts]
    BY <2>1
  <2>5. \A t, u \in tracks[ts] : t.start = u.start => t = u
    BY <1>1, <1>4, PlainTrack
  <2>6. Resume(ts) = c[Len(c)].data + 1
    BY DEF Resume
  <2>7. pos = Resume(ts) \/ \E i \in 1 .. Len(c) : pos = c[i].start
    OBVIOUS
  <2> HIDE DEF c
  <2>8. \A i \in 1 .. Len(c) : \A t \in tracks[ts] : t.start < c[i].start => Cached(c, t)
    <3>1. SUFFICES ASSUME NEW i \in 1 .. Len(c), NEW t \in tracks[ts], t.start < c[i].start
                   PROVE  Cached(c, t)
      OBVIOUS
    <3>2. PICK j \in 1 .. i : c[j] = t
      BY <2>1, <3>1 DEF Gapless
    <3>3. j \in 1 .. Len(c)
      BY <2>4
    <3> QED  BY <3>2, <3>3 DEF Cached
  <2>9. SUFFICES ASSUME NEW t \in tracks[ts], t.start < pos PROVE Cached(c, t)
    BY <1>2, <1>4 DEF Passed, c
  <2>10. CASE \E i \in 1 .. Len(c) : pos = c[i].start
    BY <2>8, <2>9, <2>10
  <2>11. CASE pos = Resume(ts)
    <3> DEFINE last == c[Len(c)]
    <3>1. last \in tracks[ts] /\ Len(c) \in 1 .. Len(c)
      BY <2>4
    <3>2. t.start \in Nat /\ last.start \in Nat /\ last.data \in Nat /\ t.start < last.data + 1
      BY <2>2, <2>9, <2>11, <2>6, <3>1
    <3>3. ~(last.start < t.start)
      <4>1. last.start < t.start => last.data < t.start
        BY <2>3, <3>1
      <4> HIDE DEF last
      <4> QED  BY <3>2, <4>1
    <3>4. CASE t.start = last.start
      BY <3>1, <3>4 DEF Cached
    <3>5. CASE t.start < last.start
      BY <2>8, <3>1, <3>5
    <3> HIDE DEF last
    <3> QED  BY <3>2, <3>3, <3>4, <3>5
  <2> QED  BY <2>10, <2>11, <2>7
<1> QED
  BY <1>3, <1>4

\* Nothing is cached, and nothing lies behind the cursor.
LEMMA EmptyKnown ==
  ASSUME Types, \A ts \in TrackSides : cache[ts] = <<>>, NEW s, ~(s.bitoffset > 0),
         s.bitoffset \in Nat \union {-1}
  PROVE  Known(s)
<1>1. SUFFICES ASSUME NEW ts \in Present, Plain(ts)
               PROVE  Gapless(<<>>, ts) /\ Passed(s, <<>>, ts)
  BY DirectoryAssumption DEF Known
<1>2. \A t \in tracks[ts] : t.start \in Nat
  BY <1>1, PlainTrack
<1>3. Len(<<>>) = 0
  OBVIOUS
<1> QED
  BY <1>2, <1>3 DEF Gapless, Passed

\* A step that leaves the caches and the cursor alone, or rewinds it.
LEMMA KeepKnown ==
  ASSUME Types, tracks' = tracks, cache' = cache, NEW s, ss' = s, Known(s),
         \A ts \in Present : lost'[ts] = {} => lost[ts] = {}
  PROVE  Known(ss)'
<1>1. \A ts \in Present : Plain(ts)' => Plain(ts)
  BY DEF Plain, Apart
<1> QED
  BY <1>1 DEF Known, Gapless, Passed, AtEnd, Cached

LEMMA KnownStep ==
  ASSUME Types, Known(ss), [Next]_vars, ~ClearTrackCache
  PROVE  Known(ss)'
<1>1. CASE GetNextSector
  <2>1. PICK c \in Cursors : Fetch(ss, c.ts, c.enc)
    BY <1>1 DEF GetNextSector
  <2>2. c.ts \in Sides /\ ss \in Access /\ UNCHANGED image
    BY <1>1 DEF GetNextSector, Sides, Types
  <2> QED  BY <2>1, <2>2, FetchKnown DEF Known
<1>2. CASE ResetSearchTrackPosition \/ OutOfRange \/ Rewind \/ Listed
  <2>1. ss' = Rewound(ss) /\ UNCHANGED <<image, cache>>
    BY <1>2 DEF ResetSearchTrackPosition, OutOfRange, Rewind, Listed
  <2>2. Known(Rewound(ss))
    BY RewoundKnown DEF Types
  <2> QED  BY <2>1, <2>2, KeepKnown DEF image
<1>4. CASE SetSectorAccessFlags
  <2>1. PICK f \in BOOLEAN : ss' = [ss EXCEPT !.ignore_side = f]
    BY <1>4 DEF SetSectorAccessFlags
  <2>2. ss'.cur = ss.cur /\ ss'.bitoffset = ss.bitoffset /\ ss'.old_bitoffset = ss.old_bitoffset
    BY <2>1 DEF Types, Access
  <2>3. UNCHANGED <<image, cache>>
    BY <1>4 DEF SetSectorAccessFlags
  <2>4. Known(ss')
    BY <2>2 DEF Known, Passed, AtEnd
  <2> QED  BY <2>3, <2>4, KeepKnown DEF image
<1>5. CASE CacheHit
  <2>1. call \in Calls /\ call.ts \in TrackSides /\ call.ts \in Sides
    BY <1>5 DEF CacheHit, InRange, Sides, Types, TypeOK
  <2> DEFINE k == Hit(call.ts, Wanted)
             s == At(ss, call.ts, cache[call.ts][k].start)
  <2>2. k \in 1 .. Len(cache[call.ts])
    BY <1>5, <2>1, FirstHit DEF CacheHit, Hits
  <2>3. cache[call.ts] # <<>>
    BY <2>2
  <2>4. Known(s)
    BY <2>1, <2>2, <2>3, AtKnown
  <2>5. s \in Access
    <3>1. cache[call.ts][k] \in tracks[call.ts]
      BY <2>1, <2>2 DEF Types, TypeOK, Headers
    <3>2. cache[call.ts][k].start \in Nat
      BY <2>1, <3>1, DirectoryAssumption DEF IsHeader, Types, TypeOK
    <3> QED  BY <2>1, <3>2, Placed DEF Types
  <2>6. Fetch(s, call.ts, call.enc) /\ UNCHANGED image
    BY <1>5 DEF CacheHit
  <2> HIDE DEF s
  <2> QED  BY <2>1, <2>4, <2>5, <2>6, FetchKnown DEF Known
<1>6. CASE CacheMiss
  <2>1. call.ts \in TrackSides /\ UNCHANGED <<image, cache>>
        /\ ss' = IF cache[call.ts] = <<>> THEN Rewound(ss) ELSE At(ss, call.ts, Resume(call.ts))
    BY <1>6 DEF CacheMiss, InRange
  <2>2. Known(ss')
    <3>1. CASE cache[call.ts] = <<>>
      <4>1. Known(Rewound(ss))
        BY RewoundKnown DEF Types
      <4> QED  BY <2>1, <3>1, <4>1
    <3>2. CASE cache[call.ts] # <<>>
      <4>1. Known(At(ss, call.ts, Resume(call.ts)))
        BY <2>1, <3>2, AtKnown
      <4> QED  BY <2>1, <3>2, <4>1
    <3> QED  BY <3>1, <3>2
  <2> QED  BY <2>1, <2>2, KeepKnown DEF image
<1>7. CASE Scan
  <2>1. Fetch(ss, call.ts, call.enc) /\ UNCHANGED image /\ call.ts \in Sides /\ ss \in Access
    BY <1>7 DEF Scan, Sides, Types
  <2> QED  BY <2>1, FetchKnown DEF Known
<1>8. CASE Pass
  <2>1. call \in Calls
    BY <1>8 DEF Pass, Types, TypeOK
  <2>2. Fetch(ss, call.ts, Head(todo).enc) /\ UNCHANGED image
        /\ call.ts \in Sides /\ ss \in Access
    BY <1>8, <2>1 DEF Pass, Sides, Types
  <2> QED  BY <2>2, FetchKnown DEF Known
<1>9. CASE WriteFound
  <2>1. /\ UNCHANGED <<tracks, ss, cache>>
        /\ lost' = [lost EXCEPT ![call.ts] = @ \union Overwritten(sector, call.size)]
    BY <1>9 DEF WriteFound
  <2>2. \A ts \in Present : lost'[ts] = {} => lost[ts] = {}
    BY <2>1, DirectoryAssumption DEF Types
  <2> QED  BY <2>1, <2>2, KeepKnown
<1>10. CASE \/ Start \/ Denied \/ Missing \/ SearchFound \/ ReadFound \/ ReadOtherSize
            \/ WriteOtherSector \/ Merge \/ Return \/ UNCHANGED vars
  <2>1. UNCHANGED <<image, ss, cache>>
    BY <1>10 DEF Start, Denied, Missing, SearchFound, ReadFound, ReadOtherSize,
                 WriteOtherSector, Merge, Return, vars
  <2> QED  BY <2>1, KeepKnown DEF image
<1> QED
  BY <1>1, <1>2, <1>4, <1>5, <1>6, <1>7, <1>8, <1>9, <1>10 DEF Next, Step

(***************************************************************************)
(* What the caches hold after they were cleared.                           *)
(***************************************************************************)
Blank == \A ts \in TrackSides : cache[ts] = <<>>

CachesKnown ==
  /\ cleared \in {"no", "loose", "torn"}
  /\ cleared = "no" => Known(ss)
  /\ cleared = "loose" => Blank /\ pc \notin {"scan", "pass"}

LEMMA EmptyNow == Types /\ Blank /\ ~(ss.bitoffset > 0) => Known(ss)
  BY EmptyKnown DEF Blank, Types, Access

\* What a search may rely on.
LEMMA WholeGapless ==
  ASSUME Types, CachesKnown, cleared # "torn", NEW ts \in Present, Plain(ts)
  PROVE  Gapless(cache[ts], ts)
<1>1. CASE cleared = "no"
  BY <1>1 DEF CachesKnown, Known
<1>2. CASE cleared = "loose"
  <2>1. cache[ts] = <<>> /\ Len(<<>>) = 0
    BY <1>2, DirectoryAssumption DEF CachesKnown, Blank
  <2> QED  BY <2>1 DEF Gapless
<1> QED
  BY <1>1, <1>2 DEF CachesKnown

LEMMA ClearKept ==
  ASSUME Types, Types', ClearTrackCache
  PROVE  CachesKnown'
<1>1. Blank' /\ pc' = "idle" /\ ss' = ss /\ cleared' = IF ss.bitoffset > 0 THEN "loose" ELSE "no"
  BY DEF ClearTrackCache, work, Blank
<1>2. CASE ss.bitoffset > 0
  BY <1>1, <1>2 DEF CachesKnown
<1>3. CASE ~(ss.bitoffset > 0)
  <2>1. (Types /\ Blank /\ ~(ss.bitoffset > 0) => Known(ss))'
    BY EmptyNow, PTL
  <2> QED  BY <1>1, <1>3, <2>1 DEF CachesKnown
<1> QED
  BY <1>2, <1>3

\* The steps that rewind the cursor.
LEMMA RewindKept ==
  ASSUME Types, CachesKnown, tracks' = tracks, lost' = lost, cache' = cache, ss' = Rewound(ss),
         cleared' = Reset
  PROVE  CachesKnown'
<1>1. Rewound(ss).bitoffset = 0
  BY DEF Rewound, Types, Access
<1>2. CASE cleared = "no"
  <2>1. Known(Rewound(ss))
    BY <1>2, RewoundKnown DEF CachesKnown, Types
  <2> QED  BY <1>2, <2>1, KeepKnown DEF CachesKnown, Reset
<1>3. CASE cleared = "loose"
  <2>1. Known(Rewound(ss))
    BY <1>1, <1>3, EmptyKnown DEF CachesKnown, Blank
  <2> QED  BY <1>3, <2>1, KeepKnown DEF CachesKnown, Reset
<1>4. CASE cleared = "torn"
  BY <1>4 DEF CachesKnown, Reset
<1> QED
  BY <1>2, <1>3, <1>4 DEF CachesKnown

\* A fetch after the caches were cleared.
LEMMA LooseFetch ==
  ASSUME Types, CachesKnown, cleared = "loose", NEW ts \in Sides, NEW e,
         Fetch(ss, ts, e), cleared' = Resumed(ts), UNCHANGED <<image, pc>>, pc = "idle"
  PROVE  CachesKnown'
<1> DEFINE sc == NextSector(ss, ts, e).sc
<1>1. Blank /\ ss \in Access
  BY DEF CachesKnown, Types
<1>2. CASE ts \notin Present
  <2>1. cache' = cache
    BY <1>2 DEF Fetch
  <2> QED  BY <1>1, <1>2, <2>1 DEF Resumed, CachesKnown, Blank
<1>3. CASE ts \in Present /\ AtEnd(ss)
  <2>1. sc = None
    BY <1>3 DEF NextSector
  <2>2. Remember(cache[ts], None) = cache[ts]
    BY DEF Remember
  <2>3. cache' = [cache EXCEPT ![ts] = Remember(@, sc)]
    BY <1>3 DEF Fetch
  <2>4. \A k \in TrackSides : cache'[k] = cache[k]
    BY <2>1, <2>2, <2>3 DEF Types
  <2> QED  BY <1>1, <1>3, <2>4 DEF Resumed, CachesKnown, Blank
<1>4. CASE ts \in Present /\ ~AtEnd(ss) /\ From(ss, ts) > 0
  BY <1>4 DEF Resumed, CachesKnown
<1>5. CASE ts \in Present /\ ~AtEnd(ss) /\ ~(From(ss, ts) > 0)
  <2>1. SUFFICES ASSUME NEW k \in Present, Plain(k)
                 PROVE  Gapless(cache[k], k) /\ (k = ts => Passed(ss, cache[k], k))
    <3>1. Known(ss)'
      BY <1>1, <2>1, FetchKnown
    <3> QED  BY <1>5, <3>1 DEF Resumed, CachesKnown
  <2>2. cache[k] = <<>> /\ \A t \in tracks[k] : t.start \in Nat
    BY <1>1, <2>1, PlainTrack DEF Blank
  <2>3. k = ts /\ ss.cur = ts => ~(ss.bitoffset > 0) /\ ss.bitoffset \in Nat \union {-1}
    BY <1>1, <1>5 DEF From, Access
  <2>4. Len(<<>>) = 0
    OBVIOUS
  <2> QED  BY <2>2, <2>3, <2>4 DEF Gapless, Passed
<1> QED
  BY <1>2, <1>3, <1>4, <1>5

LEMMA CachesKnownStep ==
  ASSUME Types, Types', CachesKnown, [Next]_vars
  PROVE  CachesKnown'
<1>1. CASE ClearTrackCache
  BY <1>1, ClearKept
<1>2. CASE ResetSearchTrackPosition \/ OutOfRange \/ Rewind \/ Listed
  <2>1. ss' = Rewound(ss) /\ UNCHANGED <<image, cache>> /\ cleared' = Reset
    BY <1>2 DEF ResetSearchTrackPosition, OutOfRange, Rewind, Listed
  <2> QED  BY <2>1, RewindKept DEF image
<1>3. CASE CacheMiss /\ cache[call.ts] = <<>>
  <2>1. ss' = Rewound(ss) /\ UNCHANGED <<image, cache>> /\ cleared' = Reset
    BY <1>3 DEF CacheMiss
  <2> QED  BY <2>1, RewindKept DEF image
<1>4. CASE /\ ~ClearTrackCache
           /\ ~(ResetSearchTrackPosition \/ OutOfRange \/ Rewind \/ Listed)
           /\ ~(CacheMiss /\ cache[call.ts] = <<>>)
  <2>1. GetNextSector \/ cleared' = cleared
    BY <1>4 DEF Next, Step, SetSectorAccessFlags, Start, Denied, CacheHit, CacheMiss, Scan,
       Missing, SearchFound, ReadFound, ReadOtherSize, WriteFound, WriteOtherSector, Pass,
       Merge, Return, vars
  <2>2. CASE cleared = "no"
    <3>1. cleared' = "no"
      BY <2>1, <2>2 DEF GetNextSector, Resumed
    <3>2. Known(ss)'
      BY <1>4, <2>2, KnownStep DEF CachesKnown
    <3> QED  BY <3>1, <3>2 DEF CachesKnown
  <2>3. CASE cleared = "torn"
    <3>1. cleared' = "torn"
      BY <2>1, <2>3 DEF GetNextSector, Resumed
    <3> QED  BY <3>1 DEF CachesKnown
  <2>4. CASE cleared = "loose"
    <3>1. Blank /\ pc \notin {"scan", "pass"}
      BY <2>4 DEF CachesKnown
    <3>2. CASE GetNextSector
      <4>1. PICK c \in Cursors : Fetch(ss, c.ts, c.enc) /\ cleared' = Resumed(c.ts)
        BY <3>2 DEF GetNextSector
      <4>2. c.ts \in Sides /\ pc = "idle" /\ UNCHANGED <<image, pc>>
        BY <3>2 DEF GetNextSector, Sides, work
      <4> QED  BY <2>4, <4>1, <4>2, LooseFetch
    <3>3. ~Scan /\ ~Pass
      BY <3>1 DEF Scan, Pass
    <3>4. ~CacheHit
      <4>1. SUFFICES ASSUME CacheHit PROVE FALSE
        OBVIOUS
      <4>2. call.ts \in TrackSides /\ Hits(call.ts, Wanted) # {}
        BY <4>1 DEF CacheHit, InRange
      <4>3. cache[call.ts] = <<>> /\ Len(<<>>) = 0
        BY <3>1, <4>2 DEF Blank
      <4> QED  BY <4>2, <4>3 DEF Hits
    <3>5. ~CacheMiss
      BY <1>4, <3>1 DEF CacheMiss, InRange, Blank
    <3>6. CASE ~GetNextSector
      <4>1. /\ cache' = cache
            /\ UNCHANGED pc \/ pc' \notin {"scan", "pass"}
        BY <1>4, <3>3, <3>4, <3>5, <3>6 DEF Next, Step, SetSectorAccessFlags, Start, Enter,
           Denied, Missing, SearchFound, ReadFound, NextOrReturn, ReadOtherSize, WriteFound,
           WriteOtherSector, Merge, Return, vars, work
      <4> QED  BY <2>1, <2>4, <3>1, <3>6, <4>1 DEF CachesKnown, Blank
    <3> QED  BY <3>2, <3>6
  <2> QED  BY <2>2, <2>3, <2>4 DEF CachesKnown
<1> QED
  BY <1>1, <1>2, <1>3, <1>4

-----------------------------------------------------------------------------
(***************************************************************************)
(* The invariant, and what follows from it.                                *)
(***************************************************************************)
LEMMA InitTypes == Init => Types
<1> SUFFICES ASSUME Init PROVE Types
  OBVIOUS
<1>1. ss \in Access
  BY DEF Init, Access, Sides
<1>2. \A ts \in TrackSides : cache[ts] = <<>> /\ lost[ts] = {}
  BY DEF Init
<1>3. \A ts \in TrackSides : cache[ts] \in Seq(tracks[ts]) /\ Len(cache[ts]) <= MaxCached
  <2>1. SUFFICES ASSUME NEW ts \in TrackSides
                 PROVE  cache[ts] \in Seq(tracks[ts]) /\ Len(cache[ts]) <= MaxCached
    OBVIOUS
  <2>2. <<>> \in Seq(tracks[ts]) /\ Len(<<>>) = 0 /\ 0 <= MaxCached
    BY AccessAssumption, EmptyCache
  <2> QED  BY <1>2, <2>2
<1>4. \A ts \in TrackSides : \A i \in 1 .. Len(cache[ts]) : cache[ts][i] \in tracks[ts]
  BY <1>3
<1>5. ss.bitoffset \in Nat \union {-1} /\ ss.old_bitoffset \in Nat \union {-1}
  BY <1>1 DEF Access
<1>6. TypeOK
  BY <1>2, <1>3, <1>4, <1>5 DEF Init, TypeOK, Headers
<1> QED
  BY <1>1, <1>3, <1>6 DEF Types, Init

LEMMA InitKnown == Init => Known(ss)
<1> SUFFICES ASSUME Init PROVE Known(ss)
  OBVIOUS
<1>1. Types
  BY InitTypes
<1>2. SUFFICES ASSUME NEW ts \in Present, Plain(ts)
               PROVE  Gapless(cache[ts], ts) /\ Passed(ss, cache[ts], ts)
  BY DEF Known
<1>3. \A t \in tracks[ts] : t.start \in Nat
  BY <1>1, <1>2, PlainTrack
<1>4. ss.bitoffset = 0 /\ cache[ts] = <<>>
  BY DirectoryAssumption DEF Init
<1>5. Len(<<>>) = 0
  OBVIOUS
<1> QED
  BY <1>3, <1>4, <1>5 DEF Gapless, Passed

\* An access always has the types TypeOK states: every cached header is one
\* of its track, and no cache is longer than MAX_CACHED_SECTOR.
THEOREM AccessTypes == Spec => []TypeOK
<1>1. Types /\ [Next]_vars => Types'
  BY TypesStep
<1>2. Types => TypeOK
  BY DEF Types
<1> QED
  BY InitTypes, <1>1, <1>2, PTL DEF Spec

\* A search that goes to a cached header (536) finds another sector than the
\* one asked for only when the header is of another encoding or is gone.
THEOREM HitsMislead == Spec => []WrongOnlyAfterStaleHit
<1>1. Init => Types /\ WrongOnlyAfterStaleHit
  BY InitTypes DEF Init, WrongOnlyAfterStaleHit
<1>2. Types /\ WrongOnlyAfterStaleHit /\ [Next]_vars => (Types /\ WrongOnlyAfterStaleHit)'
  BY TypesStep, FoundStep
<1> QED
  BY <1>1, <1>2, PTL DEF Spec

\* On a plain track the cache is gapless and in order (263-285), so a search
\* that hits nothing may go on behind the header cached last (548), unless the
\* program cleared the caches (493) and fetched on without rewinding.
THEOREM CacheIsGapless == Spec => []CacheGapless
<1>1. Types /\ CachesKnown /\ [Next]_vars => (Types /\ CachesKnown)'
  BY TypesStep, CachesKnownStep
<1>2. Types /\ CachesKnown => CacheGapless
  BY WholeGapless DEF CacheGapless, Gapless
<1>3. Init => CachesKnown
  BY InitKnown DEF Init, CachesKnown
<1> QED
  BY InitTypes, <1>1, <1>2, <1>3, PTL DEF Spec

=============================================================================

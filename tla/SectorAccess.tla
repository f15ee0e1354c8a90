---------------------------- MODULE SectorAccess ----------------------------
(***************************************************************************)
(* The sector access of libhxcfe (sector_extractor.c): a cursor over the   *)
(* headers of a track and, per track side, a cache of the headers met,     *)
(* which later searches start from.  One thread uses an access; a call is  *)
(* a sequence of steps here because it fetches sectors in a loop.          *)
(***************************************************************************)
EXTENDS SectorTrack

CONSTANTS
  Encodings,  (* the track encodings                                       *)
  MaxCached,  (* MAX_CACHED_SECTOR                                         *)
  Cursors     (* the calls of hxcfe_getNextSector: [ts, enc]               *)

ASSUME AccessAssumption == MaxCached \in Nat \ {0} /\ {"mfm", "fm"} \subseteq Encodings

\* A call names an encoding and asks for one sector at least.
ASSUME CallAssumption ==
  \A c \in Calls : c.enc \in Encodings /\ c.id \in Nat /\ c.n \in Nat \ {0}

VARIABLES
  ss,      (* HXCFE_SECTORACCESS: bitoffset, old_bitoffset, cur (the track *)
           (* side), ignore_side (a bit of flags)                          *)
  cache,   (* track_cache: the headers met on each track side              *)
  badcrc,  (* the headers whose data do not match their CRC                *)
  pc,      (* where the call under way is                                  *)
  sector,  (* the sector the search of the call found                      *)
  got,     (* the sectors handed over so far                               *)
  status,  (* fdcstatus                                                    *)
  todo,    (* listings: the passes over the track that are left            *)
  tally,   (* listings: the sectors counted                                *)
  held,    (* listings: the sectors collected, per encoding                *)
  ended,   (* history: "no"; "met", the cursor met the end of its track;   *)
           (* "assumed", a fetch took it for granted                       *)
  cleared  (* history: "loose", the caches were cleared and the cursor is  *)
           (* still behind the start of a track; "torn", a fetch went on   *)
           (* from there, so that a cache lacks the headers before; "no"   *)

work == <<pc, sector, got, status, todo, tally, held>>
vars == <<image, call, ss, cache, badcrc, work, ended, cleared>>

NothingHeld == [e \in Encodings |-> <<>>]

\* The sector a decoder finds from a position on; it goes on at its .next.
Decode(ts, e, pos) == First({s \in Coded(ts, e) : s.start >= pos})

-----------------------------------------------------------------------------
(***************************************************************************)
(* hxcfe_getNextSector: the cursor after it and the sector it returns.     *)
(***************************************************************************)
\* Mutant of From: the position is kept when the track changes.
FromAnywhere(s, ts) == IF s.bitoffset = -1 THEN 0 ELSE s.bitoffset

From(s, ts) == IF s.bitoffset = -1 \/ s.cur # ts THEN 0 ELSE s.bitoffset

AtEnd(s) == s.old_bitoffset > s.bitoffset

NextSector(s, ts, e) ==
  LET here == From(s, ts)
      sc   == Decode(ts, e, here)
  IN IF ts \notin Present \/ AtEnd(s)
     THEN [ss |-> [s EXCEPT !.cur = ts], sc |-> None]
     ELSE IF sc = None \/ sc.next = here
     THEN [ss |-> [s EXCEPT !.cur = ts, !.old_bitoffset = s.bitoffset, !.bitoffset = -1],
           sc |-> None]
     ELSE [ss |-> [s EXCEPT !.cur = ts, !.old_bitoffset = s.bitoffset, !.bitoffset = sc.next],
           sc |-> sc]

Cached(c, sc) == \E i \in 1 .. Len(c) : c[i].start = sc.start

\* Mutant of Remember: a header that is cached already is cached again.
RememberTwice(c, sc) ==
  IF sc = None \/ Len(c) >= MaxCached THEN c ELSE Append(c, sc)

\* Mutant of Remember: one sector too many.
RememberOneMore(c, sc) ==
  IF sc = None \/ Len(c) > MaxCached \/ Cached(c, sc) THEN c ELSE Append(c, sc)

Remember(c, sc) ==
  IF sc = None \/ Len(c) >= MaxCached \/ Cached(c, sc) THEN c ELSE Append(c, sc)

\* What a fetch finds out about the end of the track.
EndSeen(s, ts, e) ==
  LET sc == Decode(ts, e, From(s, ts))
  IN IF ts \notin Present THEN ended
     ELSE IF AtEnd(s) THEN IF ended = "met" /\ s.cur = ts THEN "met" ELSE "assumed"
     ELSE IF sc = None \/ sc.next <= From(s, ts) THEN "met" ELSE "no"

\* Fetch the next sector with the cursor at s.
Fetch(s, ts, e) ==
  /\ ended' = EndSeen(s, ts, e)
  /\ ss' = NextSector(s, ts, e).ss
  /\ cache' = IF ts \in Present
              THEN [cache EXCEPT ![ts] = Remember(@, NextSector(s, ts, e).sc)]
              ELSE cache

\* Mutant of Rewound: the position of the fetch before is not reset.
RewoundHalf(s) == [s EXCEPT !.bitoffset = 0]

\* hxcfe_resetSearchTrackPosition
Rewound(s) == [s EXCEPT !.bitoffset = 0, !.old_bitoffset = 0]

\* A cursor that is rewound is at the start again; a gap in a cache stays.
Reset == IF cleared = "loose" THEN "no" ELSE cleared

\* The cursor put at a position of a track side (hxcfe_searchSector).
At(s, ts, pos) == [s EXCEPT !.cur = ts, !.bitoffset = pos, !.old_bitoffset = pos]

Init ==
  /\ tracks \in Layouts /\ lost = [ts \in TrackSides |-> {}] /\ call = NoCall
  /\ ss = [bitoffset |-> 0, old_bitoffset |-> 0, cur |-> <<0, 0>>, ignore_side |-> FALSE]
  /\ cache = [ts \in TrackSides |-> <<>>]
  /\ badcrc = [ts \in TrackSides |-> {}]
  /\ pc = "idle" /\ sector = None /\ got = <<>> /\ status = "FDC_NOERROR"
  /\ todo = <<>> /\ tally = 0 /\ held = NothingHeld /\ ended = "no"
  /\ cleared = "no"

-----------------------------------------------------------------------------
(***************************************************************************)
(* The calls that are one step.                                            *)
(***************************************************************************)
\* What a fetch of track side ts does to a cache that was cleared.
Resumed(ts) ==
  IF cleared # "loose" \/ ts \notin Present \/ AtEnd(ss) THEN cleared
  ELSE IF From(ss, ts) > 0 THEN "torn" ELSE "no"

GetNextSector ==
  /\ pc = "idle"
  /\ \E c \in Cursors : Fetch(ss, c.ts, c.enc) /\ cleared' = Resumed(c.ts)
  /\ UNCHANGED <<image, call, badcrc, work>>

ResetSearchTrackPosition ==
  /\ pc = "idle" /\ ss' = Rewound(ss) /\ ended' = "no" /\ cleared' = Reset
  /\ UNCHANGED <<image, call, cache, badcrc, work>>

\* hxcfe_clearTrackCache leaves the cursor where it is; its one caller in the
\* repository resets it next (hxcfe_localRepair, trackeditor.c 1293-1294).
ClearTrackCache ==
  /\ pc = "idle" /\ cache' = [ts \in TrackSides |-> <<>>]
  /\ cleared' = IF ss.bitoffset > 0 THEN "loose" ELSE "no"
  /\ UNCHANGED <<image, call, ss, badcrc, work, ended>>

SetSectorAccessFlags ==
  /\ pc = "idle" /\ \E f \in BOOLEAN : ss' = [ss EXCEPT !.ignore_side = f]
  /\ UNCHANGED <<image, call, cache, badcrc, work, ended, cleared>>

-----------------------------------------------------------------------------
\* The passes of a listing, and the first step of a call.
Passes(c) ==
  CASE c.fn = "list" -> <<[do |-> "count", enc |-> c.enc], [do |-> "take", enc |-> c.enc]>>
    [] c.fn = "listiso" -> <<[do |-> "count", enc |-> "mfm"], [do |-> "count", enc |-> "fm"],
                             [do |-> "take", enc |-> "fm"], [do |-> "take", enc |-> "mfm"]>>
    [] OTHER -> <<>>

InRange(ts) == ts \in TrackSides

Enter(c) == IF c.fn \in {"list", "listiso"} THEN "rewind" ELSE "look"

Start ==
  /\ pc = "idle" /\ call' \in Calls
  /\ pc' = Enter(call') /\ sector' = None /\ got' = <<>>
  /\ status' = "FDC_NOERROR"
  /\ todo' = Passes(call') /\ tally' = 0 /\ held' = NothingHeld
  /\ UNCHANGED <<image, ss, cache, badcrc, ended, cleared>>

Return ==
  /\ pc \in {"return", "return0"} /\ pc' = "idle" /\ call' = NoCall
  /\ sector' = None /\ got' = <<>> /\ status' = "FDC_NOERROR" /\ tally' = 0 /\ held' = NothingHeld
  /\ todo' = <<>>
  /\ UNCHANGED <<image, ss, cache, badcrc, ended, cleared>>

\* The sector a read or a write asks for next, or the one a search asks for.
Wanted == call.id + (IF call.fn = "search" THEN 0 ELSE Len(got))

(***************************************************************************)
(* hxcfe_searchSector.  A cached header that says the right things is gone *)
(* to; otherwise the search goes on behind the header cached last.         *)
(***************************************************************************)
\* Mutant of Says: the sector number is not compared.
SaysTrackOnly(s, h, ts, id) ==
  h.cyl = ts[1] /\ (h.head = ts[2] \/ s.ignore_side)

Says(s, h, ts, id) ==
  h.id = id /\ h.cyl = ts[1] /\ (h.head = ts[2] \/ s.ignore_side)

Hits(ts, id) == {i \in 1 .. Len(cache[ts]) : Says(ss, cache[ts][i], ts, id)}

Hit(ts, id) == CHOOSE i \in Hits(ts, id) : \A j \in Hits(ts, id) : i <= j

Resume(ts) == cache[ts][Len(cache[ts])].data + 1

\* Reads and writes test the track and the side themselves.
Denied ==
  /\ pc = "look" /\ ~InRange(call.ts) /\ call.fn # "search"
  /\ status' = "FDC_ACCESS_ERROR" /\ pc' = "return"
  /\ UNCHANGED <<image, call, ss, cache, badcrc, sector, got, todo, tally, held, ended, cleared>>

OutOfRange ==
  /\ pc = "look" /\ ~InRange(call.ts) /\ call.fn = "search"
  /\ ss' = Rewound(ss) /\ ended' = "no" /\ cleared' = Reset /\ pc' = "missing"
  /\ UNCHANGED <<image, call, cache, badcrc, sector, got, status, todo, tally, held>>

CacheHit ==
  /\ pc = "look" /\ InRange(call.ts) /\ Hits(call.ts, Wanted) # {}
  /\ \E s \in {At(ss, call.ts, cache[call.ts][Hit(call.ts, Wanted)].start)} :
        /\ Fetch(s, call.ts, call.enc)
        /\ LET sc == NextSector(s, call.ts, call.enc).sc
           IN IF sc = None THEN pc' = "missing" /\ sector' = None
              ELSE pc' = "found" /\ sector' = sc
  /\ UNCHANGED <<image, call, badcrc, got, status, todo, tally, held, cleared>>

CacheMiss ==
  /\ pc = "look" /\ InRange(call.ts) /\ Hits(call.ts, Wanted) = {}
  /\ IF cache[call.ts] = <<>> THEN ss' = Rewound(ss) /\ cleared' = Reset
     ELSE ss' = At(ss, call.ts, Resume(call.ts)) /\ UNCHANGED cleared
  /\ pc' = "scan" /\ ended' = "no"
  /\ UNCHANGED <<image, call, cache, badcrc, sector, got, status, todo, tally, held>>

Scan ==
  /\ pc = "scan" /\ Fetch(ss, call.ts, call.enc)
  /\ LET sc == NextSector(ss, call.ts, call.enc).sc
     IN \/ sc = None /\ pc' = "missing" /\ sector' = None
        \/ sc # None /\ sc.id = Wanted /\ pc' = "found" /\ sector' = sc
        \/ sc # None /\ sc.id # Wanted /\ pc' = "scan" /\ sector' = None
  /\ UNCHANGED <<image, call, badcrc, got, status, todo, tally, held, cleared>>

-----------------------------------------------------------------------------
(***************************************************************************)
(* What a call does with the sector found, or without one.                 *)
(***************************************************************************)
Missing ==
  /\ pc = "missing" /\ pc' = "return"
  /\ status' = IF call.fn = "search" THEN status ELSE "FDC_SECTOR_NOT_FOUND"
  /\ UNCHANGED <<image, call, ss, cache, badcrc, sector, got, todo, tally, held, ended, cleared>>

SearchFound ==
  /\ pc = "found" /\ call.fn = "search" /\ got' = <<sector>> /\ pc' = "return"
  /\ UNCHANGED <<image, call, ss, cache, badcrc, sector, status, todo, tally, held, ended, cleared>>

\* On to the next sector of a read or a write of n sectors.
NextOrReturn(n) == IF n < call.n THEN "look" ELSE "return"

\* Mutant of ReadStatus: a sector without data is taken for read.
ReadStatusOfCrc(s) == IF s.start \in badcrc[call.ts] THEN "FDC_BAD_DATA_CRC" ELSE status

\* hxcfe_readSectorData
ReadStatus(s) == IF s.start \in badcrc[call.ts] THEN "FDC_BAD_DATA_CRC"
                 ELSE IF ~s.has THEN "FDC_NO_DATA" ELSE status

ReadFound ==
  /\ pc = "found" /\ call.fn = "read" /\ sector.size = call.size
  /\ got' = Append(got, sector) /\ status' = ReadStatus(sector)
  /\ pc' = NextOrReturn(Len(got) + 1)
  /\ UNCHANGED <<image, call, ss, cache, badcrc, sector, todo, tally, held, ended, cleared>>

ReadOtherSize ==
  /\ pc = "found" /\ call.fn = "read" /\ sector.size # call.size /\ pc' = "return0"
  /\ UNCHANGED <<image, call, ss, cache, badcrc, sector, got, status, todo, tally, held, ended, cleared>>

(***************************************************************************)
(* hxcfe_writeSectorData writes call.size bytes and their CRC behind the   *)
(* data mark of the sector, whatever the size of the sector; at the end of *)
(* the track it goes on at its start (bintomfm).                           *)
(***************************************************************************)
Overwritten(s, size) ==
  {t \in tracks[call.ts] : \E k \in 1 .. size : t.start = (s.data + k) % TrackLength}

WriteFound ==
  /\ pc = "found" /\ call.fn = "write"
  /\ sector.id >= call.id /\ sector.id < call.id + call.n
  /\ lost' = [lost EXCEPT ![call.ts] = @ \union Overwritten(sector, call.size)]
  /\ badcrc' = [badcrc EXCEPT ![call.ts] =
                  IF sector.size = call.size THEN @ \ {sector.start} ELSE @ \union {sector.start}]
  /\ got' = Append(got, sector) /\ pc' = NextOrReturn(Len(got) + 1)
  /\ UNCHANGED <<tracks, call, ss, cache, sector, status, todo, tally, held, ended, cleared>>

WriteOtherSector ==
  /\ pc = "found" /\ call.fn = "write"
  /\ ~(sector.id >= call.id /\ sector.id < call.id + call.n) /\ pc' = "look"
  /\ UNCHANGED <<image, call, ss, cache, badcrc, sector, got, status, todo, tally, held, ended, cleared>>

-----------------------------------------------------------------------------
(***************************************************************************)
(* hxcfe_getAllTrackSectors and hxcfe_getAllTrackISOSectors: passes over   *)
(* the track that count the sectors, then passes that collect them.        *)
(***************************************************************************)
Rewind ==
  /\ pc = "rewind" /\ ss' = Rewound(ss) /\ ended' = "no" /\ cleared' = Reset /\ pc' = "pass"
  /\ UNCHANGED <<image, call, cache, badcrc, sector, got, status, todo, tally, held>>

\* Where the listing goes when the passes left are ps.
AfterPass(ps) ==
  IF ps = <<>> \/ (Head(ps).do = "take" /\ tally = 0) THEN "merge" ELSE "rewind"

Pass ==
  /\ pc = "pass"
  /\ LET p  == Head(todo)
         sc == NextSector(ss, call.ts, p.enc).sc
     IN /\ Fetch(ss, call.ts, p.enc)
        /\ \/ sc = None /\ todo' = Tail(todo) /\ pc' = AfterPass(Tail(todo))
              /\ UNCHANGED <<tally, held>>
           \/ sc # None /\ p.do = "count" /\ tally' = tally + 1
              /\ UNCHANGED <<todo, pc, held>>
           \/ sc # None /\ p.do = "take" /\ held' = [held EXCEPT ![p.enc] = Append(@, sc)]
              /\ UNCHANGED <<todo, pc, tally>>
  /\ UNCHANGED <<image, call, badcrc, sector, got, status, cleared>>

\* Mutant of Nearest: the other encoding goes first.
FurthestFirst(fm, mfm) == IF fm # <<>> /\ mfm # <<>>
                          THEN IF Head(fm).start < Head(mfm).start THEN "mfm" ELSE "fm"
                          ELSE IF fm # <<>> THEN "fm" ELSE "mfm"

\* The array that the next sector of the merged list is taken from.
Nearest(fm, mfm) == IF fm # <<>> /\ mfm # <<>>
                    THEN IF Head(fm).start < Head(mfm).start THEN "fm" ELSE "mfm"
                    ELSE IF fm # <<>> THEN "fm" ELSE "mfm"

Source == IF call.fn = "list" THEN call.enc ELSE Nearest(held["fm"], held["mfm"])

Merge ==
  /\ pc = "merge" /\ held[Source] # <<>>
  /\ got' = Append(got, Head(held[Source]))
  /\ held' = [held EXCEPT ![Source] = Tail(@)]
  /\ UNCHANGED <<image, call, ss, cache, badcrc, pc, sector, status, todo, tally, ended, cleared>>

Listed ==
  /\ pc = "merge" /\ held[Source] = <<>>
  /\ ss' = Rewound(ss) /\ ended' = "no" /\ cleared' = Reset /\ pc' = "return"
  /\ UNCHANGED <<image, call, cache, badcrc, sector, got, status, todo, tally, held>>

-----------------------------------------------------------------------------
\* The steps of the call under way.
Step ==
  \/ Denied \/ OutOfRange \/ CacheHit \/ CacheMiss \/ Scan \/ Missing \/ SearchFound
  \/ ReadFound \/ ReadOtherSize \/ WriteFound \/ WriteOtherSector
  \/ Rewind \/ Pass \/ Merge \/ Listed \/ Return

Next ==
  \/ GetNextSector \/ ResetSearchTrackPosition \/ ClearTrackCache \/ SetSectorAccessFlags
  \/ Start \/ Step

Spec == Init /\ [][Next]_vars /\ WF_vars(Step)

-----------------------------------------------------------------------------
(***************************************************************************)
(* Every variable has its type (HXCFE_SECTORACCESS and the track cache).   *)
(***************************************************************************)
Headers(ts) == tracks[ts]

TypeOK ==
  /\ tracks \in Layouts
  /\ \A ts \in TrackSides :
       /\ lost[ts] \subseteq Headers(ts)
       /\ \A i \in 1 .. Len(cache[ts]) : cache[ts][i] \in Headers(ts)
       /\ Len(cache[ts]) <= MaxCached
  /\ call \in Calls \union {NoCall} /\ (call = NoCall <=> pc = "idle")
  /\ ss.bitoffset \in Nat \union {-1} /\ ss.old_bitoffset \in Nat \union {-1}
  /\ sector # None => sector \in Headers(call.ts)

(***************************************************************************)
(* On a plain track the cache holds the sectors from the first one on,     *)
(* in the order of the track and without a gap: what lets a search that    *)
(* hits nothing go on behind the last cached header (sector_extractor.c    *)
(* 548).  It is not so once the caches were cleared (493) and the next     *)
(* sector fetched without going back to the start of the track first.      *)
(***************************************************************************)
CacheGapless ==
  cleared # "torn" => \A ts \in Present : Plain(ts) =>
    /\ \A i, j \in 1 .. Len(cache[ts]) : i < j => cache[ts][i].start < cache[ts][j].start
    /\ \A i \in 1 .. Len(cache[ts]) : \A s \in tracks[ts] :
         s.start < cache[ts][i].start => \E j \in 1 .. i : cache[ts][j] = s

(***************************************************************************)
(* A listing counts the sectors it hands over: the second pass over the    *)
(* track finds what the first one counted (315 and 333), on every track.   *)
(***************************************************************************)
CountMatches ==
  pc = "return" /\ call.fn \in {"list", "listiso"} => Len(got) = tally

(***************************************************************************)
(* A listing hands over the sectors of the track, each of them once and    *)
(* the MFM and the FM ones merged in the order of the track (423), also    *)
(* when the two are mixed.                                                 *)
(***************************************************************************)
ListInOrder ==
  pc = "return" /\ call.fn = "listiso" /\ call.ts \in Present /\ Apart(Live(call.ts))
    => Lists(got, {s \in Live(call.ts) : s.enc \in {"mfm", "fm"}})

(***************************************************************************)
(* A read that reports no error has filled the buffer with the sectors     *)
(* asked for (701-763), on a plain track; it is not so when a sector of    *)
(* another size stopped it (748).                                          *)
(***************************************************************************)
ReadHonest ==
  pc = "return" /\ call.fn = "read" /\ status = "FDC_NOERROR" =>
    /\ Len(got) = call.n
    /\ \A i \in 1 .. Len(got) : got[i].has /\ got[i].start \notin badcrc[call.ts]
    /\ Plain(call.ts) => \A i \in 1 .. Len(got) : got[i].id = call.id + i - 1

(***************************************************************************)
(* A search goes to a cached header without asking whether it is of the    *)
(* encoding searched for, nor whether it is still there (536): the sector  *)
(* it returns is the one asked for unless one of these is so.              *)
(***************************************************************************)
WrongOnlyAfterStaleHit ==
  pc = "found" /\ sector.id # Wanted =>
    \E i \in 1 .. Len(cache[call.ts]) :
      LET h == cache[call.ts][i]
      IN h.id = Wanted /\ (h.enc # call.enc \/ h \in lost[call.ts])

\* Every call on a plain track is answered from the headers of the track, for
\* searches as long as no cache is torn (sector_extractor.c 300-590, 701-860).
Answered  == IF pc \in {"return", "return0"} THEN <<got>> ELSE <<>>
Directory == INSTANCE SectorDirectory WITH answer <- Answered, torn <- cleared = "torn"
DirectoryKept == Directory!DSpec

(***************************************************************************)
(* Every call returns, as long as its track is plain: the search loop ends *)
(* at the end of the track, and a write gets the sectors it waits for.     *)
(***************************************************************************)
CallsReturn ==
  call # NoCall ~> call = NoCall \/ (call.ts \in Present /\ ~Plain(call.ts))

(***************************************************************************)
(* "end of track already reached" (178): a fetch that gives up at that     *)
(* test does so on a track whose end the cursor has met.                   *)
(***************************************************************************)
EndReached == ended # "assumed"
=============================================================================

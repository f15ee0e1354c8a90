-------------------------- MODULE FileCacheProofs ---------------------------
(***************************************************************************)
(* Proofs about FileCache, for every page size, file size and number of    *)
(* faults.                                                                 *)
(***************************************************************************)
EXTENDS FileCache, TLAPS

\* What the coherence of the page rests on: the inductive invariant.
CacheInv == TypeOK /\ PageCoherent

\* A multiple of p leaves no remainder.
LEMMA MultipleModulo ==
  ASSUME NEW p \in Nat, p > 0, NEW q \in Nat, NEW x \in Nat, x = p * q
  PROVE  x % p = 0
<1> DEFINE d == x \div p
<1>1. d \in Int /\ x % p \in 0 .. p - 1 /\ x = p * d + (x % p)
  OBVIOUS
<1> HIDE DEF d
<1>2. p * (q - d) = x % p
  BY <1>1
<1>3. CASE q - d >= 1
  <2>1. p * (q - d) >= p
    BY <1>1, <1>3
  <2> QED  BY <1>1, <1>2, <2>1
<1>4. CASE q - d <= -1
  <2>1. p * (q - d) < 0
    BY <1>1, <1>4
  <2> QED  BY <1>1, <1>2, <2>1
<1>5. CASE q - d = 0
  BY <1>1, <1>2, <1>5
<1> QED
  BY <1>1, <1>3, <1>4, <1>5

\* What a call leaves is a reply.
LEMMA ReplyTyped ==
  ASSUME NEW op \in {"none", "get", "set"}, NEW o \in Offsets, NEW b \in Bytes,
         NEW res \in {"ok", "failed", "unset"}
  PROVE  Reply(op, o, b, res) \in Replies
  BY DEF Reply, Replies

(***************************************************************************)
(* Pages.                                                                  *)
(***************************************************************************)
\* An offset lies inside its page, which starts at a multiple of the page size.
LEMMA PageOfOffset ==
  ASSUME NEW o \in Nat
  PROVE  /\ PageOf(o) \in Nat /\ PageOf(o) <= o /\ o < PageOf(o) + PageBytes
         /\ Aligned(PageOf(o))
<1>1. PageBytes \in Nat /\ PageBytes > 0
  BY CacheAssumption
<1>2. o % PageBytes \in 0 .. PageBytes - 1 /\ o = PageBytes * (o \div PageBytes) + (o % PageBytes)
  BY <1>1
<1>3. o \div PageBytes \in Nat
  BY <1>1
<1>4. PageOf(o) = PageBytes * (o \div PageBytes)
  BY <1>1, <1>2, <1>3 DEF PageOf
<1>5. PageOf(o) \in Nat
  BY <1>1, <1>2 DEF PageOf
<1>6. Aligned(PageOf(o))
  BY <1>1, <1>3, <1>4, <1>5, MultipleModulo DEF Aligned
<1> QED
  BY <1>1, <1>2, <1>5, <1>6 DEF PageOf

\* The part of a page inside the file fits the buffer and the file.
LEMMA PageSizeFits ==
  ASSUME NEW off \in Nat, NEW n \in Nat, off <= n
  PROVE  /\ PageSize(off, n) \in 0 .. PageBytes
         /\ off + PageSize(off, n) <= n
         /\ PageSize(off, n) < PageBytes => off + PageSize(off, n) = n
  BY CacheAssumption DEF PageSize

\* The page of the last byte of a file ends with the file.
LEMMA PageEndsAfter ==
  ASSUME NEW off \in Nat, NEW o \in Nat, off <= o, o - off \in Cells
  PROVE  PageSize(off, o + 1) = o + 1 - off
  BY CacheAssumption DEF PageSize, Cells

\* A page loaded from the disk holds bytes, and all of those asked for.
LEMMA LoadedBytes ==
  ASSUME NEW d \in [Offsets -> Bytes], NEW s \in 0 .. MaxSize, NEW off \in Nat, NEW n \in Int
  PROVE  Loaded(d, s, off, n) \in [Cells -> Bytes]
  BY CacheAssumption DEF Loaded, Cells, Offsets

OnDisk(off, n, s) == off + n <= s

\* A page that lies on the disk whole is loaded as it is there.
LEMMA LoadedWhole ==
  ASSUME NEW d \in [Offsets -> Bytes], NEW s \in 0 .. MaxSize, NEW off \in Nat,
         NEW n \in 0 .. PageBytes, OnDisk(off, n, s)
  PROVE  SameBytes(Loaded(d, s, off, n), d, off, n)
  BY CacheAssumption DEF SameBytes, Loaded, Cells, Offsets, OnDisk

\* The page open_file starts with is aligned.
LEMMA FirstPageAligned == Aligned(0)
  BY CacheAssumption, MultipleModulo, 0 = PageBytes * 0 DEF Aligned

\* Before open_file the cache is well typed and shows no page.
LEMMA InvInit == Init => CacheInv
  BY CacheAssumption DEF Init, CacheInv, TypeOK, PageCoherent, IsOpen, Blank, Cells, Offsets, Reply, Replies

\* Opening a file, or failing to, leaves a coherent first page.
LEMMA InvOpen ==
  CacheInv /\ (OpenExisting \/ OpenNew \/ OpenNewFails) => CacheInv'
<1> SUFFICES ASSUME CacheInv, OpenExisting \/ OpenNew \/ OpenNewFails PROVE CacheInv'
  OBVIOUS
<1> USE CacheAssumption, FirstPageAligned DEF CacheInv, TypeOK, PageCoherent, SameBytes, IsOpen, Cells, Offsets
<1>1. CASE OpenExisting
  BY <1>1 DEF OpenExisting, StartAtFirstPage, Loaded, PageSize, file
<1>2. CASE OpenNew
  BY <1>2 DEF OpenNew, StartAtFirstPage, Loaded, PageSize, Filled
<1>3. CASE OpenNewFails
  BY <1>3 DEF OpenNewFails, StartAtFirstPage, Loaded, PageSize, Filled, Fault
<1> QED
  BY <1>1, <1>2, <1>3

\* A read that hits the page, or lies beyond the end, changes no page.
LEMMA InvGet ==
  CacheInv /\ (GetBeyondEnd \/ GetHit \/ GetFlushFails) => CacheInv'
<1> SUFFICES ASSUME CacheInv, GetBeyondEnd \/ GetHit \/ GetFlushFails PROVE CacheInv'
  OBVIOUS
<1> USE CacheAssumption DEF CacheInv, TypeOK, PageCoherent, SameBytes, IsOpen, Cells, Offsets, page, file
<1>1. CASE GetBeyondEnd
  <2>1. reply' \in Replies
    BY <1>1, ReplyTyped DEF GetBeyondEnd
  <2> QED
    BY <1>1, <2>1 DEF GetBeyondEnd, PageSize
<1>2. CASE GetHit
  <2>1. PICK o \in Offsets :
          InWindow(o) /\ reply' = Reply("get", o, buffer[o - current_offset], "ok")
    BY <1>2 DEF GetHit
  <2>2. buffer[o - current_offset] \in Bytes
    BY <2>1 DEF InWindow
  <2>3. reply' \in Replies
    BY <2>1, <2>2, ReplyTyped
  <2> QED
    BY <1>2, <2>3 DEF GetHit, PageSize
<1>3. CASE GetFlushFails
  <2>1. reply' \in Replies
    BY <1>3, ReplyTyped DEF GetFlushFails
  <2> QED
    BY <1>3, <2>1 DEF GetFlushFails, FlushFails, Fault, DiskWith, SizeWith, PageSize
<1> QED
  BY <1>1, <1>2, <1>3

\* The window is the page of o in a file of n bytes, and the disk has the rest.
PageInPlace(o, n) ==
  /\ disk' \in [Offsets -> Bytes] /\ disk_size' \in 0 .. MaxSize
  /\ current_offset' \in Nat /\ current_offset' <= o /\ o - current_offset' \in Cells
  /\ o - current_offset' < cur_page_size'
  /\ Aligned(current_offset')
  /\ cur_page_size' = PageSize(current_offset', n)
  /\ cur_page_size' \in 0 .. PageBytes
  /\ current_offset' + cur_page_size' <= n
  /\ damaged = 0 => disk_size' = file_size

\* What a page switch leaves: the old page is on disk (unless a fault already
\* lost bytes) and the window is in place.
LEMMA WindowMoved ==
  ASSUME CacheInv, IsOpen, NEW o \in Offsets, NEW n \in 0 .. MaxSize,
         o < n, ~InWindow(o), MoveWindow(o, n),
         n = file_size \/ (o = file_size /\ n = file_size + 1)
  PROVE  PageInPlace(o, n)
<1> USE CacheAssumption DEF Offsets, Cells
<1>1. /\ o \in Nat /\ n \in Nat
      /\ current_offset' = PageOf(o) /\ cur_page_size' = PageSize(current_offset', n)
  BY DEF MoveWindow
<1>2. /\ current_offset' \in Nat /\ current_offset' <= o /\ o < current_offset' + PageBytes
      /\ Aligned(current_offset')
  BY <1>1, PageOfOffset
<1>3. /\ cur_page_size' \in 0 .. PageBytes /\ current_offset' + cur_page_size' <= n
      /\ cur_page_size' < PageBytes => current_offset' + cur_page_size' = n
  BY <1>1, <1>2 DEF PageSize
<1>4. /\ current_offset \in Nat /\ cur_page_size \in 0 .. PageBytes
      /\ current_offset + cur_page_size <= file_size /\ file_size \in 0 .. MaxSize
      /\ disk_size \in 0 .. MaxSize
      /\ disk \in [Offsets -> Bytes] /\ buffer \in [Cells -> Bytes]
  <2>1. /\ current_offset \in Nat /\ file_size \in Nat /\ current_offset <= file_size
        /\ cur_page_size = PageSize(current_offset, file_size)
    BY DEF CacheInv, TypeOK, PageCoherent
  <2> QED
    BY <2>1, PageSizeFits DEF CacheInv, TypeOK
<1>5. DiskWith(cur_page_size) \in [Offsets -> Bytes] /\ SizeWith(cur_page_size) \in 0 .. MaxSize
  BY <1>4 DEF DiskWith, SizeWith
<1>6. disk' \in [Offsets -> Bytes] /\ disk_size' \in 0 .. MaxSize
  BY <1>4, <1>5 DEF MoveWindow, Flush, file
<1>7. damaged = 0 => disk_size' = file_size
  BY <1>4 DEF CacheInv, TypeOK, PageCoherent, MoveWindow, Flush, SizeWith, file
<1> QED
  BY <1>1, <1>2, <1>3, <1>6, <1>7 DEF PageInPlace

\* A read that misses flushes the old page and loads a coherent one.
LEMMA InvGetMiss == CacheInv /\ GetMiss => CacheInv'
<1> SUFFICES ASSUME CacheInv, GetMiss PROVE CacheInv'
  OBVIOUS
<1> USE CacheAssumption DEF Offsets, Cells
<1>1. PICK o \in Offsets :
        /\ o < file_size /\ ~InWindow(o)
        /\ MoveWindow(o, file_size)
        /\ \E n \in 0 .. cur_page_size' :
             /\ Delivers(n)
             /\ buffer' = Loaded(disk', disk_size', current_offset', n)
             /\ reply' = Reply("get", o, buffer'[o - current_offset'],
                               IF n = cur_page_size' THEN "ok" ELSE "failed")
  BY DEF GetMiss
<1>2. PICK n \in 0 .. cur_page_size' :
        /\ Delivers(n)
        /\ buffer' = Loaded(disk', disk_size', current_offset', n)
        /\ reply' = Reply("get", o, buffer'[o - current_offset'],
                          IF n = cur_page_size' THEN "ok" ELSE "failed")
  BY <1>1
<1>3. /\ file_size \in 0 .. MaxSize /\ IsOpen
      /\ dirty' = 0 /\ f' = f /\ file_size' = file_size /\ pending' = pending
  BY DEF CacheInv, TypeOK, GetMiss, Ready
<1>4. PageInPlace(o, file_size)
  BY <1>1, <1>3, WindowMoved
<1>5. buffer' \in [Cells -> Bytes]
  <2>1. /\ disk' \in [Offsets -> Bytes] /\ disk_size' \in 0 .. MaxSize
        /\ current_offset' \in Nat /\ cur_page_size' \in 0 .. PageBytes
    BY <1>4 DEF PageInPlace
  <2>2. n \in Int
    OBVIOUS
  <2> HIDE DEF Offsets, Cells
  <2> QED
    BY <1>2, <2>1, <2>2, LoadedBytes
<1>6. TypeOK'
  <2>1. reply' \in Replies
    <3>1. buffer'[o - current_offset'] \in Bytes
      BY <1>4, <1>5 DEF PageInPlace
    <3> QED
      BY <1>2, <3>1, ReplyTyped
  <2>2. faults' \in 0 .. MaxFaults /\ damaged' \in {0, 1}
    BY <1>2 DEF Delivers, Fault, CacheInv, TypeOK
  <2>3. current_offset' \in 0 .. MaxSize /\ cur_page_size' \in 0 .. PageBytes
    BY <1>1, <1>4 DEF PageInPlace
  <2> QED
    BY <1>3, <1>4, <1>5, <2>1, <2>2, <2>3 DEF PageInPlace, CacheInv, TypeOK
<1>7. PageCoherent'
  <2>1. /\ Aligned(current_offset') /\ current_offset' <= file_size'
        /\ cur_page_size' = PageSize(current_offset', file_size')
    <3>1. Aligned(current_offset')
      BY <1>4 DEF PageInPlace
    <3>2. current_offset' <= file_size'
      BY <1>1, <1>3, <1>4 DEF PageInPlace
    <3>3. cur_page_size' = PageSize(current_offset', file_size')
      BY <1>3, <1>4 DEF PageInPlace
    <3> QED
      BY <3>1, <3>2, <3>3
  <2>2. ASSUME damaged' = 0
        PROVE  n = cur_page_size' /\ disk_size' = file_size
    BY <1>2, <1>4, <2>2 DEF Delivers, PageInPlace
  <2>3. ASSUME damaged' = 0
        PROVE  SameBytes(buffer', disk', current_offset', cur_page_size')
    <3>1. /\ disk' \in [Offsets -> Bytes] /\ disk_size' \in 0 .. MaxSize
          /\ current_offset' \in Nat /\ cur_page_size' \in 0 .. PageBytes
          /\ OnDisk(current_offset', cur_page_size', disk_size')
      BY <1>4, <2>2, <2>3 DEF PageInPlace, OnDisk
    <3>2. buffer' = Loaded(disk', disk_size', current_offset', cur_page_size')
      BY <1>2, <2>2, <2>3
    <3> HIDE DEF Offsets, Cells
    <3> QED
      BY <3>1, <3>2, LoadedWhole
  <2> QED
    BY <1>1, <1>3, <2>1, <2>2, <2>3 DEF PageCoherent
<1> QED
  BY <1>6, <1>7 DEF CacheInv

(***************************************************************************)
(* set_byte: the four outcomes of a write at o in a file of n bytes, where  *)
(* o is inside the file, or the byte by which the file has just grown.     *)
(***************************************************************************)
WriteAt(o, n) ==
  /\ CacheInv /\ IsOpen
  /\ o \in Offsets /\ n \in 0 .. MaxSize /\ o < n
  /\ n = file_size \/ (o = file_size /\ n = file_size + 1)
  /\ f' = f /\ file_size' = n /\ reply' \in Replies
  /\ pending' \in [offset : Offsets, byte : Bytes] \cup {NoWrite}

\* A write to the cached page, which grows with the file, keeps it coherent.
LEMMA SetHitInv ==
  ASSUME NEW o, NEW b \in Bytes, NEW n, WriteAt(o, n), SetHit(o, b),
         cur_page_size' = IF n = file_size THEN cur_page_size ELSE GrownPageSize
  PROVE  CacheInv'
  BY CacheAssumption
  DEF WriteAt, SetHit, GrownPageSize, InWindow, file, CacheInv, TypeOK, PageCoherent,
      PageSize, IsOpen, Offsets, Cells

\* So does a write that first brings another page into the cache.
LEMMA SetMissInv ==
  ASSUME NEW o, NEW b \in Bytes, NEW n, WriteAt(o, n), SetMiss(o, b, n)
  PROVE  CacheInv'
<1>1. /\ o \in Offsets /\ n \in 0 .. MaxSize /\ o < n /\ IsOpen /\ CacheInv
      /\ n = file_size \/ (o = file_size /\ n = file_size + 1)
      /\ ~InWindow(o) /\ MoveWindow(o, n) /\ dirty' = 1
      /\ f' = f /\ file_size' = n /\ reply' \in Replies
  BY DEF WriteAt, SetMiss
<1>2. PageInPlace(o, n)
  BY <1>1, WindowMoved
<1>3. PICK k \in 0 .. cur_page_size' :
        /\ Delivers(k)
        /\ buffer' = [Loaded(disk', disk_size', current_offset', k) EXCEPT ![o - current_offset'] = b]
  BY DEF SetMiss
<1>4. buffer' \in [Cells -> Bytes]
  <2>1. /\ disk' \in [Offsets -> Bytes] /\ disk_size' \in 0 .. MaxSize /\ current_offset' \in Nat
        /\ k \in Int
    BY <1>2 DEF PageInPlace
  <2>2. Loaded(disk', disk_size', current_offset', k) \in [Cells -> Bytes]
    BY <2>1, LoadedBytes
  <2> QED
    BY <1>3, <2>2
<1>5. TypeOK'
  <2>1. faults' \in 0 .. MaxFaults /\ damaged' \in {0, 1}
    BY <1>1, <1>3, CacheAssumption DEF Delivers, Fault, CacheInv, TypeOK
  <2>2. current_offset' \in 0 .. MaxSize /\ cur_page_size' \in 0 .. PageBytes
    BY <1>1, <1>2, CacheAssumption DEF PageInPlace, Offsets
  <2> QED
    BY <1>1, <1>2, <1>4, <2>1, <2>2 DEF PageInPlace, CacheInv, TypeOK, WriteAt
<1>6. PageCoherent'
  <2>1. /\ Aligned(current_offset') /\ current_offset' <= file_size'
        /\ cur_page_size' = PageSize(current_offset', file_size')
    BY <1>1, <1>2 DEF PageInPlace, Offsets
  <2>2. ASSUME damaged' = 0
        PROVE  disk_size' = file_size
    BY <1>1, <1>2, <1>3, <2>2 DEF Delivers, PageInPlace, CacheInv, TypeOK
  <2>3. ASSUME damaged' = 0, disk_size' < n
        PROVE  current_offset' + cur_page_size' = n
    <3>1. file_size \in Nat /\ o \in Nat /\ n = o + 1
      BY <1>1, <2>2, <2>3 DEF CacheInv, TypeOK, Offsets
    <3>2. current_offset' \in Nat /\ current_offset' <= o /\ o - current_offset' \in Cells
      BY <1>2 DEF PageInPlace
    <3>3. PageSize(current_offset', o + 1) = o + 1 - current_offset'
      BY <3>1, <3>2, PageEndsAfter
    <3> QED
      BY <1>2, <3>1, <3>2, <3>3 DEF PageInPlace
  <2>4. ASSUME damaged' = 0
        PROVE  disk_size' <= n /\ current_offset' <= disk_size'
    BY <1>1, <1>2, <2>2, <2>4 DEF PageInPlace, Offsets
  <2> QED
    BY <1>1, <2>1, <2>3, <2>4 DEF PageCoherent
<1> QED
  BY <1>5, <1>6 DEF CacheInv

\* A failed seek keeps the window aligned; the bytes are lost.
LEMMA SetSeekFailsInv ==
  ASSUME NEW o, NEW n, WriteAt(o, n), SetSeekFails(o, n)
  PROVE  CacheInv'
<1>1. PageInPlace(o, n)
  BY WindowMoved DEF WriteAt, SetSeekFails
<1>2. o \in Nat /\ o < n /\ n \in 0 .. MaxSize
  BY DEF WriteAt, Offsets
<1>3. current_offset' \in 0 .. MaxSize /\ current_offset' <= n
  BY <1>1, <1>2, CacheAssumption DEF PageInPlace
<1>4. TypeOK'
  BY <1>1, <1>3, CacheAssumption DEF PageInPlace, WriteAt, SetSeekFails, Fault, CacheInv, TypeOK
<1> QED
  BY <1>1, <1>3, <1>4 DEF PageInPlace, WriteAt, SetSeekFails, CacheInv, PageCoherent

\* A failed flush leaves the page and writes back a part of it.
LEMMA FlushFailsKeeps ==
  ASSUME CacheInv, IsOpen, FlushFails
  PROVE  /\ UNCHANGED page
         /\ disk' \in [Offsets -> Bytes] /\ disk_size' \in 0 .. MaxSize
         /\ faults' \in 0 .. MaxFaults
         /\ damaged = 0 => /\ disk_size' <= file_size /\ disk_size <= disk_size'
                           /\ disk_size' < file_size => disk_size < file_size
  BY CacheAssumption
  DEF FlushFails, Fault, DiskWith, SizeWith, page, file, CacheInv, TypeOK, PageCoherent,
      PageSize, Offsets, Cells

\* A failed flush keeps the page, which stays dirty.
LEMMA FlushFailsInv ==
  ASSUME NEW o, NEW n, WriteAt(o, n), ~InWindow(o), FlushFails,
         damaged' = 1 \/ (n = file_size /\ UNCHANGED damaged)
  PROVE  CacheInv'
<1>1. CacheInv /\ IsOpen
  BY DEF WriteAt
<1>2. FlushFails /\ dirty = 1
  BY DEF FlushFails
<1>3. damaged' \in {0, 1} /\ (damaged' = 0 => n = file_size /\ damaged = 0)
  BY <1>1 DEF CacheInv, TypeOK
<1>4. TypeOK'
  BY <1>1, FlushFailsKeeps, <1>3, CacheAssumption DEF WriteAt, CacheInv, TypeOK, page
<1>5. PageSize(current_offset, n) = cur_page_size /\ current_offset <= n
  BY <1>1, CacheAssumption DEF WriteAt, CacheInv, TypeOK, PageCoherent, PageSize, InWindow, Offsets
<1>6. /\ Aligned(current_offset') /\ current_offset' <= file_size'
      /\ cur_page_size' = PageSize(current_offset', file_size')
  BY <1>1, <1>5, FlushFailsKeeps, <1>2 DEF WriteAt, CacheInv, PageCoherent, page
<1>7. ASSUME damaged' = 0
      PROVE  /\ disk_size' <= file_size' /\ current_offset' <= disk_size' /\ dirty' = 1
             /\ disk_size' < file_size' => current_offset' + cur_page_size' = file_size'
  BY <1>1, <1>2, <1>3, <1>7, FlushFailsKeeps DEF WriteAt, CacheInv, TypeOK, PageCoherent, page
<1> QED
  BY <1>4, <1>6, <1>7 DEF CacheInv, PageCoherent

\* A stutter, or a step that only writes pending.
LEMMA InvBegin == CacheInv /\ (SetBeyondEnd \/ UNCHANGED vars) => CacheInv'
<1> SUFFICES ASSUME CacheInv, SetBeyondEnd \/ UNCHANGED vars PROVE CacheInv'
  OBVIOUS
<1>1. CASE SetBeyondEnd
  BY <1>1 DEF SetBeyondEnd, Ready, IsOpen, CacheInv, TypeOK, PageCoherent, page, file
<1>2. CASE UNCHANGED vars
  BY <1>2 DEF vars, page, file, CacheInv, TypeOK, PageCoherent, IsOpen
<1> QED
  BY <1>1, <1>2

\* Every step of set_byte keeps the cache coherent.
LEMMA InvSet ==
  CacheInv /\ (SetInside \/ Extend \/ SetExtended) => CacheInv'
<1> SUFFICES ASSUME CacheInv, SetInside \/ Extend \/ SetExtended PROVE CacheInv'
  OBVIOUS
<1>0. file_size \in 0 .. MaxSize /\ pending \in [offset : Offsets, byte : Bytes] \cup {NoWrite}
  BY DEF CacheInv, TypeOK
<1>1. CASE SetInside
  <2>1. PICK o \in Offsets, b \in Bytes :
          /\ o < file_size
          /\ \/ SetHit(o, b) /\ UNCHANGED cur_page_size
             \/ SetMiss(o, b, file_size)
             \/ SetSeekFails(o, file_size)
             \/ ~InWindow(o) /\ FlushFails /\ UNCHANGED damaged
          /\ reply' \in {Reply("set", o, b, "ok"), Reply("set", o, b, "failed")}
    BY <1>1 DEF SetInside
  <2>2. WriteAt(o, file_size)
    BY <1>0, <1>1, <2>1, ReplyTyped DEF SetInside, Ready, WriteAt
  <2> QED
    BY <2>1, <2>2, SetHitInv, SetMissInv, SetSeekFailsInv, FlushFailsInv
<1>2. CASE Extend
  <2>1. WriteAt(file_size, file_size + 1)
    BY <1>0, <1>2, CacheAssumption DEF Extend, WriteAt, Offsets, CacheInv, TypeOK
  <2>2. 0 \in Bytes /\ file_size + 1 # file_size
    BY <1>0, CacheAssumption
  <2> QED
    BY <1>2, <2>1, <2>2, SetHitInv, SetMissInv, SetSeekFailsInv, FlushFailsInv DEF Extend
<1>3. CASE SetExtended
  <2>1. pending.offset \in Offsets /\ pending.byte \in Bytes
    BY <1>0, <1>3 DEF SetExtended
  <2>2. WriteAt(pending.offset, file_size)
    BY <1>0, <1>3, <2>1, ReplyTyped DEF SetExtended, WriteAt
  <2> QED
    BY <1>3, <2>1, <2>2, SetHitInv, SetMissInv, SetSeekFailsInv, FlushFailsInv DEF SetExtended
<1> QED
  BY <1>1, <1>2, <1>3

\* What a flush leaves on disk: the file, whole.
LEMMA FlushDisk ==
  ASSUME CacheInv, IsOpen, Flush
  PROVE  /\ disk' \in [Offsets -> Bytes] /\ disk_size' \in 0 .. MaxSize
         /\ damaged = 0 => disk_size' = file_size
<1>1. DiskWith(cur_page_size) \in [Offsets -> Bytes] /\ SizeWith(cur_page_size) \in 0 .. MaxSize
  BY CacheAssumption DEF CacheInv, TypeOK, PageCoherent, DiskWith, SizeWith, PageSize, Offsets, Cells
<1>2. damaged = 0 /\ dirty = 1 => SizeWith(cur_page_size) = file_size
  BY CacheAssumption DEF CacheInv, TypeOK, PageCoherent, SizeWith, PageSize
<1> QED
  BY <1>1, <1>2 DEF Flush, file, CacheInv, TypeOK, PageCoherent

\* Closing the file, or failing to, leaves no page to be coherent.
LEMMA InvClose ==
  CacheInv /\ (Close \/ CloseFails) => CacheInv'
<1> SUFFICES ASSUME CacheInv, Close \/ CloseFails PROVE CacheInv'
  OBVIOUS
<1>1. CASE Close
  <2>1. IsOpen /\ Flush
    BY <1>1 DEF Close, Ready
  <2> QED
    BY <1>1, <2>1, FlushDisk DEF Close, CacheInv, TypeOK, PageCoherent, IsOpen
<1>2. CASE CloseFails
  <2>1. IsOpen /\ FlushFails
    BY <1>2 DEF CloseFails, Ready
  <2> QED
    BY <1>2, <2>1, FlushFailsKeeps DEF CloseFails, CacheInv, TypeOK, PageCoherent, IsOpen, page
<1> QED
  BY <1>1, <1>2

\* The typing and the coherence of the page hold in every state of the cache,
\* whatever its page size and however many faults occur (cache.c).
THEOREM CacheCoherent == Spec => [](TypeOK /\ PageCoherent)
<1>1. CacheInv /\ [Next]_vars => CacheInv'
  BY InvOpen, InvGet, InvGetMiss, InvSet, InvBegin, InvClose DEF Next
<1>2. Spec => []CacheInv
  BY InvInit, <1>1, PTL DEF Spec
<1> QED
  BY <1>2, PTL DEF CacheInv

\* Every variable of the cache keeps its type, and the page the size of the
\* buffer, through reads, writes, extensions and faults (cache.c).
THEOREM CacheTypes == Spec => []TypeOK
  BY CacheCoherent, PTL

(***************************************************************************)
(* The file the cache shows.                                               *)
(***************************************************************************)
\* A page just loaded shows the bytes of the disk.
LEMMA OverlayLoaded ==
  ASSUME NEW d \in [Offsets -> Bytes], NEW s \in 0 .. MaxSize, NEW off \in Nat,
         NEW n \in Nat, s <= n, off <= n
  PROVE  \A i \in 0 .. s - 1 : Overlay(Loaded(d, s, off, PageSize(off, n)), off, d)[i] = d[i]
  BY CacheAssumption DEF Overlay, Loaded, PageSize, Offsets, Cells

\* The file shown holds bytes.
LEMMA OverlayBytes ==
  ASSUME NEW p \in [Cells -> Bytes], NEW d \in [Offsets -> Bytes], NEW off \in Nat
  PROVE  Overlay(p, off, d) \in [Offsets -> Bytes]
  BY CacheAssumption DEF Overlay, Offsets, Cells

\* The page p, which starts at off, with x at offset o of the file.
Written(p, off, o, x) == [p EXCEPT ![o - off] = x]

InPage(o, off) == off <= o /\ o - off \in Cells

\* A byte written to the page is that byte of the file and no other.
LEMMA OverlayWritten ==
  ASSUME NEW p \in [Cells -> Bytes], NEW d \in [Offsets -> Bytes], NEW off \in Nat,
         NEW o \in Offsets, InPage(o, off), NEW x \in Bytes
  PROVE  Overlay(Written(p, off, o, x), off, d) = [Overlay(p, off, d) EXCEPT ![o] = x]
<1>1. ASSUME NEW i \in Offsets, i >= off, i < off + PageBytes
      PROVE  /\ i - off \in Cells
             /\ [p EXCEPT ![o - off] = x][i - off] = IF i = o THEN x ELSE p[i - off]
  <2>1. i \in Int /\ o \in Int /\ i - off \in Cells /\ (i - off = o - off <=> i = o)
    BY <1>1, CacheAssumption DEF InPage, Offsets, Cells
  <2> QED
    BY <2>1
<1>2. o >= off /\ o < off + PageBytes
  BY CacheAssumption DEF InPage, Offsets, Cells
<1> QED
  BY <1>1, <1>2 DEF Overlay, Written

\* The part of the page inside the file lies inside the page buffer.
LEMMA InPageShown ==
  ASSUME NEW p \in [Cells -> Bytes], NEW d \in [Offsets -> Bytes], NEW off \in Nat,
         NEW o \in Offsets, InPage(o, off)
  PROVE  Overlay(p, off, d)[o] = p[o - off]
  BY CacheAssumption DEF Overlay, InPage, Offsets, Cells

\* Writing the page back, in part or whole, does not change the file shown.
LEMMA FlushShown ==
  ASSUME CacheInv, NEW n \in 0 .. PageBytes
  PROVE  Overlay(buffer, current_offset, DiskWith(n)) = Overlay(buffer, current_offset, disk)
  BY CacheAssumption DEF Overlay, DiskWith, CacheInv, TypeOK, Offsets, Cells

\* After a flush the disk is the file shown.
LEMMA FlushedDisk ==
  ASSUME CacheInv, IsOpen, Flush, damaged = 0
  PROVE  \A i \in 0 .. file_size - 1 : disk'[i] = view[i]
<1>1. view = Overlay(buffer, current_offset, disk)
  BY DEF view
<1>2. CASE dirty = 0
  BY <1>1, <1>2, CacheAssumption
  DEF Flush, Overlay, CacheInv, TypeOK, PageCoherent, SameBytes, PageSize, Offsets, Cells, file
<1>3. CASE dirty = 1
  BY <1>1, <1>3, CacheAssumption
  DEF Flush, DiskWith, Overlay, CacheInv, TypeOK, PageCoherent, PageSize, Offsets, Cells
<1> QED
  BY <1>2, <1>3 DEF CacheInv, TypeOK

\* A hit changes one byte of the file shown.
LEMMA SetHitView ==
  ASSUME NEW o, NEW b \in Bytes, NEW n, WriteAt(o, n), SetHit(o, b)
  PROVE  /\ view' = [view EXCEPT ![o] = b] /\ view_size' = n
         /\ UNCHANGED damaged
<1>1. /\ buffer' = [buffer EXCEPT ![o - current_offset] = b]
      /\ current_offset' = current_offset /\ disk' = disk
      /\ IsOpen /\ IsOpen' /\ file_size' = n
  BY DEF SetHit, WriteAt, IsOpen, file
<1>2. /\ buffer \in [Cells -> Bytes] /\ disk \in [Offsets -> Bytes] /\ current_offset \in Nat
      /\ o \in Offsets /\ InPage(o, current_offset)
  BY CacheAssumption DEF WriteAt, CacheInv, TypeOK, SetHit, InWindow, InPage, Offsets, Cells
<1>3. Overlay(buffer', current_offset', disk') = [Overlay(buffer, current_offset, disk) EXCEPT ![o] = b]
  <2>1. Overlay(Written(buffer, current_offset, o, b), current_offset, disk)
          = [Overlay(buffer, current_offset, disk) EXCEPT ![o] = b]
    BY <1>2, OverlayWritten
  <2> QED
    BY <1>1, <2>1 DEF Written
<1> QED
  BY <1>1, <1>3 DEF view, view_size, SetHit

\* So does a miss, unless the page could not be read whole.
LEMMA SetMissView ==
  ASSUME NEW o, NEW b \in Bytes, NEW n, WriteAt(o, n), SetMiss(o, b, n), damaged' = 0
  PROVE  /\ view' \in [Offsets -> Bytes] /\ view'[o] = b /\ view_size' = n
         /\ \A i \in 0 .. file_size - 1 : i # o => view'[i] = view[i]
         /\ damaged = 0
<1>1. /\ o \in Offsets /\ n \in 0 .. MaxSize /\ o < n /\ IsOpen /\ CacheInv
      /\ n = file_size \/ (o = file_size /\ n = file_size + 1)
      /\ ~InWindow(o) /\ MoveWindow(o, n) /\ IsOpen' /\ file_size' = n
  BY DEF WriteAt, SetMiss, IsOpen
<1>2. PageInPlace(o, n)
  BY <1>1, WindowMoved
<1>3. PICK k \in 0 .. cur_page_size' :
        /\ Delivers(k)
        /\ buffer' = [Loaded(disk', disk_size', current_offset', k) EXCEPT ![o - current_offset'] = b]
  BY DEF SetMiss
<1>4. damaged = 0 /\ k = cur_page_size'
  BY <1>3 DEF Delivers
<1> DEFINE p == Loaded(disk', disk_size', current_offset', PageSize(current_offset', n))
<1>5. /\ disk' \in [Offsets -> Bytes] /\ disk_size' \in 0 .. MaxSize /\ current_offset' \in Nat
      /\ PageSize(current_offset', n) \in Int /\ disk_size' = file_size
      /\ InPage(o, current_offset')
  BY <1>2, <1>4 DEF PageInPlace, InPage
<1>6. p \in [Cells -> Bytes]
  BY <1>5, LoadedBytes
<1>7. buffer' = [p EXCEPT ![o - current_offset'] = b]
  BY <1>2, <1>3, <1>4 DEF PageInPlace
<1>8. \A i \in 0 .. disk_size' - 1 : Overlay(p, current_offset', disk')[i] = disk'[i]
  <2>1. n \in Nat /\ disk_size' <= n /\ current_offset' <= n
    BY <1>1, <1>5 DEF InPage, CacheInv, TypeOK, Offsets
  <2> QED
    BY <1>5, <2>1, OverlayLoaded
<1> HIDE DEF p
<1>9. Overlay(buffer', current_offset', disk') = [Overlay(p, current_offset', disk') EXCEPT ![o] = b]
  <2>1. Overlay(Written(p, current_offset', o, b), current_offset', disk')
          = [Overlay(p, current_offset', disk') EXCEPT ![o] = b]
    BY <1>1, <1>5, <1>6, OverlayWritten
  <2> QED
    BY <1>7, <2>1 DEF Written
<1>10. \A i \in 0 .. file_size - 1 : disk'[i] = view[i]
  BY <1>1, <1>4, FlushedDisk DEF MoveWindow
<1>11. Overlay(p, current_offset', disk') \in [Offsets -> Bytes]
  BY <1>5, <1>6, OverlayBytes
<1>12. view' = [Overlay(p, current_offset', disk') EXCEPT ![o] = b] /\ view_size' = n
  BY <1>1, <1>9 DEF view, view_size
<1>13. 0 .. file_size - 1 \subseteq Offsets
  BY <1>1, CacheAssumption DEF CacheInv, TypeOK, Offsets
<1> QED
  BY <1>1, <1>4, <1>5, <1>8, <1>10, <1>11, <1>12, <1>13

(***************************************************************************)
(* The refinement: each step of the cache is a step of the file.           *)
(***************************************************************************)
Step == damaged' = 1 \/ [File!ANext]_(File!avars)

USE DEF File!Same, File!Offsets

\* Nothing the user sees changes.
LEMMA Move ==
  ASSUME view_size' = view_size, \A i \in 0 .. view_size - 1 : view'[i] = view[i],
         UNCHANGED <<pending, reply, damaged>>, damaged = 0,
         dirty' = 1 => dirty = 1
  PROVE  File!ANext
  BY DEF File!ANext, File!AMove, File!MayBeSaved

\* A failed flush shows the same file.
LEMMA FlushFailsView ==
  ASSUME CacheInv, IsOpen, FlushFails, f' = f, file_size' = file_size
  PROVE  view' = view /\ view_size' = view_size
<1>1. /\ buffer' = buffer /\ current_offset' = current_offset
      /\ \E n \in 0 .. PageBytes : disk' = disk \/ disk' = DiskWith(n)
  BY CacheAssumption DEF FlushFails, page, file, CacheInv, TypeOK
<1>2. Overlay(buffer, current_offset, disk') = Overlay(buffer, current_offset, disk)
  BY <1>1, FlushShown
<1> QED
  BY <1>1, <1>2 DEF view, view_size, IsOpen

\* set_byte is not left in the middle of an extension.
OpenWrite == pending # NoWrite => IsOpen

\* A write beyond the end is under way only while the file is open.
LEMMA OpenWriteInv ==
  ASSUME OpenWrite, [Next]_vars PROVE OpenWrite'
  BY DEF OpenWrite, IsOpen, Ready, vars, page, file, Next, OpenExisting, OpenNew, OpenNewFails,
         GetBeyondEnd, GetHit, GetMiss, GetFlushFails, SetInside, SetBeyondEnd, Extend,
         SetExtended, Close, CloseFails

\* Every step of open_file is a step of the byte file.
LEMMA StepOpen ==
  ASSUME CacheInv, CacheInv', OpenWrite, OpenExisting \/ OpenNew \/ OpenNewFails PROVE Step
<1>1. CASE OpenExisting
  <2>1. view_size' = view_size /\ IsOpen' /\ ~IsOpen
    BY <1>1 DEF OpenExisting, view_size, IsOpen
  <2>2. \A i \in 0 .. view_size - 1 : view'[i] = view[i]
    <3>1. view = disk /\ view_size = disk_size /\ disk' = disk
      BY <1>1, <2>1 DEF view, view_size, OpenExisting, file
    <3>2. view' = Overlay(Loaded(disk, disk_size, 0, PageSize(0, disk_size)), 0, disk)
      BY <1>1, <2>1 DEF view, OpenExisting, StartAtFirstPage, file
    <3>3. disk \in [Offsets -> Bytes] /\ disk_size \in 0 .. MaxSize /\ disk_size \in Nat /\ 0 <= disk_size
      BY CacheAssumption DEF CacheInv, TypeOK
    <3> QED
      BY <3>1, <3>2, <3>3, OverlayLoaded
  <2>3. UNCHANGED <<pending, reply, damaged>> /\ damaged \in {0, 1} /\ dirty' = 0
    BY <1>1 DEF OpenExisting, StartAtFirstPage, CacheInv, TypeOK
  <2> QED
    BY <2>1, <2>2, <2>3, Move DEF Step
<1>2. CASE OpenNew
  <2>1. PICK n \in 1 .. MaxSize : Filled(n) /\ file_size' = n
    BY <1>2 DEF OpenNew
  <2>2. view' = Overlay(Loaded(disk', disk_size', 0, PageSize(0, n)), 0, disk') /\ view_size' = n
    BY <1>2, <2>1 DEF OpenNew, StartAtFirstPage, view, view_size, IsOpen
  <2>3. disk' \in [Offsets -> Bytes] /\ disk_size' = n /\ n \in Nat /\ n \in 0 .. MaxSize
    BY <2>1 DEF CacheInv, TypeOK, Filled
  <2>4. \A i \in 0 .. n - 1 : view'[i] = disk'[i]
    BY <2>2, <2>3, OverlayLoaded
  <2>5. \A i \in 0 .. n - 1 : view'[i] = Fill
    BY <2>1, <2>3, <2>4, CacheAssumption DEF Filled, Offsets
  <2> QED
    BY <1>2, <2>2, <2>3, <2>5
    DEF OpenWrite, OpenNew, StartAtFirstPage, Step, File!ANext, File!ACreate, CacheInv, TypeOK
<1>3. CASE OpenNewFails
  <2>1. PICK n \in 0 .. MaxSize : Filled(n) /\ file_size' = n
    BY <1>3 DEF OpenNewFails
  <2>2. view' = disk' /\ view_size' = n
    BY <1>3, <2>1 DEF OpenNewFails, Filled, view, view_size, IsOpen
  <2>3. \A i \in 0 .. n - 1 : view'[i] = Fill
    BY <2>1, <2>2, CacheAssumption DEF Filled, Offsets
  <2> QED
    BY <1>3, <2>2, <2>3
    DEF OpenWrite, OpenNewFails, StartAtFirstPage, Step, File!ANext, File!ACreate, CacheInv, TypeOK
<1> QED
  BY <1>1, <1>2, <1>3

\* Every step of get_byte is a read of the byte file, or reports a failure.
LEMMA StepGet ==
  ASSUME CacheInv, GetBeyondEnd \/ GetHit \/ GetMiss \/ GetFlushFails PROVE Step
<1>0. /\ IsOpen /\ IsOpen' /\ pending = NoWrite /\ UNCHANGED <<f, file_size, pending>>
      /\ view_size' = view_size /\ view_size = file_size
      /\ view = Overlay(buffer, current_offset, disk)
      /\ view' = Overlay(buffer', current_offset', disk')
      /\ damaged \in {0, 1}
  BY DEF GetBeyondEnd, GetHit, GetMiss, GetFlushFails, Ready, IsOpen, view, view_size, CacheInv, TypeOK
<1>1. CASE GetBeyondEnd
  <2>1. PICK o \in 0 .. MaxSize - 1 : o >= file_size /\ reply' = Reply("get", o, Fill, "ok")
    BY <1>1 DEF GetBeyondEnd, Offsets
  <2>2. file_size \in Int /\ ~(o < file_size)
    BY <2>1, CacheAssumption DEF CacheInv, TypeOK
  <2>3. view' = view /\ UNCHANGED <<damaged, dirty>>
    BY <1>0, <1>1 DEF GetBeyondEnd, page, file
  <2> QED
    BY <1>0, <2>1, <2>2, <2>3 DEF Step, File!ANext, File!ARead, File!MayBeSaved, File!Reply, Reply
<1>2. CASE GetHit
  <2>1. PICK o \in Offsets : /\ o < file_size /\ InWindow(o)
                             /\ reply' = Reply("get", o, buffer[o - current_offset], "ok")
    BY <1>2 DEF GetHit
  <2>2. buffer[o - current_offset] = view[o]
    BY <1>0, <2>1 DEF Overlay, InWindow
  <2>3. o \in 0 .. MaxSize - 1 /\ view' = view /\ UNCHANGED <<damaged, dirty>>
    BY <1>0, <1>2 DEF GetHit, page, file, Offsets
  <2> QED
    BY <1>0, <2>1, <2>2, <2>3 DEF Step, File!ANext, File!ARead, File!MayBeSaved, File!Reply, Reply
<1>3. CASE GetMiss
  <2>1. PICK o \in Offsets :
          /\ o < file_size /\ ~InWindow(o)
          /\ MoveWindow(o, file_size)
          /\ \E n \in 0 .. cur_page_size' :
               /\ Delivers(n)
               /\ buffer' = Loaded(disk', disk_size', current_offset', n)
               /\ reply' = Reply("get", o, buffer'[o - current_offset'],
                                 IF n = cur_page_size' THEN "ok" ELSE "failed")
    BY <1>3 DEF GetMiss
  <2>2. PICK n \in 0 .. cur_page_size' :
          /\ Delivers(n)
          /\ buffer' = Loaded(disk', disk_size', current_offset', n)
          /\ reply' = Reply("get", o, buffer'[o - current_offset'],
                            IF n = cur_page_size' THEN "ok" ELSE "failed")
    BY <2>1
  <2>3. CASE damaged' = 1
    BY <2>3 DEF Step
  <2>4. CASE n = cur_page_size' /\ UNCHANGED damaged /\ damaged = 0
    <3>1. PageInPlace(o, file_size)
      BY <1>0, <2>1, WindowMoved DEF CacheInv, TypeOK
    <3>2. /\ disk' \in [Offsets -> Bytes] /\ disk_size' \in 0 .. MaxSize /\ current_offset' \in Nat
          /\ disk_size' = file_size /\ disk_size' <= file_size /\ current_offset' <= file_size
          /\ file_size \in Nat
          /\ buffer' = Loaded(disk', disk_size', current_offset', PageSize(current_offset', file_size))
          /\ InPage(o, current_offset')
      BY <2>1, <2>2, <2>4, <3>1 DEF PageInPlace, InPage, CacheInv, TypeOK, Offsets
    <3>3. \A i \in 0 .. disk_size' - 1 : view'[i] = disk'[i]
      BY <1>0, <3>2, OverlayLoaded
    <3>4. \A i \in 0 .. file_size - 1 : disk'[i] = view[i]
      BY <1>0, <2>1, <2>4, FlushedDisk DEF MoveWindow
    <3>5. \A i \in 0 .. file_size - 1 : view'[i] = view[i]
      BY <3>2, <3>3, <3>4
    <3>6. buffer'[o - current_offset'] = view'[o]
      <4>1. PageSize(current_offset', file_size) \in Int
        BY <3>1 DEF PageInPlace
      <4>2. buffer' \in [Cells -> Bytes]
        BY <3>2, <4>1, LoadedBytes
      <4>3. Overlay(buffer', current_offset', disk')[o] = buffer'[o - current_offset']
        BY <3>2, <4>2, InPageShown
      <4> QED
        BY <1>0, <4>3
    <3>7. o \in 0 .. MaxSize - 1 /\ o < view_size /\ reply' = Reply("get", o, view[o], "ok")
      BY <1>0, <2>1, <2>2, <2>4, <3>2, <3>5, <3>6 DEF Offsets
    <3>8. dirty' = 0
      BY <1>3 DEF GetMiss
    <3> QED
      BY <1>0, <2>4, <3>5, <3>7, <3>8
      DEF Step, File!ANext, File!ARead, File!MayBeSaved, File!Reply, Reply
  <2> QED
    BY <1>0, <2>2, <2>3, <2>4 DEF Delivers
<1>4. CASE GetFlushFails
  <2>1. PICK o \in 0 .. MaxSize - 1 : reply' = Reply("get", o, 0, "unset")
    BY <1>4 DEF GetFlushFails, Offsets
  <2>2. FlushFails /\ UNCHANGED damaged /\ dirty = 1 /\ dirty' = 1
    BY <1>4 DEF GetFlushFails, FlushFails, page
  <2>3. view' = view
    BY <1>0, <2>2, FlushFailsView
  <2> QED
    BY <1>0, <2>1, <2>2, <2>3 DEF Step, File!ANext, File!AReadFails, File!Reply, Reply
<1> QED
  BY <1>1, <1>2, <1>3, <1>4

\* Every step of set_byte is a write of the byte file, or damages it.
LEMMA StepSet ==
  ASSUME CacheInv, SetInside \/ SetBeyondEnd \/ Extend \/ SetExtended PROVE Step
<1>0. /\ IsOpen /\ IsOpen' /\ UNCHANGED f
      /\ view_size' = file_size' /\ view_size = file_size /\ file_size \in 0 .. MaxSize
      /\ damaged \in {0, 1} /\ pending \in [offset : Offsets, byte : Bytes] \cup {NoWrite}
      /\ view = Overlay(buffer, current_offset, disk)
  BY DEF SetInside, SetBeyondEnd, Extend, SetExtended, Ready, IsOpen, view_size, view, CacheInv, TypeOK
<1>00. view \in [Offsets -> Bytes]
  <2>1. buffer \in [Cells -> Bytes] /\ disk \in [Offsets -> Bytes] /\ current_offset \in Nat
    BY CacheAssumption DEF CacheInv, TypeOK
  <2> QED
    BY <1>0, <2>1, OverlayBytes
<1>1. CASE SetInside
  <2>1. PICK o \in Offsets, b \in Bytes :
          /\ o < file_size
          /\ \/ /\ SetHit(o, b) /\ UNCHANGED cur_page_size
                /\ reply' = Reply("set", o, b, "ok")
             \/ SetMiss(o, b, file_size) /\ reply' = Reply("set", o, b, "ok")
             \/ SetSeekFails(o, file_size) /\ reply' = Reply("set", o, b, "failed")
             \/ /\ ~InWindow(o) /\ FlushFails /\ UNCHANGED damaged
                /\ reply' = Reply("set", o, b, "failed")
    BY <1>1 DEF SetInside
  <2>2. reply' \in Replies
    BY <2>1, ReplyTyped
  <2>3. /\ UNCHANGED <<pending, file_size>> /\ pending = NoWrite /\ WriteAt(o, file_size)
    BY <1>0, <1>1, <2>1, <2>2 DEF SetInside, Ready, WriteAt
  <2>4. CASE SetHit(o, b) /\ reply' = Reply("set", o, b, "ok")
    <3>1. view' = [view EXCEPT ![o] = b] /\ UNCHANGED damaged /\ dirty' = 1
      BY <2>3, <2>4, SetHitView DEF SetHit
    <3>2. File!AWrite(o, b)
      BY <1>0, <1>00, <2>1, <2>3, <2>4, <3>1, CacheAssumption
      DEF File!AWrite, File!Reply, Reply, Offsets
    <3> QED
      BY <1>0, <2>1, <2>3, <3>1, <3>2 DEF Step, File!ANext, File!AWriteInside, Offsets
  <2>5. CASE SetMiss(o, b, file_size) /\ reply' = Reply("set", o, b, "ok") /\ damaged' = 0
    <3>1. /\ view'[o] = b /\ damaged = 0
          /\ \A i \in 0 .. file_size - 1 : i # o => view'[i] = view[i]
      BY <2>3, <2>5, SetMissView
    <3>2. dirty' = 1
      BY <2>5 DEF SetMiss
    <3>3. File!AWrite(o, b)
      BY <1>0, <2>1, <2>3, <2>5, <3>1, <3>2 DEF File!AWrite, File!Reply, Reply
    <3> QED
      BY <2>1, <2>3, <3>1, <3>3 DEF Step, File!ANext, File!AWriteInside, Offsets
  <2>6. CASE SetSeekFails(o, file_size)
    BY <2>6 DEF SetSeekFails, Step
  <2>7. CASE FlushFails /\ UNCHANGED damaged /\ reply' = Reply("set", o, b, "failed")
    <3>1. view' = view
      BY <1>0, <2>3, <2>7, FlushFailsView
    <3>2. dirty = 1 /\ dirty' = 1
      BY <2>7 DEF FlushFails, page
    <3> QED
      BY <1>0, <2>3, <2>7, <3>1, <3>2
      DEF Step, File!ANext, File!AWriteFails, File!Reply, Reply, Offsets
  <2>8. SetMiss(o, b, file_size) => damaged' \in {0, 1}
    BY <1>0 DEF SetMiss, Delivers
  <2> QED
    BY <2>1, <2>4, <2>5, <2>6, <2>7, <2>8 DEF Step
<1>2. CASE SetBeyondEnd
  BY <1>0, <1>2 DEF SetBeyondEnd, Ready, view, page, file, Offsets, Step, File!ANext, File!ABeginExtend
<1>3. CASE Extend
  <2>1. /\ WriteAt(file_size, file_size + 1) /\ 0 \in Bytes /\ file_size + 1 # file_size
        /\ UNCHANGED pending /\ pending # NoWrite /\ file_size <= pending.offset
        /\ file_size' = file_size + 1
        /\ file_size \in Offsets /\ reply' = reply
    BY <1>0, <1>3, CacheAssumption DEF Extend, WriteAt, Offsets, CacheInv, TypeOK
  <2>2. CASE SetHit(file_size, 0)
    <3>1. view' = [view EXCEPT ![file_size] = 0] /\ UNCHANGED damaged /\ dirty' = 1
      BY <2>1, <2>2, SetHitView DEF SetHit
    <3>2. view'[view_size] = 0 /\ \A i \in 0 .. view_size - 1 : view'[i] = view[i]
      BY <1>0, <1>00, <2>1, <3>1, CacheAssumption DEF Offsets
    <3> QED
      BY <1>0, <2>1, <3>1, <3>2 DEF Step, File!ANext, File!AExtend
  <2>3. CASE SetMiss(file_size, 0, file_size + 1) /\ damaged' = 0
    <3>1. /\ view'[file_size] = 0 /\ damaged = 0
          /\ \A i \in 0 .. file_size - 1 : i # file_size => view'[i] = view[i]
          /\ dirty' = 1
      BY <2>1, <2>3, SetMissView DEF SetMiss
    <3> QED
      BY <1>0, <2>1, <2>3, <3>1 DEF Step, File!ANext, File!AExtend
  <2>4. SetMiss(file_size, 0, file_size + 1) => damaged' \in {0, 1}
    BY <1>0 DEF SetMiss, Delivers
  <2> QED
    BY <1>3, <2>2, <2>3, <2>4 DEF Extend, SetSeekFails, Step
<1>4. CASE SetExtended
  <2>1. /\ pending.offset \in Offsets /\ pending.byte \in Bytes /\ pending.offset < file_size
        /\ pending # NoWrite /\ pending' = NoWrite /\ file_size' = file_size
        /\ reply' = Reply("set", pending.offset, pending.byte, "ok")
    BY <1>0, <1>4 DEF SetExtended, Offsets
  <2>2. WriteAt(pending.offset, file_size)
    BY <1>0, <1>4, <2>1, ReplyTyped DEF SetExtended, WriteAt
  <2>3. CASE SetHit(pending.offset, pending.byte)
    <3>1. view' = [view EXCEPT ![pending.offset] = pending.byte] /\ UNCHANGED damaged
          /\ dirty' = 1
      BY <2>1, <2>2, <2>3, SetHitView DEF SetHit
    <3>2. File!AWrite(pending.offset, pending.byte)
      BY <1>0, <1>00, <2>1, <3>1, CacheAssumption DEF File!AWrite, File!Reply, Reply, Offsets
    <3> QED
      BY <1>0, <2>1, <3>1, <3>2 DEF Step, File!ANext, File!AEndExtend
  <2>4. CASE SetMiss(pending.offset, pending.byte, file_size) /\ damaged' = 0
    <3>1. /\ view'[pending.offset] = pending.byte /\ damaged = 0
          /\ \A i \in 0 .. file_size - 1 : i # pending.offset => view'[i] = view[i]
          /\ dirty' = 1
      BY <2>1, <2>2, <2>4, SetMissView DEF SetMiss
    <3>2. File!AWrite(pending.offset, pending.byte)
      BY <1>0, <2>1, <2>4, <3>1 DEF File!AWrite, File!Reply, Reply
    <3> QED
      BY <2>1, <3>1, <3>2 DEF Step, File!ANext, File!AEndExtend
  <2>5. SetMiss(pending.offset, pending.byte, file_size) => damaged' \in {0, 1}
    BY <1>0 DEF SetMiss, Delivers
  <2> QED
    BY <1>4, <2>3, <2>4, <2>5 DEF SetExtended, SetSeekFails, Step
<1> QED
  BY <1>1, <1>2, <1>3, <1>4

\* Closing the cache leaves the file its user saw.
LEMMA StepClose ==
  ASSUME CacheInv, Close \/ CloseFails PROVE Step
<1>1. CASE Close
  <2>1. /\ IsOpen /\ ~IsOpen' /\ Flush /\ UNCHANGED <<pending, reply, damaged>>
        /\ damaged \in {0, 1} /\ dirty' = 0
    BY <1>1 DEF Close, Ready, IsOpen, CacheInv, TypeOK
  <2>2. CASE damaged = 0
    <3>1. disk_size' = file_size /\ \A i \in 0 .. file_size - 1 : disk'[i] = view[i]
      BY <2>1, <2>2, FlushDisk, FlushedDisk
    <3>2. view' = disk' /\ view_size' = disk_size' /\ view_size = file_size
      BY <2>1 DEF view, view_size
    <3> QED
      BY <2>1, <2>2, <3>1, <3>2, Move DEF Step
  <2> QED
    BY <2>1, <2>2 DEF Step
<1>2. CASE CloseFails
  BY <1>2 DEF CloseFails, Step
<1> QED
  BY <1>1, <1>2

\* The cache implements a file of bytes (ByteFile): the reads, the writes, the
\* extensions, the flushes and the closing of cache.c, with their failures.
THEOREM CacheImplementsByteFile == Spec => ImplementsByteFile
<1>1. Init => File!AInit
  BY CacheAssumption DEF Init, File!AInit, File!Reply, Reply, view, view_size, IsOpen, Offsets
<1>2. CacheInv /\ CacheInv' /\ OpenWrite /\ [Next]_vars => [File!ANext]_(File!avars)
  <2> SUFFICES ASSUME CacheInv, CacheInv', OpenWrite, [Next]_vars PROVE [File!ANext]_(File!avars)
    OBVIOUS
  <2>1. CASE UNCHANGED vars
    BY <2>1 DEF vars, page, file, view, view_size, IsOpen, File!avars
  <2>2. CASE Next
    BY <2>2, StepOpen, StepGet, StepSet, StepClose DEF Next, Step, File!ANext, File!ADamage
  <2> QED
    BY <2>1, <2>2
<1>3. Init => OpenWrite
  BY DEF Init, OpenWrite
<1>4. CacheInv /\ [Next]_vars => CacheInv'
  BY InvOpen, InvGet, InvGetMiss, InvSet, InvBegin, InvClose DEF Next
<1> QED
  BY <1>1, <1>2, <1>3, <1>4, InvInit, OpenWriteInv, PTL DEF Spec, ImplementsByteFile, File!ASpec
=============================================================================

----------------------------- MODULE FileCache ------------------------------
(***************************************************************************)
(* The single-page file cache of libhxcadaptor (cache.c) over a file on    *)
(* disk.  The cache holds one page of the file; a page that was written is *)
(* flushed when the next one is loaded and when the file is closed.        *)
(***************************************************************************)
EXTENDS Integers

CONSTANTS
  Bytes,      (* the values of a byte                                      *)
  Fill,       (* fill_val                                                  *)
  PageBytes,  (* FILE_CACHE_SIZE, 65536                                    *)
  MaxSize,    (* bound: the longest file                                   *)
  NoWrite,    (* no write beyond the end is under way                      *)
  MaxFaults   (* bound: failed reads and writes of the disk                *)

ASSUME CacheAssumption ==
  /\ 0 \in Bytes /\ Fill \in Bytes
  /\ PageBytes \in Nat \ {0} /\ MaxSize \in Nat \ {0} /\ MaxFaults \in Nat
  /\ NoWrite \notin [offset : Nat, byte : Bytes]

VARIABLES
  f,               (* fc->f: "closed", the mode of the open stream ("rb",  *)
                   (* "r+b"), or "dangling" (closed but not reset)         *)
  current_offset, cur_page_size, file_size, buffer, dirty,
  disk, disk_size, (* the file: disk[i] for i < disk_size (Fill beyond)    *)
  pending,         (* set_byte is extending the file for this write        *)
  reply,           (* of the last call: its arguments, the byte, and what  *)
                   (* *success (get_byte) or its result (set_byte) says    *)
  faults,          (* faults so far                                        *)
  damaged          (* a fault lost bytes of the file                       *)

page == <<current_offset, cur_page_size, buffer, dirty>>
file == <<disk, disk_size>>
vars == <<f, page, file_size, file, pending, reply, faults, damaged>>

Offsets == 0 .. MaxSize - 1
Cells   == 0 .. PageBytes - 1

IsOpen == f \in {"rb", "r+b"}
Ready  == IsOpen /\ pending = NoWrite

InWindow(o) == o >= current_offset /\ o < current_offset + PageBytes

\* offset & ~(FILE_CACHE_SIZE - 1)
PageOf(o) == o - (o % PageBytes)

\* Mutant of PageSize: the end of the page is not looked at.
RestOfFile(off, n) == n - off

\* The part of a page that lies inside a file of n bytes.
PageSize(off, n) == IF off + PageBytes > n THEN n - off ELSE PageBytes

\* The disk once the first n bytes of the page are written to it.
DiskWith(n) ==
  [i \in Offsets |-> IF i >= current_offset /\ i < current_offset + n
                     THEN buffer[i - current_offset] ELSE disk[i]]
SizeWith(n) == IF n > 0 /\ current_offset + n > disk_size
               THEN current_offset + n ELSE disk_size

\* fread of n bytes into a buffer of fill bytes: a short file fills what it can.
Loaded(d, dsize, off, n) ==
  [k \in Cells |-> IF k < n /\ off + k < dsize THEN d[off + k] ELSE Fill]

Blank == [k \in Cells |-> Fill]

\* *success and the results of set_byte: "ok" is 1, "failed" 0, and "unset" a
\* *success that get_byte did not write.
Reply(op, o, b, res) == [op |-> op, offset |-> o, byte |-> b, result |-> res]

Replies == [op : {"none", "get", "set"}, offset : Offsets, byte : Bytes,
            result : {"ok", "failed", "unset"}]

Fault == faults < MaxFaults /\ faults' = faults + 1

Init ==
  /\ f = "closed" /\ current_offset = 0 /\ cur_page_size = 0 /\ file_size = 0
  /\ buffer = Blank /\ dirty = 0
  /\ disk_size \in 0 .. MaxSize /\ disk \in [Offsets -> Bytes]
  /\ \A i \in Offsets : i >= disk_size => disk[i] = Fill
  /\ pending = NoWrite /\ reply = Reply("none", 0, Fill, "ok")
  /\ faults = 0 /\ damaged = 0

-----------------------------------------------------------------------------
(***************************************************************************)
(* open_file.  A cache that is open is not opened again.                   *)
(***************************************************************************)
StartAtFirstPage ==
  /\ current_offset' = 0 /\ dirty' = 0
  /\ cur_page_size' = PageSize(0, file_size')
  /\ buffer' = Loaded(disk', disk_size', 0, cur_page_size')

\* The file on disk is n fill bytes.
Filled(n) == disk_size' = n /\ disk' = [i \in Offsets |-> Fill]

\* Read mode: filesize is negative.
OpenExisting ==
  /\ ~IsOpen
  /\ f' = "rb"
  /\ file_size' = disk_size
  /\ UNCHANGED file
  /\ StartAtFirstPage
  /\ UNCHANGED <<pending, reply, faults, damaged>>

\* Write mode: the file is truncated, filled and opened again.
OpenNew ==
  /\ ~IsOpen
  /\ f' = "r+b"
  /\ \E n \in 1 .. MaxSize : Filled(n) /\ file_size' = n
  /\ StartAtFirstPage
  /\ UNCHANGED <<pending, reply, faults, damaged>>

\* The file is truncated, but writing or reading it back fails.  For a new
\* file of no bytes the read always fails: it returns 0 elements.
OpenNewFails ==
  /\ ~IsOpen
  /\ f' = "closed"
  /\ \E n \in 0 .. MaxSize :
       /\ Filled(n) /\ file_size' = n
       /\ Fault \/ (n = 0 /\ UNCHANGED faults)
  /\ StartAtFirstPage
  /\ UNCHANGED <<pending, reply, damaged>>

-----------------------------------------------------------------------------
(***************************************************************************)
(* The page.                                                               *)
(***************************************************************************)
\* Mutant of Flush: the page is dropped.
DropPage == UNCHANGED file

\* Nothing to flush, or the page is written back.  A stream opened for reading
\* refuses every write.
Flush ==
  IF dirty = 0 THEN UNCHANGED file
  ELSE f = "r+b" /\ disk' = DiskWith(cur_page_size) /\ disk_size' = SizeWith(cur_page_size)

\* fwrite does not write the whole page; the page stays and stays dirty.
FlushFails ==
  /\ dirty = 1
  /\ UNCHANGED page
  /\ \/ f = "rb" /\ UNCHANGED <<file, faults>>
     \/ /\ f = "r+b" /\ Fault
        /\ \E n \in 0 .. cur_page_size - 1 :
              disk' = DiskWith(n) /\ disk_size' = SizeWith(n)

\* The window moves to the page of offset o, in a file of n bytes.
MoveWindow(o, n) ==
  /\ Flush
  /\ current_offset' = PageOf(o)
  /\ cur_page_size' = PageSize(current_offset', n)

\* fread delivers the first n bytes of the page.
Delivers(n) ==
  IF n = cur_page_size' THEN UNCHANGED <<faults, damaged>>
  ELSE Fault /\ damaged' = 1

-----------------------------------------------------------------------------
(***************************************************************************)
(* get_byte.                                                               *)
(***************************************************************************)
GetBeyondEnd ==
  /\ Ready
  /\ \E o \in Offsets :
       o >= file_size /\ reply' = Reply("get", o, Fill, "ok")
  /\ UNCHANGED <<f, page, file_size, file, pending, faults, damaged>>

GetHit ==
  /\ Ready
  /\ \E o \in Offsets :
       /\ o < file_size /\ InWindow(o)
       /\ reply' = Reply("get", o, buffer[o - current_offset], "ok")
  /\ UNCHANGED <<f, page, file_size, file, pending, faults, damaged>>

\* The result of fread becomes *success; the short page stays in the cache.
GetMiss ==
  /\ Ready
  /\ \E o \in Offsets :
       /\ o < file_size /\ ~InWindow(o)
       /\ MoveWindow(o, file_size)
       /\ \E n \in 0 .. cur_page_size' :
            /\ Delivers(n)
            /\ buffer' = Loaded(disk', disk_size', current_offset', n)
            /\ reply' = Reply("get", o, buffer'[o - current_offset'],
                              IF n = cur_page_size' THEN "ok" ELSE "failed")
  /\ dirty' = 0
  /\ UNCHANGED <<f, file_size, pending>>

\* The byte is 0 and *success is not written.
GetFlushFails ==
  /\ Ready
  /\ \E o \in Offsets :
       o < file_size /\ ~InWindow(o) /\ reply' = Reply("get", o, 0, "unset")
  /\ FlushFails
  /\ UNCHANGED <<f, file_size, pending, damaged>>

-----------------------------------------------------------------------------
(***************************************************************************)
(* set_byte.                                                               *)
(***************************************************************************)
\* Write b at offset o of a file of n bytes.
SetHit(o, b) ==
  /\ InWindow(o)
  /\ buffer' = [buffer EXCEPT ![o - current_offset] = b]
  /\ dirty' = 1
  /\ UNCHANGED <<current_offset, file, faults, damaged>>

SetMiss(o, b, n) ==
  /\ ~InWindow(o)
  /\ MoveWindow(o, n)
  /\ \E k \in 0 .. cur_page_size' :
       /\ Delivers(k)
       /\ buffer' = [Loaded(disk', disk_size', current_offset', k)
                        EXCEPT ![o - current_offset'] = b]
  /\ dirty' = 1

\* fseek fails once the window has moved: the buffer is the old page.
SetSeekFails(o, n) ==
  /\ ~InWindow(o)
  /\ MoveWindow(o, n)
  /\ dirty' = 0
  /\ Fault /\ damaged' = 1
  /\ UNCHANGED buffer

SetInside ==
  /\ Ready
  /\ \E o \in Offsets, b \in Bytes :
       /\ o < file_size
       /\ \/ /\ SetHit(o, b) /\ UNCHANGED cur_page_size
             /\ reply' = Reply("set", o, b, "ok")
          \/ SetMiss(o, b, file_size) /\ reply' = Reply("set", o, b, "ok")
          \/ SetSeekFails(o, file_size) /\ reply' = Reply("set", o, b, "failed")
          \/ /\ ~InWindow(o) /\ FlushFails /\ UNCHANGED damaged
             /\ reply' = Reply("set", o, b, "failed")
  /\ UNCHANGED <<f, file_size, pending>>

\* set_byte beyond the end: enters the loop that extends the file.
SetBeyondEnd ==
  /\ Ready
  /\ \E o \in Offsets, b \in Bytes :
       o >= file_size /\ pending' = [offset |-> o, byte |-> b]
  /\ UNCHANGED <<f, page, file_size, file, reply, faults, damaged>>

\* Mutant of GrownPageSize: the page does not grow.
SamePageSize == cur_page_size

\* The size of the current page as the file grows by one byte.
GrownPageSize ==
  IF cur_page_size < PageBytes THEN cur_page_size + 1 ELSE cur_page_size

\* One turn of the loop: the file grows by one byte, which set_byte zeroes.
\* The result of set_byte is not looked at.
Extend ==
  /\ IsOpen /\ pending # NoWrite /\ file_size <= pending.offset
  /\ file_size' = file_size + 1
  /\ \/ SetHit(file_size, 0) /\ cur_page_size' = GrownPageSize
     \/ SetMiss(file_size, 0, file_size + 1)
     \/ SetSeekFails(file_size, file_size + 1)
     \/ ~InWindow(file_size) /\ FlushFails /\ damaged' = 1
  /\ UNCHANGED <<f, pending, reply>>

\* After the loop set_byte calls itself for the byte to write, does not look at
\* that result either, and returns 1.
SetExtended ==
  /\ IsOpen /\ pending # NoWrite /\ file_size > pending.offset
  /\ \/ SetHit(pending.offset, pending.byte) /\ UNCHANGED cur_page_size
     \/ SetMiss(pending.offset, pending.byte, file_size)
     \/ SetSeekFails(pending.offset, file_size)
     \/ ~InWindow(pending.offset) /\ FlushFails /\ damaged' = 1
  /\ reply' = Reply("set", pending.offset, pending.byte, "ok")
  /\ pending' = NoWrite
  /\ UNCHANGED <<f, file_size>>

-----------------------------------------------------------------------------
(***************************************************************************)
(* close_file.                                                             *)
(***************************************************************************)
Close ==
  /\ Ready
  /\ Flush
  /\ f' = "closed" /\ dirty' = 0
  /\ UNCHANGED <<current_offset, cur_page_size, buffer, file_size,
                 pending, reply, faults, damaged>>

\* The stream is closed, but fc->f keeps its address and the page is lost.
CloseFails ==
  /\ Ready
  /\ FlushFails
  /\ f' = "dangling" /\ damaged' = 1
  /\ UNCHANGED <<file_size, pending, reply>>

Next ==
  \/ OpenExisting \/ OpenNew \/ OpenNewFails
  \/ GetBeyondEnd \/ GetHit \/ GetMiss \/ GetFlushFails
  \/ SetInside \/ SetBeyondEnd \/ Extend \/ SetExtended
  \/ Close \/ CloseFails

Spec == Init /\ [][Next]_vars

-----------------------------------------------------------------------------
(***************************************************************************)
(* Properties.                                                             *)
(***************************************************************************)
\* Every variable of the cache keeps its type; the page never outgrows the
\* cache buffer, whatever mix of reads, writes, extensions and faults.
TypeOK ==
  /\ f \in {"closed", "rb", "r+b", "dangling"}
  /\ current_offset \in 0 .. MaxSize /\ cur_page_size \in 0 .. PageBytes
  /\ file_size \in 0 .. MaxSize /\ disk_size \in 0 .. MaxSize
  /\ buffer \in [Cells -> Bytes] /\ disk \in [Offsets -> Bytes]
  /\ dirty \in {0, 1} /\ damaged \in {0, 1}
  /\ pending \in [offset : Offsets, byte : Bytes] \cup {NoWrite}
  /\ reply \in Replies /\ faults \in 0 .. MaxFaults

\* The first n bytes of the page b are the bytes of d from off on.
SameBytes(b, d, off, n) == \A k \in 0 .. n - 1 : b[k] = d[off + k]

Aligned(off) == off % PageBytes = 0

\* While the cache is open its page is the part of one aligned page that lies
\* inside the file.  Until a fault loses bytes, the disk holds every byte of
\* the file outside that page, and a page that is not dirty is also on disk:
\* a flush, a load, an extension over a page boundary and a failed flush all
\* keep the cache and the disk one file.
PageCoherent ==
  IsOpen =>
    /\ Aligned(current_offset) /\ current_offset <= file_size
    /\ cur_page_size = PageSize(current_offset, file_size)
    /\ damaged = 0 =>
         /\ disk_size <= file_size /\ current_offset <= disk_size
         /\ disk_size < file_size => dirty = 1 /\ current_offset + cur_page_size = file_size
         /\ dirty = 0 => SameBytes(buffer, disk, current_offset, cur_page_size)

\* The page b, which starts at offset off, over the disk d.
Overlay(b, off, d) ==
  [i \in Offsets |-> IF i >= off /\ i < off + PageBytes THEN b[i - off] ELSE d[i]]

\* The file as its user sees it: the cached page over the disk.
view == IF IsOpen THEN Overlay(buffer, current_offset, disk) ELSE disk
view_size == IF IsOpen THEN file_size ELSE disk_size

File == INSTANCE ByteFile WITH content <- view, size <- view_size,
                              unsaved <- dirty = 1

\* The cache implements a file of bytes, until a page is read short or a failure
\* is ignored (damaged): a read returns what was last written at the offset it
\* asks for, and the fill value beyond the end only; a write changes that one
\* byte; a write beyond the end extends the file with zeros; a failed flush, the
\* only failure left, needs a page that was changed, changes nothing and is
\* never answered with a 1; closing the cache leaves on disk exactly the file its
\* user saw.
ImplementsByteFile == File!ASpec
=============================================================================

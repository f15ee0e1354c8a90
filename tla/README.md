# A verification project for HxCFloppyEmulator

TLA+ models of the parts of HxCFloppyEmulator whose correctness depends on the
order in which things happen, TLC runs that check them on small instances, and
TLAPS proofs of their main invariants for every instance.

| file | what it is |
| --- | --- |
| `UsbEmulation.tla` | the USB floppy emulation: listener thread, loading threads, device |
| `MCUsbEmulation.tla`, `Usb*.cfg` | its instances for TLC |
| `UsbEmulationProofs.tla` | its invariants proved |
| `ByteFile.tla` | abstract: a file of bytes, as the users of the file cache see it |
| `FileCache.tla` | the single-page file cache over a file on disk |
| `MCFileCache.tla`, `FileCache.cfg` | its instance for TLC |
| `FileCacheProofs.tla` | the cache proved coherent, and proved to implement `ByteFile` |
| `SectorTrack.tla` | the tracks of an image as the decoders meet them |
| `SectorDirectory.tla` | abstract: every call is answered from the track alone |
| `SectorAccess.tla` | the sector access: its cursor, its cache, its calls |
| `MCSectorAccess.tla`, `Sector*.cfg` | its instances for TLC |
| `SectorAccessProofs.tla` | its types, its cursor and its cache proved |
| `SectorListProofs.tla` | its two listings proved |
| `SectorDirectoryProofs.tla` | its searches, reads and writes proved, and that it implements `SectorDirectory` |
| `ImageView.tla` | the disk view: GUI thread, drawing thread, loading threads |
| `MCImageView.tla`, `ImageView.cfg`, `ImageViewProofs.tla` | its instance and its proofs |
| `FtdiChip.tla` | the libftdi adaptor: ring buffer, listener threads, events |
| `MCFtdiChip.tla`, `FtdiChip.cfg`, `FtdiChipProofs.tla` | its instance and its proofs |
| `PacketStream.tla` | the bytes of a packet of the USB emulation |
| `MCPacketStream.tla`, `Packet*.cfg`, `PacketStreamProofs.tla` | its instance and its proofs |
| `PROJECT.json` | components, runs, mutants, map to the source, hazards, findings, theorems |

To check: `tlc -config UsbSafety.cfg MCUsbEmulation.tla`,
`tlapm FileCacheProofs.tla`, and so on.

## 1. The system

HxCFloppyEmulator converts floppy images and emulates a floppy drive over a USB
interface. It is C with a C++ (FLTK) interface.

| component | where | state | operations | talks to |
| --- | --- | --- | --- | --- |
| USB floppy emulation | `libusbhxcfe/sources/usb_hxcfloppyemulator.c` | the `USBHXCFE` record (flags, track table, signals), the locals of the listener | `init`, `loadFloppy`, `setInterfaceMode`, `getStats`, the thread `ftdichiplistener` | shared record, no lock; the FTDI driver; the image of the interface |
| FTDI driver adaptor | `libusbhxcfe/sources/ftdi.c` | handle, ring buffer `rx_fifo` (libftdi), event | open, close, read, write, purge, status; thread `FTDIListener` | device; signals the listener's event |
| File cache | `libhxcadaptor/sources/cache.c` | one 64 KiB page, its offset, size and dirty flag, the length of the file | `open_file`, `get_byte`, `set_byte`, `close_file` and the wider accessors | the C library; in the repository only `pri_loader` opens a file with it, to read |
| Sector access | `libhxcfe/sources/tracks/sector_extractor.c` | search position, cache of the sectors found on each track | `getNextSector`, `searchSector`, `getAllTrackSectors`, `writeSectorData` | track decoders; file systems; sector editors |
| Track encoders, floppy builder | `tracks/track_generator.c`, `floppy_utils.c` | the image under construction | add sectors, generate tracks | loaders, XML layouts |
| Stream analyzer | `stream_analyzer/` | histograms, phase locked loop | decode flux streams | stream loaders |
| Loaders and writers | `floppy_loader.c`, `loaders_list.c`, `loaders/` | loader registry | choose a loader, load, write | file cache, builder |
| File system manager | `fs_manager/` | mounted image, handle table | open, read, write, directories | sector access; third-party file systems |
| XML layouts | `xml_disk/` | parser state | build an image from a description | builder |
| Graphical interface | `HxCFloppyEmulator_software/` | `s_gui_context`: the image, flags, windows | load, view, convert, edit; threads per window | all of libhxcfe, libusbhxcfe |
| Streamer | `cb_floppy_streamer_window.cxx` | network session, stream buffers | capture streams from a device | network, stream analyzer |
| Operating system adaptor | `libhxcadaptor/` | events, critical sections | threads, events, files, sockets | everything |
| Command line tool | `HxCFloppyEmulator_cmdline/` | options | runs libhxcfe in sequence | libhxcfe |

What is hard, and where:

- **USB emulation.** Three parties share one record without a lock: the
  listener answers each synchronisation byte of the device with the next packet
  of the track; the thread that loads an image frees and rebuilds the tracks the
  listener streams, behind a handshake of three flags (`running`,
  `start_emulation`, `stop_emulation`); the device may be unplugged or answer
  late. It is correct if no track is streamed while it is replaced, if what is
  streamed is one whole image, if the listener waits for as many bytes as the
  device owes it, if the disk change signal is held as long as the host needs,
  and if every load ends and every image loaded is emulated.
- **File cache.** A long sequence of reads, writes, extensions and failures must
  look like one file of bytes.
- **Sector access.** The position of a search and the cache of sectors outlive
  the track, side and encoding they were made for. It is correct if a call is
  answered from the track alone, whatever was called before.
- **Disk view.** Events without a predicate, flags set and cleared by three
  threads, a critical section that covers only some of it, and an image that is
  replaced while it is copied. It is correct if what is being drawn is not
  replaced, no update is lost, and every image is unloaded once.
- **FTDI adaptor.** A ring buffer without a lock between a listener thread, a
  reader and a purge; a close that may give up on its listener. It is correct if
  the reader gets the bytes received, in order, and none is left behind.
- **Packets.** Pairs of bytes cut out of a circular track by a packet size that
  may be odd. It is correct if the packets are the track and no command is
  parted from its argument.

`PROJECT.json` lists each hazard at its line, with the property that covers it
or the reason why none does yet.

## 2. UsbEmulation

One action per step of a thread between two accesses to the shared record.

| state | code |
| --- | --- |
| `running`, `start_emulation`, `stop_emulation`, `floppychanged`, `interface_mode`, `current_track`, `number_of_track`, `status`, `synclost` | the fields of `USBHXCFE` |
| `slot[t]` | `precalcusbtrack[t]`: the image the track was converted from, or `Empty` when its pointers are NULL |
| `lpc`, `checkalignement`, `bytetoread`, `byteread`, `ftdierror`, `headmoved`, `probe` | the listener's position and locals |
| `l` | the static of `FillBuffer` that counts the packets of a change |
| `picked` | the track whose pointers `FillBuffer` read (lines 175 to 177) |
| `ackmode` | the mode `FillBuffer`'s switch read, while it clears a change |
| `pc`, `img`, `idx`, `loads` | the position of each thread in `loadFloppy` |
| `hs` | whether a load found `running` set, and so makes the handshake |
| `handle`, `rx`, `syncq`, `plugged` | the driver's handle, the bytes it holds, the synchronisation commands the device has not played |
| `clean`, `held`, `wpSeen` | history, read by properties only |

The listener's part: detection (`LookFor` to `GoOnline`), the loop (`Arm`,
`Receive`, `ReceiveFails`), the decision in the three steps in which the code
reads and writes the flags (`DecideStop`, `DecideStart`, `SetRunning`), `Serve`,
and the packet: `FillBuffer`, `AcknowledgeChange` and `StreamPacket` when
running, `StandbyPacket` otherwise. `AcknowledgeChange` is separate because a
load or a change of mode may come between the test of `floppychanged` and its
clearing. The loader's part: one action per assignment of `loadFloppy`, and one
per track freed or built.

The driver is modelled by what the listener sees of it. On ftd2xx a dead handle
fails in the status call; on libftdi only in a read, and the listener reads only
when bytes are pending: the constant `FtdiLib` chooses.

Left out: the statistics, the getters, the bytes of a packet and their random
bits, the control byte, allocation failures, time (a timeout is a step that may
be taken), `deInit` (the process ends after it) and images of more than 255
tracks (`number_of_track` has 8 bits).

### Runs

| run | instance | shows |
| --- | --- | --- |
| `usb_safety` | one loading thread, 2 loads, a two-track PC image and a one-track CPC image, one unplug, one fault | `TypeOK`, `HandshakeHolds`, `WholeImage`, `SyncsMatch`, `SyncLostOnlyByFault`, `PulseHeld` hold |
| `usb_liveness` | the same with one track, a qualification of one round, no link fault, ftd2xx | `LossNoticed`, and for a device that stays `LoadCompletes` and `StartHonoured`, hold under fairness |
| `usb_overlap` | no unplug, no fault | `StreamsAnImage` is violated |
| `usb_unplug_libftdi` | as `usb_liveness`, on libftdi | `LossNoticed` is violated |
| `usb_change_pulse` | no unplug, no fault | `EveryLoadPulses` is violated |

The bounds. `MaxTracks = 2`: a table that is half built, and a head beyond the
last track. `Hold = 1` and `CheckPeriod = 2` (200, 100 and 5 in the code): a
packet before, at and after the limit. Two loads: a load during the emulation of
another image, and a load that overlaps the start of the previous one. One
unplug, one fault: a reconnection with a change or a load under way.
`SyncRounds = 2` (8): a round that is not the last. Modes 0 and 7: one mode with
a change signal and one without, so that the mode changes under a held signal.

Fairness: weak fairness of the listener and of each loading thread (they are
threads of the operating system and wait only with timeouts or for one another's
flags) and of the device answering a synchronisation command it holds. Nothing
forces a user to load, to unplug or to plug the device in again. `LossNoticed`
needs no more. `LoadCompletes` and `StartHonoured` are about a device that stays
from some time on (`DeviceStays`), as often as it was unplugged before: without
one the listener never clears `running` and a loader in its handshake spins for
ever (line 897), which the model reaches and which no document excludes.
`MaxLoads` bounds the loads, so a listener that is starved of `start_emulation`
for ever by endless loads is not examined.

### Overlapping loads

The runs and the handshake theorems are for loads that do not overlap. With
`Loaders` of two threads TLC finds `HandshakeHolds` and `LoadCompletes` violated:
both loaders set `stop_emulation` and wait; the first to see `running` at 0
withdraws the request, loads and sets `start_emulation`; the listener sets
`running` again before the second has polled it (every 16 ms). The second then
spins for ever, or, if it had seen the 0, replaces tracks that are streamed. The
interface excludes this only between loads started by `load_file`
(`main_gui.cxx`, the flag `loading`); the dump, raw image and file system
windows call `load_floppy` without it. No document of the repository promises
more, so this is listed as a hazard and as the hypothesis of the theorems.

### What the violations say

- `usb_overlap`: the handshake is made only if `running` is 1 when the load
  begins (line 890). After a load, `start_emulation` is set but `running` is not
  until the listener's next packet, or until a device is attached. A second load
  in that window frees tracks while the listener starts to stream them. `WholeImage` is
  therefore stated for loads that made the handshake; the violation is the rest.
- `usb_unplug_libftdi`: `getfifostatus_ftdichip` never fails on libftdi
  (`ftdi.c:686`). Only the builds that are neither for Windows nor for macOS use
  it (`ftdi.c:45`).
- `usb_change_pulse`: `l` is not reset by a load, so the second of two changes
  without head movement between them gets no write-protect pulse.

### Proofs

`UsbEmulationProofs` proves every safety property of `usb_safety` for all
values of the constants allowed by the three assumptions of `UsbEmulation`.

- `TypeCorrect`, `TypeOKHolds`. `TypeOK` is not inductive: the countdown must be
  positive after the decision (or the decrement would leave the type), and a
  qualification round must be left while the device is qualified.
- `HandshakeInvariant`, `HandshakeCorrect`, for one loading thread
  (`OneLoader`). The invariant: `stop_emulation` is set exactly while the loader
  waits; once `running` is 0 then, the listener is not between reading
  `start_emulation` and setting `running`; when `stop_emulation` is withdrawn
  `start_emulation` is already 0. The hypothesis is needed: see "Overlapping loads".
- `WholeImageCorrect`, for one loading thread: outside of a load the table is
  whole as soon as anything can be streamed.
- `SyncsMatchCorrect`, `SyncLostCorrect`: `LinkInv` counts the bytes the device
  owes at every point of the loop and gives each lost synchronisation a fault of
  its own.
- `PulseHeldCorrect`: `l` counts exactly the packets since the signal rose, and
  a change about to be acknowledged was held for the hold time of its mode.

The liveness properties are only model-checked.

## 3. FileCache and ByteFile

`ByteFile` is what the users of the cache rely on. Every call leaves a reply with
its arguments, so that what it says is tied to what was asked: a read returns the
byte last written at the offset it asks for, and the fill value beyond the end;
a write changes that one byte; a write beyond the end extends the file with
zeros; and closing leaves the file on disk. A call may fail only while bytes are
`unsaved`, which no step may set but a write; it changes nothing and is never
answered with a 1. When the medium fails in another way (`damaged`) nothing more
is promised.

`FileCache` is `cache.c` over a file on disk: the page (`current_offset`,
`cur_page_size`, `buffer`, `dirty`), `file_size`, and the disk. `get_byte` is
`GetBeyondEnd`, `GetHit`, `GetMiss` and `GetFlushFails`; `set_byte` is
`SetInside` within the file, and beyond the end `SetBeyondEnd`, one `Extend` per
turn of its loop and `SetExtended` for the last call. `reply` holds what the call
says of itself: the result of `set_byte` and what `get_byte` writes to
`*success`, or "unset" where it writes nothing (a flush that fails, line 444).
Every disk operation that can fail may, up to `MaxFaults` times. The failures the
code ignores (a page read short in `set_byte`, the results of the loop that
extends the file, a close that cannot flush) are steps that set `damaged`;
nothing is checked of what the file holds after them.

`view` is the refinement mapping: the cached page over the disk.

Not modelled: `ram:` files (nothing in the repository opens one), failures while
opening for reading, buffering inside the C library (a write that succeeds is on
disk), what a caller makes of a `*success` that was not written, the unchecked
`fseek` of `get_byte`. `write_buf`, `read_buf` and the 16, 32
and 64 bit accessors repeat `set_byte` and `get_byte`. A file is opened only
when the cache is not open, as `pri_loader` does. The repository itself reads
through the cache only; the write operations are modelled as the library's
interface offers them.

The run `file_cache` has pages of 2 bytes and files of at most 5, so that a file
ends inside and at the end of a page and spans three; two byte values, zero and
the fill value, so that a byte that was lost or taken from a wrong cell differs
from what was written; and two faults, so that a call that failed is tried again
and fails again. It checks `TypeOK`, `PageCoherent` and the refinement
`ImplementsByteFile`.

`FileCacheProofs` proves both for every page size (65536 in the code), file size and
number of faults. `TypeOK /\ PageCoherent` is inductive as it stands. The
refinement (`CacheImplementsByteFile`) follows from it operation by operation:
a miss is a flush, after which the disk is the file shown (`FlushedDisk`), and a
load, which shows the bytes of the disk (`OverlayLoaded`); a write to the page
is that byte of the file and no other (`OverlayWritten`). Arithmetic about pages
is in lemmas of its own (`MultipleModulo`, `PageOfOffset`).

## 4. SectorTrack, SectorDirectory and SectorAccess

`SectorTrack` is the medium: the headers of a track side, each with the place
where it starts, where its data start and where the decoder goes on, what it
says (`id`, `cyl`, `head`, `size`, `has` data) and its encoding. The decoders
(`iso_ibm_mfm_track.c` and its like) are represented by what they find from a
position on, the first header of their encoding. `lost` are headers overwritten
by a write that is longer than its sector, which goes on at the start of the
track when it meets its end (`Overwritten`, `TrackLength`).

`SectorDirectory` is the promise: a call is answered from the headers on the
track, whatever calls came before. It is made for *plain* tracks (one encoding,
headers that name the track they are on, none across the index, none
overwritten); on any other track any answer is allowed, because there the code
does answer from its history (see `WrongOnlyAfterStaleHit`). And what searches is
promised only as long as no cache is `torn`, see below; listings do not search.

`SectorAccess` is `sector_extractor.c`:

| state | code |
| --- | --- |
| `ss` | `bitoffset`, `old_bitoffset`, `cur_track` and `cur_side`, the ignore-side bit of `flags` of `HXCFE_SECTORACCESS` |
| `cache[ts]` | `track_cache`: the headers cached for a track side |
| `badcrc` | the sectors whose data do not match their CRC |
| `call`, `pc`, `sector`, `got`, `status`, `todo`, `tally`, `held` | the call under way and the locals of its function |
| `ended` | history: whether the cursor met the end of its track, or a fetch assumed it |
| `cleared` | history: the caches were cleared behind the start of a track ("loose"), and a fetch went on from there ("torn") |

`Fetch` is `hxcfe_getNextSector` with its test of the end (line 178) and its
entry into the cache (263 to 285). A search is `CacheHit` or `CacheMiss` and
`Scan`, one action per turn of its loop; reads and writes repeat it for each
sector; the listings are passes over the track (`Rewind`, `Pass`) and, for the
ISO listing, the merge of the two arrays (`Merge`). The single-step calls
(`GetNextSector`, reset, clear, flags) may come between any two calls.

`hxcfe_clearTrackCache` empties the caches and leaves the cursor where it is
(493 to 516). A fetch after it begins the cache in the middle of the track, and
a later search that hits nothing goes on behind it and misses the sectors before:
the cache is torn. The one caller in the repository resets the cursor at once
(`trackeditor.c` 1294). The model has both; `CacheGapless`, and `DirectoryKept`
for the calls that search, are stated for caches that are not torn.

Not modelled: the bytes of the sectors, allocation failures, and
`hxcfe_getFloppySize`, which makes an access of its own and uses the calls
modelled here.

| run | shows |
| --- | --- |
| `sector_access` | every sequence of calls: `CacheGapless`, `CountMatches`, `ListInOrder`, `ReadHonest`, `WrongOnlyAfterStaleHit`, the refinement `DirectoryKept` and, under fairness, `CallsReturn` |
| `sector_track_change` | `EndReached` is violated |

Bounds: two tracks of two sides, of which two sides are present, so that a call
may name a side or a track that is not there; three layouts (a plain one with
interleaved numbers and a number twice; one with both encodings; one whose
headers name another cylinder, with a sector across the index and one without
data); a cache of two headers on tracks of up to three, so that it fills up; a write
long enough to destroy the header behind it, or the first one of the track. The
run has 215,762 states.
There is no bound on the number of calls. Fairness is weak fairness of the steps
of a call: one thread executes it.

`sector_track_change`: the test at line 178 ("end of track already reached")
compares `old_bitoffset` with `bitoffset`, but the position of the former was
reached on the track of the fetch before. After a change of track a fetch may
give up on a track whose end the cursor has not met. The functions of the
library rewind first; only a caller that goes through tracks with
`hxcfe_getNextSector` alone meets it.

Proofs, for every set of layouts, calls and cache size. They assume what
`SectorTrack` says of a layout (finitely many headers, different starts) and
`CallAssumption`: a call names one of the encodings, a sector number that is a
natural, and at least one sector to read or write, as every caller of the
library does. `SectorAccessProofs`:

- `AccessTypes`: the cache and the cursor have their types. `Types` adds to
  `TypeOK` what the call under way needs (its sector is of its track, its passes
  are not empty while it passes).
- `HitsMislead`: a search returns another sector than the one asked for only
  after it went to a cached header that is of another encoding or overwritten.
  It needs no assumption on the track.
- `CacheIsGapless`: on a plain track the cache is the first part of the track,
  unless it is torn.
  The invariant is `Known`: `Gapless` for the cache and `Passed` for the cursor,
  that is, as long as the cache has room every sector behind the cursor is
  cached. A fetch appends the first sector from the cursor on, so the one without
  the other is not kept (`FetchKnown`); the step that goes on behind the last
  cached header sets the cursor and keeps `Passed` by `Gapless` (`AtKnown`).

`SectorListProofs`, with the invariant `Lister`, which says of each pass of a
listing what it has counted or collected:

- `CountsMatch`: the two passes of `hxcfe_getAllTrackSectors` do not share their
  results, and the second fills an array that the first one sized. A pass rewinds
  before it starts, so what it meets depends on the track and the encoding alone
  (`RunsAgree`, and `WholesAgree` for a whole pass). It holds on any track, also
  where headers lie inside one another or were overwritten.
- `ListsInOrder`: where the headers lie apart a pass meets all of them
  (`WholeLists`), and the merge takes the nearer of the two next sectors, so what
  is merged stays the first part of both arrays in order (`Merged`).

`SectorDirectoryProofs`, with the invariant `Searcher`:

- `ReadsAreHonest`: each sector handed over so far is the one asked for, has data
  and a good CRC, and there are as many as were asked for when the call ends
  without an error.
- `DirectoryImplemented` (for what searches, while no cache is torn): a search that scans has not gone past a sector with the
  wanted number; a hit in the cache is the first sector with its number, because
  the cache is gapless; a miss goes on behind the cache, which held none. So
  `found` is the sector the directory answers with, and `missing` means there is
  none. The first step of a call is `Ask`, its last one `Reply`, a write that
  runs into the next header `Write` (or `Reply`, if the call ends with it), and
  every other step a stutter. A write may destroy a header under the call itself;
  from then on the track is not plain and nothing is claimed of it.

Only the liveness, `CallsReturn`, is model-checked alone.

## 5. ImageView

The disk view (`cb_floppy_infos_window.cxx`), the editing window and the threads
that replace the loaded image (`loader.cxx`, `main_gui.cxx`).

| state | code |
| --- | --- |
| `updating`, `updatefloppyinfos`, `trackviewerfloppy_updateneeded`, `loading`, `loadedfloppy`, `trackviewerfloppy` | the fields of `s_gui_context` |
| `td` | `guicontext->td`, counted up when the window replaces it; never NULL, as memory does not run out |
| `shown`, `fits` | the window of the view is shown; the display has its size |
| `event`, `platform` | event 10 of `libhxcadaptor.c`, as an auto-reset event of Windows or a condition variable of POSIX |
| `cs1` | critical section 1, when the GUI thread holds it over more than one step |
| `gui`, `infos`, `threads` | where the GUI thread, `InfosThreadProc` and the loading threads are |
| `infos_td`, `src` | the locals of `InfosThreadProc`: the display it draws on, the image it copies |
| `freed`, `made` | the images unloaded and made |
| `asked` | history: a change asked to be shown, and the drawing thread took no copy since |
| `history` | history: loads that overlapped, an image unloaded twice, a signal that was lost |

Actions of the GUI thread: the user shows, hides and resizes the window
(`ShowHide`, `Resize`); the steps of `tick_infos`, which acts when the window is
shown and there is a display, replaces a display of the wrong size
(`TickReplace`) and else asks for a view (`TickRequest`, `TickUpdateNeeded`,
`TickSignal`); the controls of the window (`MoveControl`); the mouse
(`PointEnter`: the look-up of the sectors under it, in the critical section;
`Push`: a button or the end of a drag, which read the list of pulses, set
markers, edit or change the zoom without the section and may signal the event;
`PushMove`); the editor (`EditEnter`); and `GuiLeave`, which ends the last four.
Actions of the drawing thread:
`WaitEvent`, `TimeOut`, `WakeUp`, `Begin`, `TakeTd`, `Drop` or `NothingToCopy`,
`Take`, `Copy`, `Draw`, `Done`. Actions of a load: `Unload`, `Clear`, `Load`,
`Notify`, `EndLoad`. A load by `load_file` is kept alone by `loading`; a load by
a window (`LoadFloppy`) is not.

Run `image_view` (2,032,896 states): both platforms, two images, two actions of
the user (a resize under a mouse movement, an edit during a load; each needs
two). It checks `DisplayKept`, `PointingAlone`, `ViewCurrent`, `ImagesReleased`,
`StuckByLostSignal` and, under fairness, `UpdateShown` for the events of
Windows: a change that asked for a view is taken and drawn by a turn of the
drawing thread that begins after it. Fairness: the timer of the GUI fires for
ever, its callbacks return, every thread is scheduled. Nobody must click, load or
show the window; `UpdateShown` is about a window that stays shown from some time
on (`WindowStays`), because `tick_infos` does nothing for one that is hidden. A
user who resizes before every tick can hold it up for ever; the actions are
finitely many here.

`PointingAlone` is about the look-up of lines 1235 to 1290. A press and a drag
read the same lists without the section, and the drawing thread may meet them
there: that is in the model, and it is a hazard without a property.

`StuckByLostSignal` says what can go wrong on POSIX: `tick_infos` sets
`updating` before it signals, a condition variable forgets a signal nobody waits
for, and `updating` then stops every later tick until the user moves a control.
`ImagesReleased` says what `loading` does not exclude: a load of a window next
to another load may unload an image twice or lose one.

Proofs (`ImageViewProofs`, for every number of images and clicks): all six
invariants. The inductive invariant is the conjunction of
`Types`; `Flagged` (`updating` is set while the thread draws), from which
`DisplayKept` and `PointingAlone` follow step by step, the latter because `cs1`
is held over the look-up; `Awake` (a view asked for
is on its way to the thread, unless a signal was lost); `Serial` (one file load
at a time, while `loading` is set); `Reloading` (the pointer names an unloaded
image only between the unloading and the loading); `OneByOne` (what is unloaded
when loads do not overlap); and `OnItsWay` (an image the view does not show, or
a change that asked, has a request somewhere between the GUI or the loader and
the drawing thread).
`UpdateShown` is model-checked only.

Left out: what is drawn and the image's data; critical section 2, which guards
the copy of the image that the track viewer uses: `InfosThreadProc` takes it for
the swap, and the mouse handler takes it inside critical section 1 with
`updating` clear, where `PointingAlone` shows that the thread is not at work; the
race of `Copy` with
`Unload` (an image may be unloaded while it is copied; `src` may be in `freed`)
is in the model, and no property claims its absence.

## 6. FtdiChip

The adaptor built on libftdi (`ftdi.c`). Every open starts a thread
(`FTDIListener`) that reads the chip, two bytes at most at a time, and appends
to `rx_fifo`; the caller waits for an event, asks for the level, reads as much,
purges, or closes. There is no lock: the increment of `ptr_in` is two steps
(`LoadIn`, `Advance`), a purge sets the two pointers in two steps (`PurgeIn`,
`PurgeOut`), and a listener that is inside a read of a silent chip does not see
`stop_thread`, so a close may give up on it (`CloseEnds`), and a later open runs
next to it.

State: `BUFFER`, `ptr_in`, `ptr_out` (`rx_fifo`), the global `RXBUFFER`,
`stop_thread`; `at`, `i`, `n`, `ptr` per listener; `pc`, `RxBytes`, `byteread`
of the caller; `usb`, `gone`, `received` of the chip (external). A byte is its
number in the order of receipt, so that order, loss and repetition can be seen.
`floor`, `purged` and `history` are history.

Run `ftdi_chip`: a ring of three bytes and three bytes received (the pointers
wrap, and the ring can be full), two opens (a listener that outlives its close),
one purge, unplugs at any time. It checks `InOrder`, `ReadFull`, `StaleBounded`,
`ListenerAlone` and, under fairness, `Delivered`: a lost signal delays a byte
until the wait times out, never longer. Fairness: every thread is scheduled, and
the loop of the caller goes on.

The code does not keep its bytes in every case, and each property names, by
`history`, the cases it says nothing of. They are reached in the run, and no
property catches them:

| case | code | what happens | excluded by |
| --- | --- | --- | --- |
| `full` | line 218 does not test for a full ring | the byte that fills it empties it | `InOrder`, `ReadFull`, `Delivered` |
| `left` | a close gave up on its listener (476) | two listeners share `RXBUFFER` and the ring | all of them but the types |
| `raced` | a purge meets an append after its store (217, 510) | the byte in the first place is an old one | `InOrder`; `StaleBounded` allows that byte |
| `back` | a purge between the read and the write of `ptr_in` (218, 510) | the old pointer is written back, and all of the old ring is there again | `InOrder`, `StaleBounded`, `Delivered` |

`raced` and `back` end when the ring was read to its end, `full` with the next
open. The run has 1,550,712 states.

Proofs (`FtdiChipProofs`, for every size of the ring and number of bytes, opens
and purges): `ChipTypes`, `OneListener`, `ReadsAreFull`, `BytesInOrder`,
`PurgeLeavesLittle`, that is all five invariants. The inductive invariant is
`Types`, `Single` (one listener, unless a close left one), `Fresh` (a listener
between its two steps read the `ptr_in` that is there, unless a purge came
between), `Enough` (what the caller still has to read is in the ring), `Stale`
(what a purge leaves is the end of a chunk, and the byte that is being appended)
and `Ordered`: the chunk a listener holds, the byte it has stored but not
announced, and the window of the ring from the caller's pointer to the
listener's follow one another without a gap. While a purge is between its two
steps the window starts at 0, which is what makes it hold across `PurgeIn` and
`PurgeOut`.
`Delivered` is model-checked only.

`UsbEmulation` keeps its abstract driver: a bag of pending bytes. `FtdiChip`
justifies it (bytes arrive in order and are eventually read), and shows its
limits.

## 7. PacketStream

`FillBuffer` and the part of the listener that sends: the piece of the circular
track (`Cut`), the byte added when the packet ends in a command (`Astride`,
`Filled`), the signals of the drive (`Patched`), the synchronisation commands
(`Insertion`, `Sent`). The empty track stands for one without data: nothing is
copied and the count is 0 (line 313). What lies in the buffers behind the bytes
of a track is one of the functions of `Memory`.

A byte is what `iscmd` and the nibble `0xC` tell apart, and its place in a pair.
The pairs are those that `GetNewTrackRevolution` puts on a track: data of both
heads, which never passes for a command; an index command; a bit rate, whose
argument may have any nibble but never passes for a command; and a NOP for one
head with the data of the other in its other nibble and in that of its argument.
That data is taken as it comes, so a NOP may pass for a command or not ("nop"),
may look like an index command ("nopindex"), and so may its argument.

Run `packet_stream` (47,788 states): the empty track, every track of two of the
twelve pairs and every track of three of six of them, packet sizes 4 to 7 (even
and odd, shorter and longer than the track), an alignment check at every second
packet, seeks and changes of size at any time. It checks `PacketIsTrack`,
`PairsKept`, `StaysInStep`, `SignalsPatched`, `SyncBetweenPairs`. There is no
liveness to state.

`PairsKept`, `SignalsPatched` and `SyncBetweenPairs` are about a packet that starts between two pairs, is a number of them, is no longer than its
track, and is not `Fooled` (its last byte is not an argument that looks like a
command behind a NOP that does not). `StaysInStep` is about the whole stream:
from the first packet on, the position is between two pairs until a packet was
sent that is odd, longer than its track or `Fooled` (`skewed`). Once out of step
it may stay so: then arguments get the signals of commands, commands are
parted from their arguments, and the length of line 662 may be negative, as it is
for a track without data. No property catches these.

Run `packet_straddle`: `NoStraddle`, the comment at lines 337 and 338 ("on
verifie qu'il n'y a pas de commande a cheval entre 2 buffers, si oui on corrige
en ajoutant 1 octet au buffer"), is violated, with packets of a number of pairs
only. The trace has a track of a command, its argument, a NOP whose byte does not
pass for a command, and an argument of that NOP that does. A packet of the four
bytes parts nothing, but the correction takes its last byte for a command and
adds the next one, the first of the track: a command, whose argument goes into
the next packet behind the synchronisation command.

Proofs (`PacketStreamProofs`, for every track of pairs and every size from 4 on):
`StreamTypes`, `PacketsFollowTrack`, `PairsNeverParted`, `SignalsOnlyInIndex`,
`SyncParts`, `StepKept`. The invariant is `TypeOK`, `Made` (the packet shown is
the one the code makes at its position) and `InStep` (as long as the stream is
not skewed, its packets are paired). The work is in lemmas about remainders
(`Remainder`, `EvenRemainder`), about `Filled` (`FilledIs`, `FilledIsTrack`,
`FilledPairs`) and about the pairs in a packet (`PairCut`, `FooledCut`).

Left out: the weak bits (`randomizebuffer`), which replace nibbles of data after
the packet is cut and may thereby change the byte of a NOP.

## 8. Not modelled, and why

Most of the repository's lines are not logic that a model can say something
about: tables and images compiled into the program (`data_*.h`, the XML layouts,
the intro's samples), generated code, and third-party code (expat, zlib, spng,
lodepng, FAT and ADF libraries). The share of the lines that the models
cover is therefore small, and would stay so if every component below
were modelled.

- Stream analyzer, track encoders and decoders, image loaders and writers:
  numeric and format code without state between calls; a small instance says
  little about thresholds and layouts, and the conversion tests in `tests/` are
  the better tool.
- XML layouts, command line tool: sequential parsers that fill a structure.
- File system manager: a table of handles in front of third-party file systems.
- Streamer and batch conversion: threads of their own. The next candidates.
- Of the modelled parts: the statistics of the USB emulation (their races lose
  counts, and nothing depends on them), the random bits of weak sectors,
  `libusbhxcfe_deInit` (the process ends after it), `ram:` files, the
  composition of `FtdiChip` with `UsbEmulation` (their product is beyond TLC:
  1.5 million states for the chip alone).

Hazards without a property are listed in `PROJECT.json` with the reason.

Every safety property of the runs that pass and both refinements are proved. Out
of the prover's reach, and left to TLC, is liveness: `LossNoticed`,
`LoadCompletes` and `StartHonoured` (USB emulation), `CallsReturn` (sector
access), `UpdateShown` (disk view) and `Delivered` (FTDI adaptor).

## 9. Plan

Done, in this order: `UsbEmulation`, `FileCache` over `ByteFile`, `SectorAccess`
over `SectorDirectory`, `ImageView`, `FtdiChip`, `PacketStream`, each with its
proofs.

Left, most useful first:

| module | models | property |
| --- | --- | --- |
| `Streamer` | the capture and display threads of `cb_floppy_streamer_window.cxx` around a network connection that may break | a capture stopped is a capture saved; no buffer used after the disconnection |
| `FsHandles` | the handle table of `fs_manager.c` | a handle names one open file; a full table opens nothing |
| `BatchConvert` | the conversion thread, its abort flag and the window that reads its list | an abort ends the thread |
| `ImageLoader` | the choice of a loader in `floppy_loader.c` | the first loader that accepts a file loads it |

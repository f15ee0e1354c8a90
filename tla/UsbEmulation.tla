---------------------------- MODULE UsbEmulation ----------------------------
(***************************************************************************)
(* The USB floppy emulator of libusbhxcfe.  Three parties share one        *)
(* USBHXCFE record without a lock:                                         *)
(*   - the listener thread (ftdichiplistener), which finds the device and  *)
(*     then answers every synchronisation byte with the next track packet; *)
(*   - the threads that load an image (libusbhxcfe_loadFloppy), which      *)
(*     replace the table of precalculated tracks the listener streams;     *)
(*   - the device behind the FTDI chip, which may be unplugged at any time.*)
(* A C flag (0 or 1) is an integer here; track data is the image it came   *)
(* from.                                                                   *)
(***************************************************************************)
EXTENDS Integers

CONSTANTS
  Loaders,      (* threads that call libusbhxcfe_loadFloppy               *)
  Images,       (* floppy images                                          *)
  Empty,        (* a track without data: the pointers are NULL            *)
  MaxTracks,    (* number_of_track is a uint8_t: 255                      *)
  TracksOf,     (* floppyNumberOfTrack of an image                        *)
  ModeOf,       (* floppyiftype of an image                               *)
  Modes,        (* interface modes in use, numbered as *_FLOPPYMODE       *)
  Hold,         (* packets the change signal is held (200 Amiga, 100 PC)  *)
  CheckPeriod,  (* packets between two alignment checks (5)               *)
  SyncRounds,   (* answers that qualify a device (8)                      *)
  FtdiLib,      (* TRUE: built on libftdi (Linux); FALSE: on ftd2xx       *)
  MaxLoads,     (* bound: loads per thread                                *)
  MaxUnplugs,   (* bound: times the device is unplugged                   *)
  MaxFaults     (* bound: unsolicited bytes and answers after a timeout   *)

ASSUME TableAssumption ==
  /\ Empty \notin Images
  /\ MaxTracks \in Nat \ {0}
  /\ TracksOf \in [Images -> 1..MaxTracks]
  /\ ModeOf \in [Images -> Modes]

ASSUME SignalAssumption ==
  /\ Modes \subseteq 0..16 /\ 0 \in Modes
  /\ Hold \in [Modes -> Nat]

ASSUME LinkAssumption ==
  /\ CheckPeriod \in Nat \ {0}
  /\ SyncRounds \in Nat \ {0}
  /\ FtdiLib \in BOOLEAN
  /\ MaxLoads \in Nat
  /\ MaxUnplugs \in Nat
  /\ MaxFaults \in Nat

VARIABLES
  \* the device and the driver
  plugged,          (* the device is on the bus                           *)
  handle,           (* hw_handle: "none", "live", or "dead" (unplugged)   *)
  syncq,            (* sync commands in the device's SRAM, not yet played *)
  rx,               (* bytes received by the driver, not yet read         *)
  unplugs, faults,  (* budgets used                                       *)
  \* the listener's own state
  lpc, probe, checkalignement, bytetoread, byteread, ftdierror,
  headmoved, l, picked,
  ackmode,          (* the mode of the switch, while a change is cleared  *)
  \* the shared USBHXCFE record
  status, synclost, running, start_emulation, stop_emulation,
  interface_mode, floppychanged, current_track, number_of_track, slot,
  \* libusbhxcfe_loadFloppy, per thread
  pc, img, idx, hs, loads,
  \* history
  clean,            (* no fault on this link since it went online         *)
  held,             (* packets that held the change signal since it rose  *)
  wpSeen            (* write-protect was pulsed since the last load       *)

device   == <<plugged, handle, syncq, rx, unplugs, faults, clean>>
link     == <<probe, checkalignement, bytetoread, byteread, ftdierror,
              status, synclost>>
change   == <<headmoved, l, ackmode, floppychanged, held, wpSeen>>
flags    == <<running, start_emulation, stop_emulation>>
table    == <<number_of_track, slot>>
load     == <<pc, img, idx, hs, loads>>
vars     == <<device, link, change, flags, table, load,
              lpc, picked, interface_mode, current_track>>

LOOKINGFOR == 1
ONLINE     == 2

\* The modes whose case in the switch handles a disk change: the PC and ST
\* modes (0..3), which pulse write-protect, and the Amiga modes (4 and 5).
WpModes    == 0..3
PulseModes == 0..5

\* libusbhxcfe_loadFloppy is replacing the tracks.
Rebuilding == {"free", "build", "change", "start"}

Live == handle = "live"

Init ==
  /\ plugged \in {0, 1} /\ handle = "none" /\ syncq = 0 /\ rx = 0
  /\ unplugs = 0 /\ faults = 0 /\ clean = 0
  /\ lpc = "lookfor" /\ probe = 0
  /\ checkalignement = 0 /\ bytetoread = 1 /\ byteread = 0 /\ ftdierror = 0
  /\ status = 0 /\ synclost = 0
  /\ headmoved = 0 /\ l = 0 /\ ackmode = 0
  /\ floppychanged = 0 /\ held = 0 /\ wpSeen = 0
  /\ running = 0 /\ start_emulation = 0 /\ stop_emulation = 0
  /\ interface_mode = 0 /\ current_track = 0 /\ picked = Empty
  /\ number_of_track = 0 /\ slot = [t \in 0 .. MaxTracks - 1 |-> Empty]
  /\ pc = [ld \in Loaders |-> "idle"]
  /\ img \in [Loaders -> Images]
  /\ idx = [ld \in Loaders |-> 0]
  /\ hs = [ld \in Loaders |-> 0]
  /\ loads = [ld \in Loaders |-> 0]

-----------------------------------------------------------------------------
(***************************************************************************)
(* The device and the FTDI driver, as the listener uses them.  The device  *)
(* plays its SRAM and sends one byte for every sync command it meets.      *)
(***************************************************************************)
Echo ==
  /\ Live /\ syncq > 0
  /\ syncq' = syncq - 1
  /\ rx' = rx + 1
  /\ UNCHANGED <<plugged, handle, unplugs, faults, clean>>

\* The host was late: the device plays old SRAM contents again.
EchoAgain ==
  /\ Live /\ faults < MaxFaults
  /\ rx' = rx + 1
  /\ faults' = faults + 1
  /\ clean' = 0
  /\ UNCHANGED <<plugged, handle, syncq, unplugs>>

\* An open handle does not survive: the device must be opened again.
Unplug ==
  /\ plugged = 1 /\ unplugs < MaxUnplugs
  /\ plugged' = 0
  /\ unplugs' = unplugs + 1
  /\ handle' = IF Live THEN "dead" ELSE handle
  /\ syncq' = 0
  /\ clean' = 0
  /\ UNCHANGED <<rx, faults>>

Plug ==
  /\ plugged = 0
  /\ plugged' = 1
  /\ UNCHANGED <<handle, syncq, rx, unplugs, faults, clean>>

Device ==
  /\ Echo \/ EchoAgain \/ Unplug \/ Plug
  /\ UNCHANGED <<link, change, flags, table, load,
                 lpc, picked, interface_mode, current_track>>

-----------------------------------------------------------------------------
(***************************************************************************)
(* The listener: detection of the device (lines 439 to 526).               *)
(***************************************************************************)
LookFor ==
  /\ lpc = "lookfor" /\ lpc' = "open"
  /\ status' = LOOKINGFOR
  /\ handle' = "none"
  /\ UNCHANGED <<plugged, syncq, rx, unplugs, faults, clean, probe,
                 checkalignement, bytetoread, byteread, ftdierror, synclost>>

\* Tried every 500 ms: while there is no device the listener stays here.
OpenDevice ==
  /\ lpc = "open" /\ lpc' = "clear"
  /\ plugged = 1
  /\ handle' = "live"
  /\ rx' = 0
  /\ UNCHANGED <<plugged, syncq, unplugs, faults, clean, link>>

\* The SRAM is overwritten with zeros: no sync command is left in it.
ClearSram ==
  /\ lpc = "clear" /\ lpc' = "silence"
  /\ syncq' = 0
  /\ rx' = 0
  /\ UNCHANGED <<plugged, handle, unplugs, faults, clean, link>>

\* A cleared device must stay silent; one that talks is looked for again.
CheckSilence ==
  /\ lpc = "silence"
  /\ lpc' = IF rx = 0 THEN "sync" ELSE "lookfor"
  /\ probe' = 0
  /\ UNCHANGED <<device, checkalignement, bytetoread, byteread, ftdierror,
                 status, synclost>>

\* The whole SRAM is rewritten with one sync command in it.
WriteSync ==
  /\ lpc = "sync" /\ lpc' = "syncwait"
  /\ syncq' = IF Live THEN 1 ELSE syncq
  /\ UNCHANGED <<plugged, handle, rx, unplugs, faults, clean, link>>

\* The answers stay in the driver until GoOnline purges it: only the event
\* each of them raises matters, so an answer is counted off here.
SyncAnswered ==
  /\ lpc = "syncwait" /\ rx > 0
  /\ lpc' = IF probe + 1 < SyncRounds THEN "sync" ELSE "online"
  /\ probe' = probe + 1
  /\ rx' = 0
  /\ UNCHANGED <<plugged, handle, syncq, unplugs, faults, clean, status,
                 checkalignement, bytetoread, byteread, ftdierror, synclost>>

\* No event within a second: certain without the device, a fault with it.
SyncTimeout ==
  /\ lpc = "syncwait" /\ lpc' = "lookfor"
  /\ \/ ~Live /\ UNCHANGED faults
     \/ Live /\ faults < MaxFaults /\ faults' = faults + 1
  /\ UNCHANGED <<plugged, handle, syncq, rx, unplugs, clean, link>>

\* The SRAM still holds one sync command, which the device plays regularly.
GoOnline ==
  /\ lpc = "online" /\ lpc' = "arm"
  /\ status' = ONLINE
  /\ rx' = 0
  /\ syncq' = IF Live THEN 1 ELSE 0
  /\ clean' = IF Live THEN 1 ELSE 0
  /\ checkalignement' = CheckPeriod
  /\ ftdierror' = 0
  /\ UNCHANGED <<plugged, handle, unplugs, faults, probe,
                 bytetoread, byteread, synclost>>

Detection ==
  /\ \/ LookFor \/ OpenDevice \/ ClearSram \/ CheckSilence \/ WriteSync
     \/ SyncAnswered \/ SyncTimeout \/ GoOnline
  /\ UNCHANGED <<change, flags, table, load,
                 picked, interface_mode, current_track>>

-----------------------------------------------------------------------------
(***************************************************************************)
(* The listener: one turn of the emulation loop (lines 539 to 807).        *)
(***************************************************************************)

\* Mutant: the second byte of an alignment check is not waited for.
OneByteExpected(ca) == 1

\* The bytes to wait for before the next packet.
BytesExpected(ca) == IF ca = 0 THEN 2 ELSE 1

Arm ==
  /\ lpc = "arm" /\ lpc' = "wait"
  /\ byteread' = 0
  /\ bytetoread' = BytesExpected(checkalignement)
  /\ UNCHANGED <<device, probe, checkalignement, ftdierror, status, synclost>>

\* Reads all the driver holds; more than expected in one read is a lost sync.
Receive ==
  /\ lpc = "wait" /\ Live /\ rx > 0
  /\ byteread' = byteread + rx
  /\ ftdierror' = IF rx > bytetoread THEN 1 ELSE 0
  /\ synclost' = IF rx > bytetoread THEN synclost + 1 ELSE synclost
  /\ rx' = 0
  /\ lpc' = IF ftdierror' = 1 \/ byteread' >= bytetoread
             THEN "decide" ELSE "wait"
  /\ UNCHANGED <<plugged, handle, syncq, unplugs, faults, clean,
                 probe, checkalignement, bytetoread, status>>

\* Mutant: getfifostatus_ftdichip never fails.
OnlyReadsReport == rx > 0

\* ftd2xx reports the loss in FT_GetStatus; libftdi only in a read, and a
\* read is tried only when bytes are pending.
LossReported == FtdiLib => rx > 0

ReceiveFails ==
  /\ lpc = "wait" /\ handle = "dead"
  /\ LossReported
  /\ ftdierror' = 1
  /\ rx' = 0
  /\ lpc' = "decide"
  /\ UNCHANGED <<plugged, handle, syncq, unplugs, faults, clean, probe,
                 checkalignement, bytetoread, byteread, status, synclost>>

Reception ==
  /\ Arm \/ Receive \/ ReceiveFails
  /\ UNCHANGED <<change, flags, table, load,
                 picked, interface_mode, current_track>>

\* Mutant: the alignment countdown is not restarted after a check.
CountdownKept(ca) == ca

\* The alignment was just checked: the next check is CheckPeriod packets away.
CountdownAfter(ca) == IF ca = 0 THEN CheckPeriod ELSE ca

\* Mutant: only an emulation that is also asked to start is stopped.
StopIfStarted == stop_emulation = 1 /\ start_emulation = 1

StopAsked == stop_emulation = 1

\* "stop ou encore ?": reads stop_emulation, and with it set stops at once.
DecideStop ==
  /\ lpc = "decide"
  /\ checkalignement' = CountdownAfter(checkalignement)
  /\ IF StopAsked
     THEN running' = 0 /\ lpc' = "serve"
     ELSE lpc' = "decidestart" /\ UNCHANGED running
  /\ UNCHANGED <<start_emulation, stop_emulation>>
  /\ UNCHANGED <<device, probe, bytetoread, byteread, ftdierror, status,
                 synclost, change, table, load,
                 picked, interface_mode, current_track>>

DecideStart ==
  /\ lpc = "decidestart"
  /\ lpc' = IF start_emulation = 1 THEN "setrunning" ELSE "serve"
  /\ UNCHANGED <<device, link, change, flags, table, load,
                 picked, interface_mode, current_track>>

SetRunning ==
  /\ lpc = "setrunning" /\ lpc' = "serve"
  /\ running' = 1
  /\ UNCHANGED <<start_emulation, stop_emulation>>
  /\ UNCHANGED <<device, link, change, table, load,
                 picked, interface_mode, current_track>>

\* After an error the device is looked for again; otherwise the byte received
\* says whether the heads moved and on which track they are.
Serve ==
  /\ lpc = "serve"
  /\ \/ /\ ftdierror = 1
        /\ lpc' = "lookfor"
        /\ UNCHANGED <<headmoved, current_track>>
     \/ /\ ftdierror = 0
        /\ headmoved' \in {headmoved, 1}
        /\ current_track' \in 0 .. MaxTracks
        /\ lpc' = IF running = 1 THEN "fill" ELSE "standby"
  /\ UNCHANGED <<device, link, l, ackmode, floppychanged, held, wpSeen, flags,
                 table, load, picked, interface_mode>>

\* The track under the heads: the last one when they are beyond it.
TrackPosition ==
  IF current_track < number_of_track THEN current_track
  ELSE IF number_of_track = 0 THEN 0 ELSE number_of_track - 1

\* Mutant: the packet counter is not reset when the change is acknowledged.
CountKept == l

\* The packet counter once the change has been held and the heads moved.
CountAfterAck == 0

\* The disk change signal of FillBuffer: held for Hold packets, then until the
\* heads move.  In the other modes the signal is constant and nothing changes.
HoldChange ==
  /\ interface_mode \in PulseModes /\ floppychanged = 1
  /\ l <= Hold[interface_mode]
  /\ l' = l + 1
  /\ held' = held + 1
  /\ wpSeen' = IF interface_mode \in WpModes THEN 1 ELSE wpSeen
  /\ lpc' = "copy"
  /\ UNCHANGED <<headmoved, ackmode, floppychanged>>

\* Held long enough: the change is kept until the heads move, and is then
\* acknowledged by AcknowledgeChange.
HeldLongEnough ==
  /\ interface_mode \in PulseModes /\ floppychanged = 1
  /\ l > Hold[interface_mode]
  /\ IF headmoved = 1
     THEN lpc' = "ack" /\ ackmode' = interface_mode
     ELSE lpc' = "copy" /\ UNCHANGED ackmode
  /\ UNCHANGED <<headmoved, l, floppychanged, held, wpSeen>>

NoChange ==
  /\ interface_mode \in PulseModes /\ floppychanged = 0
  /\ headmoved' = 0
  /\ lpc' = "copy"
  /\ UNCHANGED <<l, ackmode, floppychanged, held, wpSeen>>

ConstantChange ==
  /\ interface_mode \notin PulseModes
  /\ lpc' = "copy"
  /\ UNCHANGED change

\* FillBuffer, up to the choice of the track and of the signals.
FillBuffer ==
  /\ lpc = "fill"
  /\ picked' = slot[TrackPosition]
  /\ HoldChange \/ HeldLongEnough \/ NoChange \/ ConstantChange
  /\ UNCHANGED <<device, link, flags, table, load,
                 interface_mode, current_track>>

\* FillBuffer clears floppychanged in a step of its own: a load may publish a
\* disk, or the interface mode may change, after the switch has read them.
AcknowledgeChange ==
  /\ lpc = "ack" /\ lpc' = "copy"
  /\ floppychanged' = 0
  /\ headmoved' = 0
  /\ l' = CountAfterAck
  /\ held' = 0 /\ ackmode' = 0
  /\ UNCHANGED wpSeen
  /\ UNCHANGED <<device, link, flags, table, load, picked,
                 interface_mode, current_track>>

\* Mutant: the packet that checks the alignment carries one sync command too.
OneSync(ca) == 1

\* One sync command per packet, two in the packet that checks the alignment.
SyncsIn(ca) == IF ca = 0 THEN 2 ELSE 1

\* Writes the packet; a write to a dead handle fails and ends the loop.
WritePacket ==
  /\ checkalignement' = checkalignement - 1
  /\ syncq' = IF Live THEN syncq + SyncsIn(checkalignement') ELSE syncq
  /\ ftdierror' = IF Live THEN 0 ELSE 1
  /\ lpc' = IF Live THEN "arm" ELSE "lookfor"
  /\ UNCHANGED <<plugged, handle, rx, unplugs, faults, clean,
                 probe, bytetoread, byteread, status, synclost>>

StreamPacket ==
  /\ lpc = "copy"
  /\ WritePacket
  /\ picked' = Empty
  /\ UNCHANGED <<change, flags, table, load, interface_mode, current_track>>

StandbyPacket ==
  /\ lpc = "standby"
  /\ WritePacket
  /\ UNCHANGED <<change, flags, table, load,
                 picked, interface_mode, current_track>>

Listener ==
  \/ Detection \/ Reception
  \/ DecideStop \/ DecideStart \/ SetRunning \/ Serve
  \/ FillBuffer \/ AcknowledgeChange \/ StreamPacket \/ StandbyPacket

-----------------------------------------------------------------------------
(***************************************************************************)
(* libusbhxcfe_loadFloppy.  hs records whether the stop handshake was      *)
(* made: it is skipped when running is 0 on entry.                         *)
(***************************************************************************)
GoTo(ld, from, to) == pc[ld] = from /\ pc' = [pc EXCEPT ![ld] = to]

Others == <<device, link, lpc, picked, current_track>>

LoadFloppy(ld) ==
  /\ loads[ld] < MaxLoads
  /\ GoTo(ld, "idle", IF running = 1 THEN "clearstart" ELSE "free")
  /\ loads' = [loads EXCEPT ![ld] = @ + 1]
  /\ \E im \in Images : img' = [img EXCEPT ![ld] = im]
  /\ hs' = [hs EXCEPT ![ld] = running]
  /\ idx' = [idx EXCEPT ![ld] = 0]
  /\ UNCHANGED <<Others, change, flags, table, interface_mode>>

ClearStart(ld) ==
  /\ GoTo(ld, "clearstart", "setstop")
  /\ start_emulation' = 0
  /\ UNCHANGED <<running, stop_emulation, img, idx, hs, loads>>
  /\ UNCHANGED <<Others, change, table, interface_mode>>

SetStop(ld) ==
  /\ GoTo(ld, "setstop", "spin")
  /\ stop_emulation' = 1
  /\ UNCHANGED <<running, start_emulation, img, idx, hs, loads>>
  /\ UNCHANGED <<Others, change, table, interface_mode>>

\* Mutant: the loader does not wait for the listener to stop.
StopRequested == stop_emulation = 1

Stopped == running = 0

\* do { hxc_pause(16) } while (running)
SeenStopped(ld) ==
  /\ GoTo(ld, "spin", "clearstop")
  /\ Stopped
  /\ UNCHANGED <<flags, img, idx, hs, loads>>
  /\ UNCHANGED <<Others, change, table, interface_mode>>

\* Mutant: the stop request is left standing.
StopLeft == 1

StopWithdrawn == 0

ClearStop(ld) ==
  /\ GoTo(ld, "clearstop", "free")
  /\ stop_emulation' = StopWithdrawn
  /\ UNCHANGED <<running, start_emulation, img, idx, hs, loads>>
  /\ UNCHANGED <<Others, change, table, interface_mode>>

FreeTrack(ld) ==
  /\ idx[ld] < number_of_track
  /\ GoTo(ld, "free", "free")
  /\ slot' = [slot EXCEPT ![idx[ld]] = Empty]
  /\ idx' = [idx EXCEPT ![ld] = @ + 1]
  /\ UNCHANGED <<number_of_track, img, hs, loads>>
  /\ UNCHANGED <<Others, change, flags, interface_mode>>

SetNumberOfTrack(ld) ==
  /\ idx[ld] >= number_of_track
  /\ GoTo(ld, "free", "build")
  /\ number_of_track' = TracksOf[img[ld]]
  /\ idx' = [idx EXCEPT ![ld] = 0]
  /\ UNCHANGED <<slot, img, hs, loads>>
  /\ UNCHANGED <<Others, change, flags, interface_mode>>

\* Mutant: the last track is not converted.
AllButOne(ld) == TracksOf[img[ld]] - 1

TracksToBuild(ld) == TracksOf[img[ld]]

BuildTrack(ld) ==
  /\ idx[ld] < TracksToBuild(ld)
  /\ GoTo(ld, "build", "build")
  /\ slot' = [slot EXCEPT ![idx[ld]] = img[ld]]
  /\ idx' = [idx EXCEPT ![ld] = @ + 1]
  /\ UNCHANGED <<number_of_track, img, hs, loads>>
  /\ UNCHANGED <<Others, change, flags, interface_mode>>

PublishMode(ld) ==
  /\ idx[ld] >= TracksToBuild(ld)
  /\ GoTo(ld, "build", "change")
  /\ interface_mode' = ModeOf[img[ld]]
  /\ UNCHANGED <<img, idx, hs, loads>>
  /\ UNCHANGED <<Others, change, flags, table>>

\* A second change before the first was acknowledged finds floppychanged
\* already set.
PublishChange(ld) ==
  /\ GoTo(ld, "change", "start")
  /\ floppychanged' = 1
  /\ wpSeen' = 0
  /\ UNCHANGED <<img, idx, hs, loads, headmoved, l, ackmode, held>>
  /\ UNCHANGED <<Others, flags, table, interface_mode>>

StartEmulation(ld) ==
  /\ GoTo(ld, "start", "idle")
  /\ start_emulation' = 1
  /\ UNCHANGED <<running, stop_emulation, img, idx, hs, loads>>
  /\ UNCHANGED <<Others, change, table, interface_mode>>

Loader(ld) ==
  \/ LoadFloppy(ld) \/ ClearStart(ld) \/ SetStop(ld) \/ SeenStopped(ld)
  \/ ClearStop(ld) \/ FreeTrack(ld) \/ SetNumberOfTrack(ld)
  \/ BuildTrack(ld) \/ PublishMode(ld) \/ PublishChange(ld)
  \/ StartEmulation(ld)

\* libusbhxcfe_setInterfaceMode, called from the user interface at any time.
SetInterfaceMode ==
  /\ interface_mode' \in Modes
  /\ UNCHANGED <<Others, change, flags, table, load>>

Next ==
  \/ Device
  \/ Listener
  \/ \E ld \in Loaders : Loader(ld)
  \/ SetInterfaceMode

Spec == Init /\ [][Next]_vars

\* Each thread keeps running (they are scheduled by the system), and the device
\* answers what it is sent.  Nothing makes the user plug a device in.
Fairness ==
  /\ WF_vars(Listener)
  /\ \A ld \in Loaders : WF_vars(Loader(ld))
  /\ WF_vars(Device /\ Echo)

FairSpec == Spec /\ Fairness

-----------------------------------------------------------------------------
(***************************************************************************)
(* Properties.                                                             *)
(***************************************************************************)

\* Types.  The countdown checkalignement never leaves 0..CheckPeriod: both
\* branches of the loop decrement it and the code compares it with 0 only.  The
\* counter l never passes the longest hold time by more than one, whatever
\* changes of mode come between its increment and its test.
TypeOK ==
  /\ plugged \in {0, 1} /\ handle \in {"none", "live", "dead"}
  /\ syncq \in Nat /\ rx \in Nat /\ unplugs \in Nat /\ faults \in Nat
  /\ lpc \in {"lookfor", "open", "clear", "silence", "sync", "syncwait",
              "online", "arm", "wait", "decide", "decidestart", "setrunning",
              "serve", "fill", "ack", "copy", "standby"}
  /\ probe \in 0 .. SyncRounds
  /\ checkalignement \in 0 .. CheckPeriod
  /\ bytetoread \in {1, 2} /\ byteread \in Nat /\ ftdierror \in {0, 1}
  /\ status \in {0, LOOKINGFOR, ONLINE} /\ synclost \in Nat
  /\ headmoved \in {0, 1} /\ floppychanged \in {0, 1}
  /\ l \in Nat /\ \E m \in Modes : l <= Hold[m] + 1
  /\ ackmode \in Modes
  /\ running \in {0, 1} /\ start_emulation \in {0, 1}
  /\ stop_emulation \in {0, 1}
  /\ interface_mode \in Modes /\ current_track \in 0 .. MaxTracks
  /\ number_of_track \in 0 .. MaxTracks
  /\ slot \in [0 .. MaxTracks - 1 -> Images \union {Empty}]
  /\ picked \in Images \union {Empty}
  /\ pc \in [Loaders -> {"idle", "clearstart", "setstop", "spin", "clearstop"}
                        \union Rebuilding]
  /\ img \in [Loaders -> Images] /\ idx \in [Loaders -> 0 .. MaxTracks]
  /\ hs \in [Loaders -> {0, 1}] /\ loads \in [Loaders -> 0 .. MaxLoads]
  /\ clean \in {0, 1} /\ held \in Nat /\ wpSeen \in {0, 1}

\* The stop handshake works: once a loader has seen running at 0, the listener
\* streams no track, and is not about to, until the loader has finished (the
\* listener re-reads start and stop in separate steps, lines 594 to 604).
HandshakeHolds ==
  \A ld \in Loaders :
    hs[ld] = 1 /\ pc[ld] \in {"clearstop"} \union Rebuilding
      => running = 0 /\ lpc \notin {"setrunning", "fill", "ack", "copy"}

\* A load that found running at 0 replaces the tracks without the handshake.
UnsynchronisedLoad ==
  \E ld \in Loaders : hs[ld] = 0 /\ pc[ld] \in Rebuilding

\* When FillBuffer chooses a track (line 175), the table is that of one whole
\* image, unless an unsynchronised load is under way.
WholeImage ==
  lpc = "fill" /\ ~UnsynchronisedLoad =>
    \E im \in Images :
      /\ number_of_track = TracksOf[im]
      /\ \A t \in 0 .. number_of_track - 1 : slot[t] = im

\* While the link is sound the listener waits for exactly the bytes that the
\* device still owes it: as many sync commands are under way as it counts on
\* (lines 543 to 550 against 654 to 669 and 792).
SyncsMatch ==
  lpc = "wait" /\ clean = 1 => syncq + rx + byteread = bytetoread

\* The listener never sees a lost synchronisation that no fault caused, so a
\* sound link is never taken down (lines 563 to 570).
SyncLostOnlyByFault ==
  /\ synclost <= faults
  /\ ftdierror = 1 /\ lpc \in {"decide", "decidestart", "setrunning", "serve"}
       => clean = 0

\* The change signal is never dropped before it was held for Hold packets,
\* as many as the mode that drops it asks for, whatever loads and interface
\* changes happen meanwhile (lines 193 to 287).
PulseHeld ==
  [][floppychanged = 1 /\ floppychanged' = 0 => held > Hold[ackmode]]_vars

\* The loss of the device is noticed: the dead handle is closed, so that the
\* device is looked for again (the release notes of 0.9.1.0 say that it can be
\* unplugged and plugged in while the application runs).
LossNoticed == handle = "dead" ~> handle # "dead"

\* The device stays, or is plugged in again for good.
DeviceStays == <>[](plugged = 1)

\* Every load ends if the device stays: only its absence can hold loadFloppy in
\* its handshake (lines 894 to 897), because only a listener that is online
\* reads stop_emulation.
LoadCompletes ==
  DeviceStays => \A ld \in Loaders : pc[ld] # "idle" ~> pc[ld] = "idle"

\* An image that was loaded is emulated if the device stays, unless another load
\* stops it first.
StartHonoured ==
  DeviceStays => (start_emulation = 1 ~> running = 1 \/ start_emulation = 0)

\* In running mode there is an image to send (comment of line 629).
StreamsAnImage == lpc = "copy" => picked # Empty

\* In the ST and PC modes every load pulses write-protect before the host's
\* next head movement can acknowledge the change.
EveryLoadPulses ==
  [][floppychanged = 1 /\ floppychanged' = 0 /\ ackmode \in WpModes
       => wpSeen = 1]_vars
=============================================================================

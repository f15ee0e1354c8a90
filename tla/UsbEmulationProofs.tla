------------------------- MODULE UsbEmulationProofs -------------------------
(***************************************************************************)
(* Proofs about UsbEmulation, for every number of images, tracks, packets, *)
(* faults and unplugs.                                                     *)
(***************************************************************************)
EXTENDS UsbEmulation, TLAPS

USE DEF Live, LOOKINGFOR, ONLINE, Rebuilding

-----------------------------------------------------------------------------
(***************************************************************************)
(* Types.  TypeOK is not inductive: the countdown must be positive when a  *)
(* packet is written, and a qualification round must be left to count.     *)
(***************************************************************************)
Deciding == {"decidestart", "setrunning", "serve", "fill", "ack", "copy", "standby"}

TypeInv ==
  /\ TypeOK
  /\ lpc \in Deciding => checkalignement > 0
  /\ lpc \in {"sync", "syncwait"} => probe < SyncRounds

\* The initial state of the record, the thread and the device is well typed.
LEMMA TypeInit == Init => TypeInv
  BY TableAssumption, SignalAssumption, LinkAssumption
  DEF Init, TypeInv, TypeOK, Deciding

\* The device and driver keep the types.
LEMMA TypeDevice == TypeInv /\ Device => TypeInv'
  <1> SUFFICES ASSUME TypeInv, Device PROVE TypeInv'
    OBVIOUS
  <1> USE DEF TypeInv, TypeOK, Deciding, link, change, flags, table, load
  <1>1. CASE Echo
    BY <1>1 DEF Device, Echo
  <1>2. CASE EchoAgain
    BY <1>2 DEF Device, EchoAgain
  <1>3. CASE Unplug
    BY <1>3 DEF Device, Unplug
  <1>4. CASE Plug
    BY <1>4 DEF Device, Plug
  <1> QED
    BY <1>1, <1>2, <1>3, <1>4 DEF Device

\* Detection keeps the types: probe counts the answered rounds only.
LEMMA TypeDetection == TypeInv /\ Detection => TypeInv'
  <1> SUFFICES ASSUME TypeInv, Detection PROVE TypeInv'
    OBVIOUS
  <1> USE LinkAssumption
      DEF TypeInv, TypeOK, Deciding, device, link, change, flags, table, load
  <1>1. CASE LookFor
    BY <1>1 DEF Detection, LookFor
  <1>2. CASE OpenDevice
    BY <1>2 DEF Detection, OpenDevice
  <1>3. CASE ClearSram
    BY <1>3 DEF Detection, ClearSram
  <1>4. CASE CheckSilence
    BY <1>4 DEF Detection, CheckSilence
  <1>5. CASE WriteSync
    BY <1>5 DEF Detection, WriteSync
  <1>6. CASE SyncAnswered
    <2>1. probe' \in 0 .. SyncRounds
      BY <1>6 DEF SyncAnswered
    <2> QED
      BY <1>6, <2>1 DEF Detection, SyncAnswered
  <1>7. CASE SyncTimeout
    BY <1>7 DEF Detection, SyncTimeout
  <1>8. CASE GoOnline
    BY <1>8 DEF Detection, GoOnline
  <1> QED
    BY <1>1, <1>2, <1>3, <1>4, <1>5, <1>6, <1>7, <1>8 DEF Detection

\* The emulation loop keeps the types, the countdown included.
LEMMA TypeEmulation ==
  TypeInv /\ (Reception \/ DecideStop \/ DecideStart \/ SetRunning \/ Serve
               \/ FillBuffer \/ AcknowledgeChange
               \/ StreamPacket \/ StandbyPacket)
    => TypeInv'
  <1> SUFFICES ASSUME TypeInv,
                      Reception \/ DecideStop \/ DecideStart \/ SetRunning
                      \/ Serve \/ FillBuffer \/ AcknowledgeChange
               \/ StreamPacket \/ StandbyPacket
               PROVE TypeInv'
    OBVIOUS
  <1> USE TableAssumption, LinkAssumption
      DEF TypeInv, TypeOK, Deciding, device, link, change, flags, table, load
  <1>1. CASE Reception
    <2>1. CASE Arm
      BY <1>1, <2>1 DEF Reception, Arm, BytesExpected
    <2>2. CASE Receive
      BY <1>1, <2>2 DEF Reception, Receive
    <2>3. CASE ReceiveFails
      BY <1>1, <2>3 DEF Reception, ReceiveFails
    <2> QED
      BY <1>1, <2>1, <2>2, <2>3 DEF Reception
  <1>2. CASE DecideStop
    BY <1>2 DEF DecideStop, CountdownAfter
  <1>3. CASE DecideStart
    BY <1>3 DEF DecideStart
  <1>4. CASE SetRunning
    BY <1>4 DEF SetRunning
  <1>5. CASE Serve
    BY <1>5 DEF Serve
  <1>6. CASE FillBuffer
    <2>1. TrackPosition \in 0 .. MaxTracks - 1
      BY DEF TrackPosition
    <2>2. picked' \in Images \union {Empty}
      BY <1>6, <2>1 DEF FillBuffer
    <2>3. /\ headmoved' \in {0, 1} /\ floppychanged' \in {0, 1}
          /\ l' \in Nat /\ held' \in Nat /\ wpSeen' \in {0, 1}
          /\ ackmode' \in Modes /\ lpc' \in {"ack", "copy"}
      BY <1>6 DEF FillBuffer, HoldChange, HeldLongEnough, NoChange, ConstantChange
    <2>5. \E m \in Modes : l' <= Hold[m] + 1
      <3>1. CASE HoldChange
        <4>1. interface_mode \in Modes /\ l' = l + 1 /\ l <= Hold[interface_mode]
              /\ l \in Nat /\ Hold[interface_mode] \in Nat
          BY <3>1, SignalAssumption DEF HoldChange
        <4> QED
          BY <4>1
      <3>2. CASE UNCHANGED l
        BY <3>2
      <3> QED
        BY <1>6, <3>1, <3>2
        DEF FillBuffer, HeldLongEnough, NoChange, ConstantChange
    <2>4. /\ lpc = "fill"
          /\ UNCHANGED <<device, link, flags, table, load,
                         interface_mode, current_track>>
      BY <1>6 DEF FillBuffer
    <2> QED
      BY <2>2, <2>3, <2>4, <2>5
  <1>7. CASE StreamPacket
    BY <1>7 DEF StreamPacket, WritePacket, SyncsIn
  <1>8. CASE StandbyPacket
    BY <1>8 DEF StandbyPacket, WritePacket, SyncsIn
  <1>9. CASE AcknowledgeChange
    BY <1>9, SignalAssumption DEF AcknowledgeChange, CountAfterAck
  <1> QED
    BY <1>1, <1>2, <1>3, <1>4, <1>5, <1>6, <1>7, <1>8, <1>9

\* A load keeps the types: the track index stays within the table.
LEMMA TypeLoader ==
  ASSUME TypeInv, NEW ld \in Loaders, Loader(ld) PROVE TypeInv'
  <1> USE TableAssumption
      DEF TypeInv, TypeOK, Deciding, Others, GoTo,
          device, link, change, flags, table, load
  <1>1. CASE LoadFloppy(ld)
    <2>1. loads' \in [Loaders -> 0 .. MaxLoads]
      BY <1>1, LinkAssumption DEF LoadFloppy
    <2>2. img' \in [Loaders -> Images]
      BY <1>1 DEF LoadFloppy
    <2> QED
      BY <1>1, <2>1, <2>2 DEF LoadFloppy
  <1>2. CASE ClearStart(ld)
    BY <1>2 DEF ClearStart
  <1>3. CASE SetStop(ld)
    BY <1>3 DEF SetStop
  <1>4. CASE SeenStopped(ld)
    BY <1>4 DEF SeenStopped
  <1>5. CASE ClearStop(ld)
    BY <1>5 DEF ClearStop, StopWithdrawn
  <1>6. CASE FreeTrack(ld)
    BY <1>6 DEF FreeTrack
  <1>7. CASE SetNumberOfTrack(ld)
    BY <1>7 DEF SetNumberOfTrack
  <1>8. CASE BuildTrack(ld)
    BY <1>8 DEF BuildTrack, TracksToBuild
  <1>9. CASE PublishMode(ld)
    BY <1>9 DEF PublishMode
  <1>10. CASE PublishChange(ld)
    BY <1>10 DEF PublishChange
  <1>11. CASE StartEmulation(ld)
    BY <1>11 DEF StartEmulation
  <1> QED
    BY <1>1, <1>2, <1>3, <1>4, <1>5, <1>6, <1>7, <1>8, <1>9, <1>10, <1>11
    DEF Loader

\* Every state is well typed, with any number of loading threads.
THEOREM TypeCorrect == Spec => []TypeInv
  <1>1. TypeInv /\ [Next]_vars => TypeInv'
    <2> SUFFICES ASSUME TypeInv, [Next]_vars PROVE TypeInv'
      OBVIOUS
    <2>1. CASE Device
      BY <2>1, TypeDevice
    <2>2. CASE Listener
      BY <2>2, TypeDetection, TypeEmulation DEF Listener
    <2>3. CASE \E ld \in Loaders : Loader(ld)
      BY <2>3, TypeLoader
    <2>4. CASE SetInterfaceMode
      BY <2>4 DEF SetInterfaceMode, Others, TypeInv, TypeOK, Deciding,
                  device, link, change, flags, table, load
    <2>5. CASE UNCHANGED vars
      BY <2>5 DEF vars, TypeInv, TypeOK, Deciding,
                  device, link, change, flags, table, load
    <2> QED
      BY <2>1, <2>2, <2>3, <2>4, <2>5 DEF Next
  <1> QED
    BY <1>1, TypeInit, PTL DEF Spec

\* Every field of the USBHXCFE record and every counter of the two threads keeps
\* its type (usb_hxcfloppyemulator.c).
THEOREM TypeOKHolds == Spec => []TypeOK
  BY TypeCorrect, PTL DEF TypeInv

-----------------------------------------------------------------------------
(***************************************************************************)
(* The stop handshake, with one loading thread.  The invariant says why it *)
(* works: stop_emulation is only ever set while the loader waits, so once  *)
(* the listener has cleared running it can no longer pass DecideStop, and  *)
(* when stop_emulation is cleared start_emulation already is.              *)
(***************************************************************************)
OneLoader == \A a, b \in Loaders : a = b

Waiting == {"spin", "clearstop"}

HandshakeInv ==
  /\ lpc \in {"fill", "ack", "copy"} => running = 1
  /\ \A ld \in Loaders :
       /\ stop_emulation = 1 <=> pc[ld] \in Waiting
       /\ pc[ld] \in {"clearstart", "setstop"} \union Waiting => hs[ld] = 1
       /\ pc[ld] \in {"clearstart", "setstop"} => running = 1
       /\ hs[ld] = 1 /\ pc[ld] \in {"setstop"} \union Waiting \union Rebuilding
            => start_emulation = 0
       /\ pc[ld] \in Waiting /\ running = 0
            => lpc \notin {"decidestart", "setrunning"}
       /\ pc[ld] = "clearstop" => running = 0
       /\ hs[ld] = 1 /\ pc[ld] \in Rebuilding
            => running = 0 /\ lpc # "setrunning"

\* The device touches no flag.
LEMMA HandshakeDevice ==
  HandshakeInv /\ (Device \/ Detection \/ Reception) => HandshakeInv'
  <1> SUFFICES ASSUME HandshakeInv, Device \/ Detection \/ Reception
               PROVE HandshakeInv'
    OBVIOUS
  <1> USE DEF HandshakeInv, flags, load
  <1>1. CASE Device
    BY <1>1 DEF Device
  <1>2. CASE Detection
    BY <1>2 DEF Detection, LookFor, OpenDevice, ClearSram, CheckSilence,
                WriteSync, SyncAnswered, SyncTimeout, GoOnline
  <1>3. CASE Reception
    BY <1>3 DEF Reception, Arm, Receive, ReceiveFails
  <1> QED
    BY <1>1, <1>2, <1>3

\* The listener decides, and streams only while running is set.
LEMMA HandshakeListener ==
  ASSUME TypeInv, HandshakeInv, Listener, Loaders # {}
  PROVE HandshakeInv'
  <1> USE DEF HandshakeInv, flags, load, Waiting
  <1>1. CASE Detection \/ Reception
    BY <1>1, HandshakeDevice
  <1>2. CASE DecideStop
    BY <1>2 DEF DecideStop, StopAsked, TypeInv, TypeOK
  <1>3. CASE DecideStart
    BY <1>3 DEF DecideStart, TypeInv, TypeOK
  <1>4. CASE SetRunning
    BY <1>4 DEF SetRunning, TypeInv, TypeOK
  <1>5. CASE Serve
    BY <1>5 DEF Serve
  <1>6. CASE FillBuffer \/ AcknowledgeChange
    BY <1>6 DEF FillBuffer, HoldChange, HeldLongEnough, NoChange,
                ConstantChange, AcknowledgeChange
  <1>7. CASE StreamPacket
    BY <1>7 DEF StreamPacket, WritePacket
  <1>8. CASE StandbyPacket
    BY <1>8 DEF StandbyPacket, WritePacket
  <1> QED
    BY <1>1, <1>2, <1>3, <1>4, <1>5, <1>6, <1>7, <1>8 DEF Listener

\* A load, in a process with one loading thread.
LEMMA HandshakeLoader ==
  ASSUME TypeInv, HandshakeInv, OneLoader, NEW ld \in Loaders, Loader(ld)
  PROVE HandshakeInv'
  <1>1. /\ Loaders = {ld}
        /\ pc \in [Loaders -> {"idle", "clearstart", "setstop", "spin",
                               "clearstop"} \union Rebuilding]
        /\ hs \in [Loaders -> {0, 1}]
        /\ running \in {0, 1} /\ stop_emulation \in {0, 1}
    BY DEF OneLoader, TypeInv, TypeOK
  <1> USE <1>1 DEF HandshakeInv, Waiting, GoTo, Others, flags
  <1>2. CASE LoadFloppy(ld)
    BY <1>2 DEF LoadFloppy
  <1>3. CASE ClearStart(ld)
    BY <1>3 DEF ClearStart
  <1>4. CASE SetStop(ld)
    BY <1>4 DEF SetStop
  <1>5. CASE SeenStopped(ld)
    BY <1>5 DEF SeenStopped, Stopped
  <1>6. CASE ClearStop(ld)
    BY <1>6 DEF ClearStop, StopWithdrawn
  <1>7. CASE FreeTrack(ld)
    BY <1>7 DEF FreeTrack
  <1>8. CASE SetNumberOfTrack(ld)
    BY <1>8 DEF SetNumberOfTrack
  <1>9. CASE BuildTrack(ld)
    BY <1>9 DEF BuildTrack
  <1>10. CASE PublishMode(ld) \/ PublishChange(ld)
    BY <1>10 DEF PublishMode, PublishChange
  <1>11. CASE StartEmulation(ld)
    BY <1>11 DEF StartEmulation
  <1> QED
    BY <1>2, <1>3, <1>4, <1>5, <1>6, <1>7, <1>8, <1>9, <1>10, <1>11 DEF Loader

\* The reasons why the stop handshake works hold in every state, with one
\* loading thread.
THEOREM HandshakeInvariant ==
  ASSUME OneLoader, Loaders # {} PROVE Spec => []HandshakeInv
  <1>1. Init => HandshakeInv
    BY DEF Init, HandshakeInv, Waiting
  <1>2. TypeInv /\ HandshakeInv /\ [Next]_vars => HandshakeInv'
    <2> SUFFICES ASSUME TypeInv, HandshakeInv, [Next]_vars
                 PROVE HandshakeInv'
      OBVIOUS
    <2>1. CASE Device
      BY <2>1, HandshakeDevice
    <2>2. CASE Listener
      BY <2>2, HandshakeListener
    <2>3. CASE \E ld \in Loaders : Loader(ld)
      BY <2>3, HandshakeLoader
    <2>4. CASE SetInterfaceMode
      BY <2>4 DEF SetInterfaceMode, Others, HandshakeInv, flags, load
    <2>5. CASE UNCHANGED vars
      BY <2>5 DEF vars, HandshakeInv, flags, load
    <2> QED
      BY <2>1, <2>2, <2>3, <2>4, <2>5 DEF Next
  <1> QED
    BY <1>1, <1>2, TypeCorrect, PTL DEF Spec

\* The stop handshake works for a single loading thread: no track is streamed
\* between the moment the loader sees running at 0 and the end of its load.
THEOREM HandshakeCorrect ==
  ASSUME OneLoader, Loaders # {} PROVE Spec => []HandshakeHolds
  <1>1. HandshakeInv => HandshakeHolds
    BY DEF HandshakeInv, HandshakeHolds, Waiting
  <1> QED
    BY <1>1, HandshakeInvariant, PTL

-----------------------------------------------------------------------------
(***************************************************************************)
(* The table of tracks, with one loading thread: outside of a load it      *)
(* holds one whole image as soon as anything can be streamed.              *)
(***************************************************************************)
WholeTable ==
  \E im \in Images :
    /\ number_of_track = TracksOf[im]
    /\ \A t \in 0 .. number_of_track - 1 : slot[t] = im

MayStream == running = 1 \/ start_emulation = 1 \/ lpc = "setrunning"

TableInv ==
  \A ld \in Loaders :
    /\ pc[ld] = "build" =>
         /\ number_of_track = TracksOf[img[ld]]
         /\ \A t \in 0 .. idx[ld] - 1 : slot[t] = img[ld]
    /\ pc[ld] \in {"change", "start"} => WholeTable
    /\ pc[ld] \notin Rebuilding /\ MayStream => WholeTable

\* The listener reads the table and leaves it as it is.
LEMMA TableListener ==
  TableInv /\ (Device \/ Listener \/ SetInterfaceMode) => TableInv'
  <1> SUFFICES ASSUME TableInv, Device \/ Listener \/ SetInterfaceMode
               PROVE TableInv'
    OBVIOUS
  <1>1. UNCHANGED <<table, load>>
    BY DEF Device, Listener, Detection, Reception, DecideStop, DecideStart,
           SetRunning, Serve, FillBuffer,
           AcknowledgeChange, StreamPacket, StandbyPacket, SetInterfaceMode
  <1>2. MayStream' => MayStream
    BY DEF MayStream, flags, Others, Device, Listener, Detection, Reception,
           LookFor, OpenDevice, ClearSram, CheckSilence, WriteSync,
           SyncAnswered, SyncTimeout, GoOnline, Arm, Receive, ReceiveFails,
           DecideStop, DecideStart, SetRunning, Serve, FillBuffer,
           HoldChange, HeldLongEnough, NoChange, ConstantChange,
           AcknowledgeChange, StreamPacket, StandbyPacket, WritePacket, SetInterfaceMode
  <1> QED
    BY <1>1, <1>2 DEF TableInv, WholeTable, table, load

\* A load replaces the table only while nothing streams it, or skips the
\* handshake.
LEMMA TableLoader ==
  ASSUME TypeInv, TableInv, HandshakeInv, OneLoader,
         NEW ld \in Loaders, Loader(ld)
  PROVE TableInv'
  <1>1. /\ Loaders = {ld}
        /\ pc \in [Loaders -> {"idle", "clearstart", "setstop", "spin",
                               "clearstop"} \union Rebuilding]
        /\ img \in [Loaders -> Images] /\ idx \in [Loaders -> 0 .. MaxTracks]
        /\ slot \in [0 .. MaxTracks - 1 -> Images \union {Empty}]
        /\ number_of_track \in 0 .. MaxTracks
        /\ running \in {0, 1} /\ start_emulation \in {0, 1}
    BY DEF OneLoader, TypeInv, TypeOK
  <1> USE <1>1 DEF TableInv, WholeTable, MayStream, GoTo, Others, flags, table
  <1>2. CASE LoadFloppy(ld)
    BY <1>2 DEF LoadFloppy
  <1>3. CASE ClearStart(ld)
    BY <1>3 DEF ClearStart
  <1>4. CASE SetStop(ld)
    BY <1>4 DEF SetStop
  <1>5. CASE SeenStopped(ld)
    BY <1>5 DEF SeenStopped
  <1>6. CASE ClearStop(ld)
    BY <1>6 DEF ClearStop
  <1>7. CASE FreeTrack(ld)
    BY <1>7 DEF FreeTrack
  <1>8. CASE SetNumberOfTrack(ld)
    BY <1>8 DEF SetNumberOfTrack
  <1>9. CASE BuildTrack(ld)
    <2>1. idx[ld] \in 0 .. MaxTracks - 1
      BY <1>9, TableAssumption DEF BuildTrack, TracksToBuild
    <2> QED
      BY <1>9, <2>1 DEF BuildTrack
  <1>10. CASE PublishMode(ld)
    <2>1. \A t \in 0 .. number_of_track - 1 : slot[t] = img[ld]
      BY <1>10, TableAssumption DEF PublishMode, TracksToBuild
    <2> QED
      BY <1>10, <2>1 DEF PublishMode
  <1>11. CASE PublishChange(ld)
    BY <1>11 DEF PublishChange
  <1>12. CASE StartEmulation(ld)
    BY <1>12 DEF StartEmulation
  <1> QED
    BY <1>2, <1>3, <1>4, <1>5, <1>6, <1>7, <1>8, <1>9, <1>10, <1>11, <1>12
    DEF Loader

\* What FillBuffer streams is a whole image, unless a load that skipped the
\* handshake is replacing it: a single loading thread and any images.
THEOREM WholeImageCorrect ==
  ASSUME OneLoader, Loaders # {} PROVE Spec => []WholeImage
  <1>1. Init => TableInv
    <2> SUFFICES ASSUME Init, NEW ld \in Loaders
                 PROVE pc[ld] = "idle" /\ ~MayStream
      BY DEF TableInv
    <2> QED
      BY DEF Init, MayStream
  <1>2. TypeInv /\ HandshakeInv /\ TableInv /\ [Next]_vars => TableInv'
    <2> SUFFICES ASSUME TypeInv, HandshakeInv, TableInv, [Next]_vars
                 PROVE TableInv'
      OBVIOUS
    <2>1. CASE Device \/ Listener \/ SetInterfaceMode
      BY <2>1, TableListener
    <2>2. CASE \E ld \in Loaders : Loader(ld)
      BY <2>2, TableLoader
    <2>3. CASE UNCHANGED vars
      BY <2>3 DEF vars, TableInv, WholeTable, MayStream, table, load, flags
    <2> QED
      BY <2>1, <2>2, <2>3 DEF Next
  <1>3. TypeInv /\ HandshakeInv /\ TableInv => WholeImage
    <2> SUFFICES ASSUME TypeInv, HandshakeInv, TableInv,
                        lpc = "fill", ~UnsynchronisedLoad
                 PROVE WholeTable
      BY DEF WholeImage, WholeTable
    <2>1. running = 1
      BY DEF HandshakeInv
    <2>2. PICK ld \in Loaders : pc[ld] \notin Rebuilding
      BY <2>1 DEF HandshakeInv, UnsynchronisedLoad, TypeInv, TypeOK
    <2> QED
      BY <2>1, <2>2 DEF TableInv, MayStream
  <1> QED
    BY <1>1, <1>2, <1>3, TypeCorrect, HandshakeInvariant, PTL DEF Spec

-----------------------------------------------------------------------------
(***************************************************************************)
(* The synchronisation bytes.  LinkInv counts the bytes the device owes at *)
(* every point of the loop, and ties each lost synchronisation to a fault  *)
(* of its own.                                                             *)
(***************************************************************************)
Turning == Deciding \union {"arm", "wait", "decide"}

LinkInv ==
  /\ clean = 1 => Live /\ lpc \in Turning /\ ftdierror = 0
  /\ clean = 1 /\ lpc = "arm" => syncq + rx = BytesExpected(checkalignement)
  /\ clean = 1 /\ lpc = "wait" =>
       /\ bytetoread = BytesExpected(checkalignement)
       /\ syncq + rx + byteread = bytetoread
  /\ clean = 1 /\ lpc \in Deciding \union {"decide"} => syncq = 0 /\ rx = 0
  /\ lpc \in {"arm", "wait", "fill", "ack", "copy", "standby"} => ftdierror = 0
  /\ synclost <= faults
  /\ Live /\ lpc \in Turning /\ ftdierror = 0 /\ clean = 0
       => synclost < faults

\* An echo moves a byte from the device to the driver; a fault ends the clean link.
LEMMA LinkDevice == TypeInv /\ LinkInv /\ Device => LinkInv'
  <1> SUFFICES ASSUME TypeInv, LinkInv, Device PROVE LinkInv'
    OBVIOUS
  <1> USE DEF TypeInv, TypeOK, LinkInv, Turning, Deciding, BytesExpected, link
  <1>1. CASE Echo
    BY <1>1 DEF Device, Echo
  <1>2. CASE EchoAgain
    BY <1>2 DEF Device, EchoAgain
  <1>3. CASE Unplug
    BY <1>3 DEF Device, Unplug
  <1>4. CASE Plug
    BY <1>4 DEF Device, Plug
  <1> QED
    BY <1>1, <1>2, <1>3, <1>4 DEF Device

\* Detection ends with one synchronisation under way.
LEMMA LinkDetection == TypeInv /\ LinkInv /\ Detection => LinkInv'
  <1> SUFFICES ASSUME TypeInv, LinkInv, Detection PROVE LinkInv'
    OBVIOUS
  <1> USE LinkAssumption
      DEF TypeInv, TypeOK, LinkInv, Turning, Deciding, BytesExpected,
          device, link
  <1>1. CASE LookFor \/ OpenDevice
    BY <1>1 DEF LookFor, OpenDevice
  <1>2. CASE ClearSram \/ CheckSilence
    BY <1>2 DEF ClearSram, CheckSilence
  <1>3. CASE WriteSync
    BY <1>3 DEF WriteSync
  <1>4. CASE SyncAnswered \/ SyncTimeout
    BY <1>4 DEF SyncAnswered, SyncTimeout
  <1>5. CASE GoOnline
    BY <1>5 DEF GoOnline
  <1> QED
    BY <1>1, <1>2, <1>3, <1>4, <1>5 DEF Detection

\* A turn of the loop waits for what the last packet carried.
LEMMA LinkTurn ==
  ASSUME TypeInv, LinkInv,
         Reception \/ DecideStop \/ DecideStart \/ SetRunning \/ Serve
         \/ FillBuffer \/ AcknowledgeChange
               \/ StreamPacket \/ StandbyPacket
  PROVE LinkInv'
  <1> USE LinkAssumption
      DEF TypeInv, TypeOK, LinkInv, Turning, Deciding, BytesExpected,
          device, link
  <1>1. CASE Arm
    BY <1>1 DEF Arm
  <1>2. CASE Receive
    BY <1>2 DEF Receive
  <1>3. CASE ReceiveFails
    BY <1>3 DEF ReceiveFails
  <1>4. CASE DecideStop
    BY <1>4 DEF DecideStop, CountdownAfter
  <1>5. CASE DecideStart \/ SetRunning
    BY <1>5 DEF DecideStart, SetRunning
  <1>6. CASE Serve
    BY <1>6 DEF Serve
  <1>7. CASE FillBuffer \/ AcknowledgeChange
    BY <1>7 DEF FillBuffer, HoldChange, HeldLongEnough, NoChange,
                ConstantChange, AcknowledgeChange
  <1>8. CASE StreamPacket \/ StandbyPacket
    BY <1>8 DEF StreamPacket, StandbyPacket, WritePacket, SyncsIn
  <1> QED
    BY <1>1, <1>2, <1>3, <1>4, <1>5, <1>6, <1>7, <1>8 DEF Reception

\* The count of the synchronisation bytes owed holds in every state.
THEOREM LinkInvariant == Spec => []LinkInv
  <1>1. Init => LinkInv
    BY DEF Init, LinkInv, Turning, Deciding
  <1>2. TypeInv /\ LinkInv /\ [Next]_vars => LinkInv'
    <2> SUFFICES ASSUME TypeInv, LinkInv, [Next]_vars PROVE LinkInv'
      OBVIOUS
    <2>1. CASE Device
      BY <2>1, LinkDevice
    <2>2. CASE Listener
      BY <2>2, LinkDetection, LinkTurn DEF Listener
    <2>3. CASE UNCHANGED <<device, link, lpc>>
      BY <2>3 DEF LinkInv, BytesExpected, device, link
    <2>4. CASE \E ld \in Loaders : Loader(ld)
      BY <2>3, <2>4 DEF Loader, LoadFloppy, ClearStart, SetStop, SeenStopped,
         ClearStop, FreeTrack, SetNumberOfTrack, BuildTrack, PublishMode,
         PublishChange, StartEmulation, Others
    <2>5. CASE SetInterfaceMode
      BY <2>3, <2>5 DEF SetInterfaceMode, Others
    <2> QED
      BY <2>1, <2>2, <2>3, <2>4, <2>5 DEF Next, vars
  <1> QED
    BY <1>1, <1>2, TypeCorrect, PTL DEF Spec

\* On a sound link the listener waits for exactly the bytes it is owed.
THEOREM SyncsMatchCorrect == Spec => []SyncsMatch
  <1>1. LinkInv => SyncsMatch
    BY DEF LinkInv, SyncsMatch
  <1> QED
    BY <1>1, LinkInvariant, PTL

\* Every lost synchronisation is due to a fault, and errors to nothing else.
THEOREM SyncLostCorrect == Spec => []SyncLostOnlyByFault
  <1>1. TypeInv /\ LinkInv => SyncLostOnlyByFault
    BY DEF TypeInv, TypeOK, LinkInv, SyncLostOnlyByFault
  <1> QED
    BY <1>1, TypeCorrect, LinkInvariant, PTL

-----------------------------------------------------------------------------
(***************************************************************************)
(* The disk change signal: l counts exactly the packets it was held for.   *)
(***************************************************************************)
PulseInv ==
  /\ held = l
  /\ lpc = "ack" => floppychanged = 1 /\ held > Hold[ackmode]

\* No step changes the packet counter without the packets it counts.
LEMMA PulseStep == TypeInv /\ PulseInv /\ [Next]_vars => PulseInv'
  <1> SUFFICES ASSUME TypeInv, PulseInv, [Next]_vars PROVE PulseInv'
    OBVIOUS
  <1> USE DEF PulseInv, change
  <1>1. CASE /\ UNCHANGED <<l, held, ackmode>>
             /\ lpc' # "ack" \/ UNCHANGED <<lpc, floppychanged>>
    BY <1>1
  <1>2. CASE FillBuffer
    BY <1>2, SignalAssumption
    DEF FillBuffer, HoldChange, HeldLongEnough, NoChange, ConstantChange,
        TypeInv, TypeOK
  <1>3. CASE AcknowledgeChange
    BY <1>3 DEF AcknowledgeChange, CountAfterAck
  <1>4. CASE \E ld \in Loaders : Loader(ld)
    BY <1>4 DEF Loader, Others, LoadFloppy, ClearStart, SetStop, SeenStopped,
                ClearStop, FreeTrack, SetNumberOfTrack, BuildTrack, PublishMode,
                PublishChange, StartEmulation
  <1>5. CASE Detection \/ Reception
    BY <1>1, <1>5
    DEF Detection, Reception, LookFor, OpenDevice, ClearSram, CheckSilence,
        WriteSync, SyncAnswered, SyncTimeout, GoOnline, Arm, Receive,
        ReceiveFails, TypeInv, TypeOK
  <1>6. CASE DecideStop \/ DecideStart \/ SetRunning \/ Serve
             \/ StreamPacket \/ StandbyPacket
    BY <1>1, <1>6
    DEF DecideStop, DecideStart, SetRunning, Serve, StreamPacket,
        StandbyPacket, WritePacket
  <1>7. CASE Device \/ SetInterfaceMode \/ UNCHANGED vars
    BY <1>1, <1>7 DEF Device, SetInterfaceMode, Others, vars
  <1> QED
    BY <1>2, <1>3, <1>4, <1>5, <1>6, <1>7 DEF Next, Listener

\* The change signal is held for Hold packets before it can be dropped, for
\* every hold time and any number of loading threads.
THEOREM PulseHeldCorrect == Spec => PulseHeld
  <1>1. Init => PulseInv
    BY DEF Init, PulseInv
  <1>2. TypeInv /\ PulseInv /\ [Next]_vars
          => [floppychanged = 1 /\ floppychanged' = 0
                => held > Hold[ackmode]]_vars
    <2> SUFFICES ASSUME TypeInv, PulseInv, Next,
                        floppychanged = 1, floppychanged' = 0
                 PROVE held > Hold[ackmode]
      OBVIOUS
    <2>1. AcknowledgeChange
      BY DEF Next, vars, Device, Listener, Detection, Reception, DecideStop,
        DecideStart, SetRunning, Serve, FillBuffer, HoldChange,
        HeldLongEnough, NoChange, ConstantChange, StreamPacket, StandbyPacket,
        Loader, LoadFloppy, ClearStart, SetStop, SeenStopped, ClearStop,
        FreeTrack, SetNumberOfTrack, BuildTrack, PublishMode,
        PublishChange, StartEmulation,
        SetInterfaceMode, change
    <2> QED
      BY <2>1 DEF AcknowledgeChange, PulseInv
  <1> QED
    BY <1>1, <1>2, PulseStep, TypeCorrect, PTL DEF Spec, PulseHeld
=============================================================================

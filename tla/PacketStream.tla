---------------------------- MODULE PacketStream ----------------------------
(***************************************************************************)
(* The packets that the USB emulation cuts out of a circular track         *)
(* (FillBuffer, ftdichiplistener of usb_hxcfloppyemulator.c).  A track is  *)
(* made of pairs of bytes (GetNewTrackRevolution): MFM data of the two     *)
(* heads, or a command and its argument.  A byte stands here for what the  *)
(* code tests of it, iscmd and the nibble 0xC of the index command, and    *)
(* for its place in a pair.  The weak bits (randomizebuffer) are left out. *)
(***************************************************************************)
EXTENDS Integers, Sequences

CONSTANTS
  Tracks,       (* the tracks; the empty one stands for one with no data   *)
  Memory,       (* what may lie behind a track: functions of the place     *)
  Sizes,        (* packet sizes: 512 .. 4096, any integer of the slider    *)
  CheckPeriod,  (* packets between two alignment checks (5)                *)
  NoPacket      (* no packet was sent of this track and size               *)

(***************************************************************************)
(* First bytes: data; the opcodes of an index and of a bit rate; the NOP   *)
(* of one head with four bits of data for the other, 0x7X or 0xX7, which   *)
(* iscmd takes for a command ("command", and "nopindex" with a nibble 0xC) *)
(* or, with most of the data of head 0, does not ("nop").  Second bytes:   *)
(* most are nothing to iscmd ("argument"); some pass for a command, some   *)
(* of these have a nibble 0xC ("likeindex"), as a bit rate may have        *)
(* without passing for one ("lowindex").                                   *)
(***************************************************************************)
Commands == {"command", "setindex", "nop", "nopindex"}
Arguments == {"argument", "likecommand", "likeindex", "lowindex"}
Bytes == {"data"} \union Commands \union Arguments

\* The data of both heads merged is no command (adjustrand), that of one is
\* taken as it comes.
Pairs == {<<"data", "data">>, <<"setindex", "argument">>, <<"command", "lowindex">>}
         \union ({"command", "nop", "nopindex"} \X {"argument", "likecommand", "likeindex"})

\* A track is a sequence of pairs.
IsTrack(t) ==
  /\ t \in Seq(Bytes) /\ Len(t) % 2 = 0
  /\ \A k \in 0 .. Len(t) - 1 : k % 2 = 0 => <<t[k + 1], t[k + 2]>> \in Pairs

ASSUME PacketAssumption ==
  /\ \A t \in Tracks : IsTrack(t)
  /\ \A s \in Sizes : s \in Nat /\ s > 3
  /\ CheckPeriod \in Nat \ {0}

VARIABLES
  track,            (* precalcusbtrack under the heads                     *)
  trackbuffer_pos,
  packetsize,
  checkalignement,
  packet,           (* the packet sent last                                *)
  skewed            (* history: a packet was sent that is odd, longer than *)
                    (* the track or Fooled                                 *)

vars == <<track, trackbuffer_pos, packetsize, checkalignement, packet, skewed>>

-----------------------------------------------------------------------------
\* iscmd: the high nibble is 7, 0xC or 0xD, or the byte is.
iscmd(b) == b \in {"command", "setindex", "nopindex", "likecommand", "likeindex"}

\* The byte k of a track; past its end it is what the memory m holds.
At(t, k, m) == IF k < Len(t) THEN t[k + 1] ELSE m[k]

\* Mutant of Rest: the byte at the end of the track is sent twice.
RestMore(t, pos, size) == pos + size - Len(t) + 1

\* Bytes of a packet that rolls over which come from the start of the track.
Rest(t, pos, size) == pos + size - Len(t)

RollsOver(t, pos, size) == pos + size >= Len(t)

\* The packet: one piece of the track, or two.
Cut(t, pos, size, m) ==
  LET head == size - Rest(t, pos, size)
  IN  [j \in 0 .. size - 1 |->
         IF RollsOver(t, pos, size) /\ j >= head THEN At(t, j - head, m)
         ELSE At(t, pos + j, m)]

Cursor(t, pos, size) ==
  IF RollsOver(t, pos, size) THEN Rest(t, pos, size) ELSE pos + size

\* Mutant of Astride: the byte before is not looked at.
AstrideAny(p, size) == iscmd(p[size - 1])

\* The last byte is a command, and not the argument of one.
Astride(p, size) == iscmd(p[size - 1]) /\ ~iscmd(p[size - 2])

(***************************************************************************)
(* FillBuffer.  A packet that ends in a command is one byte longer.  With  *)
(* no data of the track nothing is copied: the buffer holds what it held.  *)
(***************************************************************************)
Filled(t, pos, size, m) ==
  LET start == pos % Len(t)
      p     == Cut(t, start, size, m)
      cur   == Cursor(t, start, size)
  IN  IF t = <<>> THEN [start |-> pos, bytes |-> m, count |-> 0, next |-> pos]
      ELSE IF Astride(p, size)
      THEN [start |-> start,
            bytes |-> [j \in 0 .. size |-> IF j < size THEN p[j] ELSE At(t, cur, m)],
            count |-> size + 1, next |-> (cur + 1) % Len(t)]
      ELSE [start |-> start, bytes |-> p, count |-> size, next |-> cur % Len(t)]

\* A nibble is 0xC.
isindex(b) == b \in {"setindex", "nopindex", "likeindex", "lowindex"}

\* Mutant of Patched: the bytes are looked at one by one.
PatchedAny(p, count) == {k + 1 : k \in {j \in 0 .. count - 1 : isindex(p[j])}}

\* patchbuffer: the bytes that get the signals of the drive.
Patched(p, count) ==
  {k + 1 : k \in {j \in 0 .. count - 1 : j % 2 = 0 /\ isindex(p[j])}}

\* Mutant of Quiet: the bytes are looked at one by one.
QuietAny(p, count, k) == k >= 3 /\ (k >= count \/ ~iscmd(p[k]))

\* A place for the second sync command: no command stands there.  The first
\* place is looked at whatever the size of the packet.
Quiet(p, count, k) == k % 2 = 0 /\ k >= 2 /\ ((k > 2 /\ k >= count) \/ ~iscmd(p[k]))

\* The loop of lines 639 to 646.
Insertion(p, count) ==
  CHOOSE k \in 2 .. count + 4 :
    Quiet(p, count, k) /\ \A j \in 2 .. k - 1 : ~Quiet(p, count, j)

\* The number of bytes of the rest of the packet; negative, it is a huge size.
Behind(p, count) == count - Insertion(p, count)

\* srambuffer2: a sync command first and, for a check, another one further on.
Sent(p, count, check) ==
  LET i == Insertion(p, count)
  IN  IF check
      THEN [j \in 0 .. count + 3 |->
              IF j \in {0, i + 2} THEN "sync" ELSE IF j \in {1, i + 3} THEN "track"
              ELSE IF j < i + 2 THEN p[j - 2] ELSE p[j - 4]]
      ELSE [j \in 0 .. count + 1 |->
              IF j = 0 THEN "sync" ELSE IF j = 1 THEN "track" ELSE p[j - 2]]

-----------------------------------------------------------------------------
Init ==
  /\ track \in Tracks /\ packetsize \in Sizes
  /\ trackbuffer_pos = 0 /\ checkalignement = CheckPeriod /\ packet = NoPacket
  /\ skewed = FALSE

\* Mutant of Counted: the countdown is not restarted.
CountedOn == checkalignement - 1

\* The countdown, restarted after a check.
Counted == (IF checkalignement = 0 THEN CheckPeriod ELSE checkalignement) - 1

\* A packet of pairs whose last byte is an argument that iscmd takes for a
\* command, behind a command that it does not take for one (lines 339, 341).
Fooled(p, size) ==
  p[size - 2] = "nop" /\ p[size - 1] \in {"likecommand", "likeindex"}

\* The packets may be out of step with the pairs from here on.
Skews(p) == packetsize % 2 = 1 \/ packetsize > Len(track) \/ Fooled(p, packetsize)

(***************************************************************************)
(* One answer of the emulation to the device.  A second sync command that  *)
(* falls behind the packet would copy a negative number of bytes, which    *)
(* is a huge one: nothing is said of what is sent then.                    *)
(***************************************************************************)
SendPacket ==
  \E m \in Memory :
    LET f     == Filled(track, trackbuffer_pos, packetsize, m)
        check == Counted = 0
    IN  /\ checkalignement' = Counted
        /\ trackbuffer_pos' = f.next
        /\ packet' = [start |-> f.start, size |-> packetsize,
                      count |-> f.count, bytes |-> f.bytes,
                      patched |-> Patched(f.bytes, f.count),
                      check |-> check, i |-> Insertion(f.bytes, f.count),
                      sent |-> IF check /\ Behind(f.bytes, f.count) < 0 THEN <<>>
                               ELSE Sent(f.bytes, f.count, check)]
        /\ skewed' = (skewed \/ (track # <<>> /\ Skews(f.bytes)))
        /\ UNCHANGED <<track, packetsize>>

\* The heads move to another track, or an image is loaded.
Seek ==
  /\ track' \in Tracks /\ packet' = NoPacket
  /\ UNCHANGED <<trackbuffer_pos, packetsize, checkalignement, skewed>>

\* libusbhxcfe_setUSBBufferSize
SetUSBBufferSize ==
  /\ packetsize' \in Sizes /\ packet' = NoPacket
  /\ UNCHANGED <<track, trackbuffer_pos, checkalignement, skewed>>

Next == SendPacket \/ Seek \/ SetUSBBufferSize

Spec == Init /\ [][Next]_vars

-----------------------------------------------------------------------------
\* The position and the countdown have their types.
TypeOK ==
  /\ track \in Tracks /\ packetsize \in Sizes
  /\ trackbuffer_pos \in Nat /\ checkalignement \in 0 .. CheckPeriod
  /\ skewed \in BOOLEAN

\* A packet was sent, of a track that has data.
Packet == packet # NoPacket /\ track # <<>>

\* It starts between two pairs, is a number of them that the track has, and
\* iscmd is right about its end.
Paired ==
  /\ packet.start % 2 = 0 /\ packet.size % 2 = 0 /\ packet.size <= Len(track)
  /\ ~Fooled(packet.bytes, packet.size)

(***************************************************************************)
(* A packet no longer than the track is the piece of the circular track    *)
(* after the piece sent before: no byte is lost, sent twice or read past   *)
(* the end of the track (lines 314-345).                                   *)
(***************************************************************************)
PacketIsTrack ==
  Packet /\ packet.size <= Len(track) =>
    /\ \A j \in 0 .. packet.count - 1 :
         packet.bytes[j] = track[((packet.start + j) % Len(track)) + 1]
    /\ trackbuffer_pos = (packet.start + packet.count) % Len(track)

(***************************************************************************)
(* A packet of paired bytes never parts a command from its argument, and   *)
(* the next one starts between two pairs too.                              *)
(***************************************************************************)
Straddles == packet.bytes[packet.count - 1] \in Commands

PairsKept == Packet /\ Paired => ~Straddles /\ trackbuffer_pos % 2 = 0

(***************************************************************************)
(* Whatever packets were sent, tracks came under the heads and sizes were  *)
(* chosen, the position stays between two pairs and no packet parts a      *)
(* command from its argument, unless one was odd, longer than its track or *)
(* Fooled: no other thing puts the stream out of step (lines 316-350).     *)
(***************************************************************************)
StaysInStep ==
  ~skewed => trackbuffer_pos % 2 = 0 /\ (Packet => ~Straddles)

(***************************************************************************)
(* In a packet of paired bytes the signals of the drive go behind every    *)
(* command with a nibble 0xC, an index command or a NOP with such data,    *)
(* and nowhere else, whatever the arguments look like (lines 68-83).       *)
(***************************************************************************)
SignalsPatched ==
  Packet /\ Paired =>
    packet.patched = {k + 1 : k \in {j \in 0 .. packet.count - 1 :
                                       packet.bytes[j] \in {"setindex", "nopindex"}}}

(***************************************************************************)
(* In a packet of paired bytes the second sync command is inside the       *)
(* packet, does not part a command from its argument, and the rest of the  *)
(* packet follows it (lines 636-669).  It says nothing of a track without  *)
(* data, nor of a packet that is out of step: there the length of line 662 *)
(* can be negative.                                                        *)
(***************************************************************************)
SyncBetweenPairs ==
  Packet /\ Paired /\ packet.check =>
    /\ packet.i \in 2 .. packet.count
    /\ packet.bytes[packet.i - 1] \notin Commands
    /\ \A k \in 0 .. packet.count - 1 :
         packet.bytes[k] = packet.sent[k + IF k < packet.i THEN 2 ELSE 4]

(***************************************************************************)
(* "on verifie qu'il n'y a pas de commande a cheval entre 2 buffers, si    *)
(* oui on corrige en ajoutant 1 octet au buffer" (lines 337-338).          *)
(***************************************************************************)
NoStraddle == Packet /\ packet.size <= Len(track) => ~Straddles
=============================================================================

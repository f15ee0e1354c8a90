------------------------------ MODULE ByteFile ------------------------------
(***************************************************************************)
(* What the file cache of libhxcadaptor promises its users: a file of      *)
(* bytes that can be read and written at any offset.  A write beyond the   *)
(* end first extends the file with zeros, one byte at a time.  Every call  *)
(* leaves its reply with its arguments.  A call that cannot write back what *)
(* is unsaved does not report success and leaves the file as it was; once  *)
(* the medium has failed in any other way nothing more is promised.        *)
(***************************************************************************)
EXTENDS Integers

CONSTANTS
  Bytes,     (* the values of a byte                                      *)
  Fill,      (* the fill value given to open_file                         *)
  MaxSize,   (* bound: the longest file                                   *)
  NoWrite    (* no write beyond the end is under way                      *)

VARIABLES
  content,   (* content[i] for i < size                                   *)
  size,
  pending,   (* the write beyond the end under way: [offset, byte]        *)
  reply,     (* of the last call: [op, offset, byte, result]              *)
  unsaved,   (* bytes were written that may not be on the medium          *)
  damaged    (* the medium failed                                         *)

avars == <<content, size, pending, reply, unsaved, damaged>>

Offsets == 0 .. MaxSize - 1

\* Bytes beyond the end are not part of the file.
Same(c, d, n) == \A i \in 0 .. n - 1 : c[i] = d[i]

Reply(op, o, b, res) == [op |-> op, offset |-> o, byte |-> b, result |-> res]

AInit ==
  /\ size \in 0 .. MaxSize
  /\ content \in [Offsets -> Bytes]
  /\ pending = NoWrite /\ reply = Reply("none", 0, Fill, "ok")
  /\ unsaved = FALSE /\ damaged = 0

\* What is unsaved may be written back by any call, and stays until it is.
MayBeSaved == unsaved' => unsaved

\* open_file in write mode makes a file of n fill bytes.
ACreate ==
  /\ pending = NoWrite
  /\ size' \in 0 .. MaxSize
  /\ \A i \in 0 .. size' - 1 : content'[i] = Fill
  /\ unsaved' = FALSE
  /\ UNCHANGED <<pending, reply, damaged>>

\* A read returns the byte at the offset asked for, and the fill value beyond
\* the end of the file.
ARead ==
  /\ pending = NoWrite
  /\ \E o \in Offsets :
       reply' = Reply("get", o, IF o < size THEN content[o] ELSE Fill, "ok")
  /\ Same(content', content, size)
  /\ MayBeSaved
  /\ UNCHANGED <<size, pending, damaged>>

\* A read that cannot save what is unsaved returns 0 and leaves the caller's
\* flag as it was.
AReadFails ==
  /\ pending = NoWrite
  /\ unsaved /\ unsaved'
  /\ \E o \in Offsets : reply' = Reply("get", o, 0, "unset")
  /\ Same(content', content, size)
  /\ UNCHANGED <<size, pending, damaged>>

AWrite(o, b) ==
  /\ o < size
  /\ content'[o] = b
  /\ \A i \in 0 .. size - 1 : i # o => content'[i] = content[i]
  /\ reply' = Reply("set", o, b, "ok")
  /\ unsaved'
  /\ UNCHANGED <<size, damaged>>

AWriteInside ==
  /\ pending = NoWrite
  /\ \E o \in Offsets, b \in Bytes : AWrite(o, b)
  /\ UNCHANGED pending

\* A write that cannot save what is unsaved says so.
AWriteFails ==
  /\ pending = NoWrite
  /\ unsaved /\ unsaved'
  /\ \E o \in Offsets, b \in Bytes : reply' = Reply("set", o, b, "failed")
  /\ Same(content', content, size)
  /\ UNCHANGED <<size, pending, damaged>>

ABeginExtend ==
  /\ pending = NoWrite
  /\ \E o \in Offsets, b \in Bytes : o >= size /\ pending' = [offset |-> o, byte |-> b]
  /\ Same(content', content, size)
  /\ UNCHANGED <<size, reply, unsaved, damaged>>

AExtend ==
  /\ pending # NoWrite /\ size <= pending.offset
  /\ size' = size + 1
  /\ content'[size] = 0
  /\ Same(content', content, size)
  /\ unsaved'
  /\ UNCHANGED <<pending, reply, damaged>>

AEndExtend ==
  /\ pending # NoWrite
  /\ AWrite(pending.offset, pending.byte)
  /\ pending' = NoWrite

\* Opening and closing.
AMove ==
  /\ Same(content', content, size)
  /\ MayBeSaved
  /\ UNCHANGED <<size, pending, reply, damaged>>

\* The medium fails; from then on anything goes.
ADamage == damaged' = 1

ANext ==
  \/ damaged = 0 /\ \/ ACreate \/ ARead \/ AReadFails \/ AWriteInside \/ AWriteFails
                    \/ ABeginExtend \/ AExtend \/ AEndExtend \/ AMove
  \/ ADamage

ASpec == AInit /\ [][ANext]_avars
=============================================================================

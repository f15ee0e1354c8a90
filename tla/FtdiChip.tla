------------------------------ MODULE FtdiChip ------------------------------
(***************************************************************************)
(* The adaptor of the FTDI chip built on libftdi (ftdi.c).  Every open     *)
(* starts a listener thread (FTDIListener) that reads the chip and appends *)
(* to rx_fifo; the caller's thread (ftdichiplistener) takes from it,       *)
(* purges it, and closes the chip.  The two share rx_fifo, stop_thread and *)
(* two events without a lock.  A byte is its number in the order in which  *)
(* the listeners received it.                                              *)
(***************************************************************************)
EXTENDS Integers, Sequences, FiniteSets

CONSTANTS
  BufferSize,   (* BUFFERSIZE: 32 KiB, a power of two                      *)
  MaxBytes,     (* bound: bytes the chip sends                             *)
  MaxOpens,     (* bound: times the chip is opened                         *)
  MaxPurges     (* bound: purges                                           *)

ASSUME SizeAssumption ==
  BufferSize \in Nat \ {0} /\ MaxBytes \in Nat /\ MaxOpens \in Nat /\ MaxPurges \in Nat

\* One listener for every open; each is one thread.
Listeners == 1 .. MaxOpens

VARIABLES
  usb,          (* the chip is open: "open" or "closed"                    *)
  gone,         (* it was unplugged: reads fail until it is closed         *)
  received,     (* bytes taken from the chip so far                        *)
  BUFFER, ptr_in, ptr_out,  (* rx_fifo                                     *)
  RXBUFFER,     (* bytes of the last read of the chip                      *)
  stop_thread,
  at, i, n, ptr,(* per listener: its place, its loop, ptr_in as it read it *)
  pc, RxBytes, byteread,    (* the caller: its call, level, bytes read     *)
  opens, purges,(* budgets used                                            *)
  floor,        (* history: the last byte the caller got or purged         *)
  purged,       (* history: the last byte received before the last purge   *)
  history       (* history: "full", the FIFO was filled; "left", a close   *)
                (* left a listener alive; "raced", a purge met an append   *)
                (* and rx_fifo was not read to its end since; "back", it   *)
                (* met one that had read ptr_in and not written it yet     *)

fifo   == <<BUFFER, ptr_in, ptr_out>>
chip   == <<usb, gone, received>>
thread == <<at, i, n, ptr, RXBUFFER>>
call   == <<pc, RxBytes, byteread>>
budget == <<opens, purges>>
ghost  == <<floor, purged, history>>
vars   == <<chip, fifo, thread, stop_thread, call, budget, ghost>>

Alive == {t \in Listeners : at[t] # "off"}

\* Mutant of Chunk: more is asked for.
LargeChunk == 3

\* Bytes asked for in a read of the chip.
Chunk == 2

Init ==
  /\ usb = "closed" /\ gone = FALSE /\ received = 0
  /\ BUFFER = [k \in 0 .. BufferSize - 1 |-> 0] /\ ptr_in = 0 /\ ptr_out = 0
  /\ RXBUFFER = [j \in 1 .. Chunk |-> 0] /\ stop_thread = 0
  /\ at = [t \in Listeners |-> "off"] /\ i = [t \in Listeners |-> 0]
  /\ n = [t \in Listeners |-> 0] /\ ptr = [t \in Listeners |-> 0]
  /\ pc = "closed" /\ RxBytes = 0 /\ byteread = 0
  /\ opens = 0 /\ purges = 0
  /\ floor = 0 /\ purged = 0 /\ history = {}

Next1(p) == (p + 1) % BufferSize

\* The bytes in the FIFO, as getfifostatus_ftdichip counts them.
Level(in, out) == (in - out) % BufferSize

\* The last byte stored: every one received but the rest of a chunk.
Rest(t) == IF at[t] \in {"store", "load", "advance"} THEN i[t] .. n[t] - 1 ELSE {}
Stored == received - Cardinality(UNION {{t} \X Rest(t) : t \in Listeners})

-----------------------------------------------------------------------------
(***************************************************************************)
(* FTDIListener.  p_ftdi_read_data (external) gives up to two bytes, none, *)
(* or fails when the chip is closed or gone.                               *)
(***************************************************************************)
Go(t, from, to) == at[t] = from /\ at' = [at EXCEPT ![t] = to]

Receive(t) ==
  /\ usb = "open" /\ ~gone /\ Go(t, "poll", "store")
  /\ \E k \in 1 .. Chunk :
       /\ received + k <= MaxBytes /\ received' = received + k
       /\ n' = [n EXCEPT ![t] = k]
       /\ RXBUFFER' = [j \in 1 .. Chunk |-> IF j <= k THEN received + j ELSE RXBUFFER[j]]
  /\ i' = [i EXCEPT ![t] = 0]
  /\ UNCHANGED <<usb, gone, fifo, ptr, stop_thread, call, budget, ghost>>

ReceiveFails(t) ==
  /\ (usb = "closed" \/ gone) /\ Go(t, "poll", "stop")
  /\ UNCHANGED <<chip, fifo, i, n, ptr, RXBUFFER, stop_thread, call, budget, ghost>>

Store(t) ==
  /\ Go(t, "store", "load") /\ BUFFER' = [BUFFER EXCEPT ![ptr_in] = RXBUFFER[i[t] + 1]]
  /\ UNCHANGED <<chip, ptr_in, ptr_out, i, n, ptr, RXBUFFER, stop_thread, call, budget, ghost>>

\* The increment of ptr_in reads it ...
LoadIn(t) ==
  /\ Go(t, "load", "advance") /\ ptr' = [ptr EXCEPT ![t] = ptr_in]
  /\ UNCHANGED <<chip, fifo, i, n, RXBUFFER, stop_thread, call, budget, ghost>>

\* Mutant of Advanced: the pointer runs past the end of the buffer.
AdvancedUnmasked(p) == p + 1

Advanced(p) == Next1(p)

\* ... and writes it.
Advance(t) ==
  /\ Go(t, "advance", IF i[t] + 1 < n[t] THEN "store" ELSE "check")
  /\ ptr_in' = Advanced(ptr[t]) /\ i' = [i EXCEPT ![t] = i[t] + 1]
  /\ ptr' = [ptr EXCEPT ![t] = 0]
  /\ history' = IF ptr_in' = ptr_out THEN history \union {"full"} ELSE history
  /\ UNCHANGED <<chip, BUFFER, ptr_out, n, RXBUFFER, stop_thread, call, budget,
                 floor, purged>>

Stop(t) ==
  /\ Go(t, "stop", "check") /\ stop_thread' = 1
  /\ UNCHANGED <<chip, fifo, i, n, ptr, RXBUFFER, call, budget, ghost>>

(***************************************************************************)
(* setevent(READ_THREAD_EVENT) wakes the caller that waits; then the loop  *)
(* goes round, or ends with setevent(STOP_THREAD_EVENT).  A signal that    *)
(* nobody waits for is lost.                                               *)
(***************************************************************************)
Check(t) ==
  /\ Go(t, "check", IF stop_thread = 1 THEN "off" ELSE "poll")
  /\ pc' = IF pc = "wait" THEN "status" ELSE pc
  /\ i' = [i EXCEPT ![t] = 0] /\ n' = [n EXCEPT ![t] = 0]
  /\ UNCHANGED <<chip, fifo, ptr, RXBUFFER, stop_thread, RxBytes, byteread,
                 budget, ghost>>

Listener(t) ==
  \/ Receive(t) \/ ReceiveFails(t) \/ Store(t) \/ LoadIn(t) \/ Advance(t)
  \/ Stop(t) \/ Check(t)

-----------------------------------------------------------------------------
(***************************************************************************)
(* The caller's thread.                                                    *)
(***************************************************************************)
Call(from, to) == pc = from /\ pc' = to

\* Mutant of Cleared: the flag of the last listener is left set.
NotCleared == stop_thread

Cleared == 0

\* open_ftdichip
Open ==
  /\ Call("closed", "open") /\ opens < MaxOpens
  /\ opens' = opens + 1 /\ usb' = "open" /\ gone' = FALSE
  /\ stop_thread' = Cleared /\ ptr_in' = 0 /\ ptr_out' = 0
  /\ BUFFER' = [k \in 0 .. BufferSize - 1 |-> 0]
  /\ at' = [at EXCEPT ![opens'] = "poll"]
  /\ floor' = received /\ purged' = received /\ history' = history \intersect {"left"}
  /\ UNCHANGED <<received, i, n, ptr, RXBUFFER, RxBytes, byteread, purges>>

\* purge_ftdichip: the chip's own buffers, then the two pointers in turn.
Purge ==
  /\ Call("open", "purge") /\ purges < MaxPurges /\ purges' = purges + 1
  /\ UNCHANGED <<chip, fifo, thread, stop_thread, RxBytes, byteread, opens, ghost>>

PurgeIn ==
  /\ Call("purge", "purgeout") /\ ptr_in' = 0 /\ floor' = Stored /\ purged' = received
  /\ history' = CASE \E t \in Listeners : at[t] = "advance" -> history \union {"raced", "back"}
                  [] \A t \in Listeners : at[t] \notin {"load", "advance"} -> history
                  [] OTHER -> history \union {"raced"}
  /\ UNCHANGED <<chip, BUFFER, ptr_out, thread, stop_thread, RxBytes, byteread, budget>>

\* Mutant of PurgedOut: ptr_out is left where it was.
KeptOut == ptr_out

PurgedOut == 0

PurgeOut ==
  /\ Call("purgeout", "open") /\ ptr_out' = PurgedOut
  /\ UNCHANGED <<chip, BUFFER, ptr_in, thread, stop_thread, RxBytes, byteread,
                 budget, ghost>>

\* waitevent on READ_THREAD_EVENT: for a signal, for no reason, or 2 s.
Wait ==
  /\ Call("open", "wait")
  /\ UNCHANGED <<chip, fifo, thread, stop_thread, RxBytes, byteread, budget, ghost>>

\* Mutant of MayTimeOut: the caller waits for the signal only.
NeverTimesOut == FALSE

MayTimeOut == TRUE

WaitEnds ==
  /\ MayTimeOut /\ Call("wait", "status")
  /\ UNCHANGED <<chip, fifo, thread, stop_thread, RxBytes, byteread, budget, ghost>>

\* getfifostatus_ftdichip: with nothing in the FIFO there is nothing to read.
Status ==
  /\ pc = "status" /\ RxBytes' = Level(ptr_in, ptr_out)
  /\ pc' = IF RxBytes' = 0 THEN "open" ELSE "read"
  /\ byteread' = 0
  /\ UNCHANGED <<chip, fifo, thread, stop_thread, budget, ghost>>

\* Mutant of MayRead: the size asked for is not looked at.
MayReadAll == ptr_in # ptr_out

\* read_ftdichip: the loop.
MayRead == ptr_in # ptr_out /\ byteread < RxBytes

\* rx_fifo is read to its end and no listener appends to it.
Settled == ptr_out' = ptr_in /\ \A t \in Listeners : at[t] \notin {"load", "advance"}

ReadByte ==
  /\ pc = "read" /\ MayRead
  /\ ptr_out' = Next1(ptr_out) /\ byteread' = byteread + 1
  /\ IF "raced" \in history /\ Settled
     THEN history' = history \ {"raced", "back"} /\ floor' = Stored
     ELSE floor' = BUFFER[ptr_out] /\ UNCHANGED history
  /\ UNCHANGED <<chip, BUFFER, ptr_in, thread, stop_thread, pc, RxBytes, budget, purged>>

\* The end of the loop.  A stopped listener is an error of the read.
ReadEnds ==
  /\ pc = "read" /\ ~MayRead
  /\ pc' = IF stop_thread = 1 THEN "failed" ELSE "done"
  /\ UNCHANGED <<chip, fifo, thread, stop_thread, RxBytes, byteread, budget, ghost>>

\* The caller goes on after the read.
Goes ==
  /\ Call("done", "open") /\ RxBytes' = 0 /\ byteread' = 0
  /\ UNCHANGED <<chip, fifo, thread, stop_thread, budget, ghost>>

\* close_ftdichip, from anywhere in the caller's loop or after a failed read.
Close ==
  /\ pc \in {"open", "failed"} /\ pc' = "closewait" /\ stop_thread' = 1
  /\ RxBytes' = 0 /\ byteread' = 0
  /\ UNCHANGED <<chip, fifo, thread, budget, ghost>>

\* The wait for STOP_THREAD_EVENT ends: a signal, or 10 s.
CloseEnds ==
  /\ Call("closewait", "closed") /\ usb' = "closed" /\ gone' = FALSE
  /\ history' = IF Alive # {} THEN {"left"} ELSE history
  /\ UNCHANGED <<received, fifo, thread, stop_thread, RxBytes, byteread,
                 budget, floor, purged>>

\* The chip is unplugged (external).
Unplug ==
  /\ usb = "open" /\ ~gone /\ gone' = TRUE
  /\ UNCHANGED <<usb, received, fifo, thread, stop_thread, call, budget, ghost>>

-----------------------------------------------------------------------------
Reading == WaitEnds \/ Status \/ ReadByte \/ ReadEnds \/ Goes \/ PurgeIn \/ PurgeOut
           \/ CloseEnds

Next ==
  \/ \E t \in Listeners : Listener(t)
  \/ Open \/ Purge \/ Wait \/ Close \/ Reading \/ Unplug

(***************************************************************************)
(* Every thread is scheduled, and the caller's loop goes on: it waits,     *)
(* purges or closes (usb_hxcfloppyemulator.c 439-807).                     *)
(***************************************************************************)
Spec ==
  /\ Init /\ [][Next]_vars
  /\ WF_vars(Reading) /\ WF_vars(Wait \/ Close)
  /\ \A t \in Listeners : WF_vars(Listener(t))

-----------------------------------------------------------------------------
Places == {"off", "poll", "store", "load", "advance", "stop", "check"}
Calls  == {"closed", "open", "purge", "purgeout", "wait", "status", "read", "failed",
           "done", "closewait"}

\* Every variable has its type, and the pointers stay in the buffer.
TypeOK ==
  /\ usb \in {"open", "closed"} /\ gone \in BOOLEAN /\ received \in 0 .. MaxBytes
  /\ BUFFER \in [0 .. BufferSize - 1 -> 0 .. MaxBytes]
  /\ {ptr_in, ptr_out} \subseteq 0 .. BufferSize - 1
  /\ stop_thread \in {0, 1} /\ at \in [Listeners -> Places] /\ pc \in Calls
  /\ opens \in 0 .. MaxOpens /\ purges \in 0 .. MaxPurges

Sound == history = {} /\ pc # "purgeout"

(***************************************************************************)
(* The bytes in rx_fifo are those received last, in order, none twice and  *)
(* none left out, unless the FIFO was full, a purge met an append and the  *)
(* FIFO was not read to its end since, or a closed chip kept its listener  *)
(* (ftdi.c 217-218, 510-511, 628-630).                                     *)
(***************************************************************************)
InOrder ==
  Sound =>
    /\ Level(ptr_in, ptr_out) = Stored - floor
    /\ \A k \in 0 .. Level(ptr_in, ptr_out) - 1 :
         BUFFER[(ptr_out + k) % BufferSize] = floor + 1 + k

(***************************************************************************)
(* A read returns as many bytes as the level it was asked for, whatever    *)
(* the listener appends and the purges forget: the caller counts RxBytes   *)
(* and not the result (usb_hxcfloppyemulator.c 571).  It does not hold     *)
(* once the FIFO was filled, since the open, or a close left a listener.   *)
(***************************************************************************)
ReadFull ==
  history \intersect {"left", "full"} = {} /\ pc = "done" => byteread = RxBytes

(***************************************************************************)
(* After a purge the FIFO holds no byte of before it but the two that the  *)
(* chip sent last, which the listener may be appending (ftdi.c 210, 510);  *)
(* and when the purge meets an append after the store of line 217, what    *)
(* lay in the first place, in front of the others.  There is one more      *)
(* exception, "back": a purge between the read and the write of ptr_in in  *)
(* line 218, after which the listener writes the old pointer back and all  *)
(* that was in the FIFO is there again.  And a close left no listener.     *)
(***************************************************************************)
StaleBounded ==
  history \intersect {"left", "back"} = {} /\ pc # "purgeout" =>
    \A k \in 0 .. Level(ptr_in, ptr_out) - 1 :
      \/ BUFFER[(ptr_out + k) % BufferSize] > purged - 2
      \/ k = 0 /\ "raced" \in history

(***************************************************************************)
(* There is one listener at most, and a read fails only when the chip is   *)
(* gone, unless a close gave up before the listener ended (ftdi.c 208-211: *)
(* a listener of a silent chip does not look at stop_thread; 476).         *)
(***************************************************************************)
ListenerAlone ==
  "left" \notin history => Cardinality(Alive) <= 1 /\ (pc = "failed" => gone)

(***************************************************************************)
(* Every byte received is read, unless a purge or a close comes after it,  *)
(* though the signal that announces it may be lost (ftdi.c 143, 226): when *)
(* the chip falls silent the caller has them all.  This is so unless the   *)
(* FIFO was filled, which loses what is in it (218), a purge came between  *)
(* the read and the write of ptr_in, which can make a byte received        *)
(* between the two halves of the purge vanish (510-511), or a close left a *)
(* listener; it says nothing of those three.                               *)
(***************************************************************************)
Delivered ==
  []<>(\/ received \in {floor, purged} \/ pc = "closed"
       \/ history \intersect {"full", "left", "back"} # {})
=============================================================================

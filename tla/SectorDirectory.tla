-------------------------- MODULE SectorDirectory ---------------------------
(***************************************************************************)
(* What the sector access of libhxcfe (sector_extractor.c) promises: every *)
(* call is answered from the headers on the track alone, whatever calls    *)
(* came before it.  The promise holds for plain tracks, on any other track *)
(* a call may be answered with anything; and searches rely on the caches,  *)
(* which the program must not tear.                                        *)
(***************************************************************************)
EXTENDS SectorTrack

VARIABLES
  answer,  (* <<the sectors handed over>>, or <<>> as long as the call is  *)
           (* not answered                                                 *)
  torn     (* the program cleared the caches and fetched on from the       *)
           (* middle of a track: searches may miss what lies before        *)

dvars == <<image, call, answer, torn>>

(***************************************************************************)
(* The answer a of a call on a plain track.  A multi-sector read or write  *)
(* hands over the sectors id, id + 1, ... up to the first that is missing. *)
(***************************************************************************)
Answers(c, a) ==
  CASE c.fn = "search" ->
         a = IF Found(c.ts, c.enc, c.id) = None THEN <<>>
             ELSE <<Found(c.ts, c.enc, c.id)>>
    [] c.fn \in {"read", "write"} ->
         /\ Len(a) <= c.n
         /\ \A i \in 1 .. Len(a) :
              a[i] # None /\ a[i] = Found(c.ts, c.enc, c.id + i - 1)
         /\ Len(a) < c.n =>
              LET s == Found(c.ts, c.enc, c.id + Len(a))
              IN s = None \/ (c.fn = "read" /\ s.size # c.size)
    [] c.fn = "list" -> Lists(a, IF c.ts \in Present THEN Coded(c.ts, c.enc) ELSE {})
    [] c.fn = "listiso" -> Lists(a, IF c.ts \in Present
                                    THEN {s \in Live(c.ts) : s.enc \in {"mfm", "fm"}} ELSE {})
    [] OTHER -> TRUE

DInit ==
  /\ tracks \in Layouts /\ lost = [ts \in TrackSides |-> {}]
  /\ call = NoCall /\ answer = <<>> /\ torn = FALSE

Ask == call = NoCall /\ call' \in Calls /\ UNCHANGED <<image, answer, torn>>

\* The program tears a cache, or clears it, only between two calls.
Tear == call = NoCall /\ torn' \in BOOLEAN /\ UNCHANGED <<image, call, answer>>

\* A write whose length is not that of the sector destroys what follows it.
Overrun ==
  /\ call.fn = "write" /\ call.ts \in Present
  /\ \E S \in SUBSET tracks[call.ts] : lost' = [lost EXCEPT ![call.ts] = @ \union S]

\* What is promised of the call: nothing on a track that is not plain, and of
\* the calls that search nothing after a tear; a listing does not search.
Promised(ts, c) ==
  /\ ts \in Present => Plain(ts)
  /\ torn => c.fn \in {"list", "listiso"}

Reply ==
  /\ call # NoCall /\ answer = <<>>
  /\ Len(answer') = 1
  /\ Promised(call.ts, call)' => Answers(call, answer'[1])
  /\ Overrun \/ UNCHANGED lost
  /\ UNCHANGED <<tracks, call, torn>>

Write == call # NoCall /\ Overrun /\ UNCHANGED <<tracks, call, answer, torn>>

Finish == answer # <<>> /\ answer' = <<>> /\ call' = NoCall /\ UNCHANGED <<image, torn>>

DNext == Ask \/ Tear \/ Write \/ Reply \/ Finish

DSpec == DInit /\ [][DNext]_dvars
=============================================================================

---------------------------- MODULE SectorTrack -----------------------------
(***************************************************************************)
(* The sectors of the tracks of an image, as the decoders of libhxcfe meet *)
(* them, and the call of the program that is under way.                    *)
(***************************************************************************)
EXTENDS Integers, Sequences

CONSTANTS
  Tracks,    (* 0 .. floppyNumberOfTrack - 1                               *)
  Present,   (* the track sides <<track, side>> that the image holds       *)
  Layouts,   (* the sectors of the image: [Tracks \X {0,1} -> sets of      *)
             (* headers]; the image is one of these                        *)
  Calls,     (* the calls of the program                                   *)
  TrackLength,  (* the bits of a track; positions count from 0 and wrap    *)
  NoCall, None

TrackSides == Tracks \X {0, 1}

(***************************************************************************)
(* A header: where it starts, where its data start, where the decoder goes *)
(* on after it, what it says, and what follows it.                         *)
(***************************************************************************)
IsHeader(s) ==
  /\ s.start \in Nat /\ s.start < TrackLength /\ s.data \in Nat /\ s.next \in Nat
  /\ s.size \in Nat /\ s.has \in BOOLEAN

\* The headers of a set lie one behind the other, none across the index.
Apart(S) ==
  /\ \A s \in S : s.start < s.data /\ s.start < s.next /\ s.data + s.size < TrackLength
  /\ \A s, t \in S : s.start < t.start =>
                       s.data + s.size < t.start /\ s.next <= t.start
  /\ \A s, t \in S : s.start = t.start => s = t

\* Every set of headers has a first one: there are finitely many.
HasFirst(S) == \A T \in SUBSET S :
                 T # {} => \E s \in T : \A t \in T : s.start <= t.start

ASSUME DirectoryAssumption ==
  /\ TrackLength \in Nat \ {0}
  /\ Tracks \subseteq Nat /\ Present \subseteq TrackSides
  /\ \A l \in Layouts : \A ts \in TrackSides :
       /\ None \notin l[ts] /\ HasFirst(l[ts])
       /\ \A s \in l[ts] : IsHeader(s)
       /\ \A s, t \in l[ts] : s.start = t.start => s = t
  /\ NoCall \notin Calls

VARIABLES
  tracks,  (* the layout of the image                                      *)
  lost,    (* headers destroyed by a write longer than the sector          *)
  call     (* the call under way, or NoCall                                *)

image == <<tracks, lost>>

Live(ts) == tracks[ts] \ lost[ts]

\* The first header of a set: the one the decoder meets first.
First(S) == IF S = {} THEN None
            ELSE CHOOSE s \in S : \A t \in S : s.start <= t.start

(***************************************************************************)
(* A plain track: one encoding, headers that name the track and the side   *)
(* they are on, none across the index, none destroyed.                     *)
(***************************************************************************)
Plain(ts) ==
  /\ lost[ts] = {} /\ Apart(tracks[ts])
  /\ \A s \in tracks[ts] : s.cyl = ts[1] /\ s.head = ts[2]
  /\ \A s, t \in tracks[ts] : s.enc = t.enc

Coded(ts, e) == {s \in Live(ts) : s.enc = e}

\* The sector a search must find.
Found(ts, e, id) ==
  IF ts \in Present THEN First({s \in Coded(ts, e) : s.id = id}) ELSE None

\* a lists the headers of S in the order of the track, each of them once.
Lists(a, S) ==
  /\ \A s \in S : \E i \in 1 .. Len(a) : a[i] = s
  /\ \A i \in 1 .. Len(a) : a[i] \in S
  /\ \A i, j \in 1 .. Len(a) : i < j => a[i].start < a[j].start
=============================================================================

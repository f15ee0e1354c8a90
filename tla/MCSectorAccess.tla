--------------------------- MODULE MCSectorAccess ---------------------------
(***************************************************************************)
(* Two tracks with one side each; the second one, or its second side, is   *)
(* asked for though the image does not hold it.                            *)
(***************************************************************************)
EXTENDS SectorAccess

H(start, id, cyl, enc, size) ==
  [start |-> start, data |-> start + 1, next |-> start + 2, id |-> id,
   cyl |-> cyl, head |-> 0, enc |-> enc, size |-> size, has |-> TRUE]

Empty == [ts \in {0, 1} \X {0, 1} |-> {}]

MCTracks  == {0, 1}
MCPresent == {<<0, 0>>, <<1, 0>>}

\* Plain: interleaved ids, two sizes, an id twice.
PlainLayout == [Empty EXCEPT
  ![<<0, 0>>] = {H(2, 2, 0, "mfm", 2), H(6, 1, 0, "mfm", 2), H(10, 3, 0, "mfm", 2)},
  ![<<1, 0>>] = {H(1, 1, 1, "mfm", 2), H(5, 1, 1, "mfm", 3)}]
\* Both encodings on a track, both with a sector 1.
MixedLayout == [Empty EXCEPT
  ![<<0, 0>>] = {H(2, 1, 0, "fm", 2), H(6, 2, 0, "mfm", 2), H(10, 1, 0, "mfm", 2)}]
\* Headers that name another cylinder; the last sector lies across the index.
OddLayout == [Empty EXCEPT
  ![<<0, 0>>] = {H(3, 1, 7, "mfm", 2), H(7, 2, 0, "mfm", 2),
                 [H(13, 3, 0, "mfm", 2) EXCEPT !.data = 0, !.next = 1]},
  ![<<1, 0>>] = {[H(4, 1, 1, "mfm", 3) EXCEPT !.has = FALSE, !.next = 5]}]
MCLayouts == {PlainLayout, MixedLayout, OddLayout}

C(fn, ts, enc, id, n, size) ==
  [fn |-> fn, ts |-> ts, enc |-> enc, id |-> id, n |-> n, size |-> size]

MCCalls ==
  {C("search", ts, "mfm", id, 1, 2) : ts \in MCPresent, id \in 1 .. 3}
  \union {C("search", ts, "mfm", 1, 1, 2) : ts \in {<<0, 1>>, <<2, 0>>}}
  \union {C("search", <<0, 0>>, "fm", 1, 1, 2)}
  \union {C("read", ts, "mfm", 1, 2, 2) : ts \in {<<0, 0>>, <<1, 0>>, <<2, 0>>}}
  \union {C("read", <<1, 0>>, "mfm", 1, 1, 3)}
  \union {C("write", <<0, 0>>, "mfm", 1, n, 2) : n \in {1, 2}}
  \union {C("write", <<0, 0>>, "mfm", 1, 2, 5)}
  \union {C("list", ts, "mfm", 1, 1, 2) : ts \in MCPresent}
  \union {C("listiso", <<0, 0>>, "mfm", 1, 1, 2)}

MCCursors == {[ts |-> <<0, 0>>, enc |-> "mfm"], [ts |-> <<1, 0>>, enc |-> "mfm"]}
=============================================================================

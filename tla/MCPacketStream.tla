--------------------------- MODULE MCPacketStream ---------------------------
(* Tracks of no pair, of every two pairs and of three; packets shorter and *)
(* longer than the track, even and odd; an alignment check at every second *)
(* packet.                                                                 *)
EXTENDS PacketStream

\* The pairs in the tracks of three: one for every way the code takes them.
FewPairs == {<<"data", "data">>, <<"setindex", "argument">>, <<"command", "likecommand">>,
             <<"nop", "argument">>, <<"nop", "likeindex">>, <<"nopindex", "likecommand">>}

MCTracks ==
  {<<>>} \union {p \o q : <<p, q>> \in Pairs \X Pairs}
  \union {p \o q \o r : <<p, q, r>> \in FewPairs \X FewPairs \X FewPairs}

\* All of the memory behind a track looks like a command, none of it does, or
\* every second byte of it.
MCMemory ==
  {[k \in 0 .. 9 |-> IF k % 2 = r THEN "data" ELSE b] :
     <<r, b>> \in {0, 1} \X {"data", "likeindex"}} \union {[k \in 0 .. 9 |-> "likecommand"]}

MCSizes == 4 .. 7

\* Sizes that are a number of pairs.
MCEvenSizes == {4, 6}
=============================================================================

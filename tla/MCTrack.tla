------------------------------ MODULE MCTrack ------------------------------
(* The track server on the two real layouts. *)
EXTENDS Track, TrackData, TLC

MCLayout == [a |-> Graph(TrackA), b |-> Graph(TrackB)]

\* C16 comes over the merge and C5 over the branch of switch 6, whose curved
\* leg crosses to 18; D12 over the merge of 7, whose curved leg comes from 5;
\* C2 and D4 enter the double switches of the centre from the two sides, and
\* may lead to B14; A4 leads over two switches in a row.
MCGroup == {<<47>>, <<36>>, <<59>>, <<51>>, <<3>>, <<29, 33>>}
MCSymmetry == Permutations(Train)
=============================================================================

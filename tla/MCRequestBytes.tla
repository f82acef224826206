--------------------------- MODULE MCRequestBytes ---------------------------
(***************************************************************************)
(* An instance of RequestBytes for TLC: read buffers made of up to five    *)
(* fragments, those of line breaks among them.                             *)
(***************************************************************************)
EXTENDS RequestBytes, SequencesExt

MCBufSize == 13
Fragments ==
  {CRLF, <<"cr">>, <<"lf">>, <<"nul">>, <<"w">>, <<"w", "sp", "w", "sp", "v">>}
MCInputs == {s \in {FlattenSeq(f) : f \in BoundedSeq(Fragments, 5)} : Len(s) <= MCBufSize}
MCHeap == BoundedSeq(Bytes, 2)
=============================================================================

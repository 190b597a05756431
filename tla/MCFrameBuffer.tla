---------------------------- MODULE MCFrameBuffer ----------------------------
(* Small instances of FrameBuffer for TLC.                                 *)
EXTENDS FrameBuffer, TLC

CONSTANTS r1, r2

MCReaders == {r1, r2}

ReaderSymmetry == Permutations(MCReaders)

=============================================================================

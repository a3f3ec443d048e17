----------------------------- MODULE MCUpStream -----------------------------
EXTENDS UpStream

Piece(f, p, s, e) == [frame |-> f, part |-> p, soi |-> s, eoi |-> e]

\* A frame in two packets, the second cut, and the first packet of the next frame,
\* cut too.
MCScript == << Piece(1, "whole", TRUE, FALSE),
               Piece(1, "head", FALSE, FALSE), Piece(1, "tail", FALSE, TRUE),
               Piece(2, "head", TRUE, FALSE), Piece(2, "tail", FALSE, TRUE) >>

\* A frame in one packet, cut.
ShortScript == << Piece(1, "head", TRUE, FALSE), Piece(1, "tail", FALSE, TRUE) >>
=============================================================================

--------------------------- MODULE MCMjpegServer ----------------------------
EXTENDS MjpegServer, TLC

\* Addresses are interchangeable: the list is kept in the order of arrival.
ResponsesSymmetry == Permutations(Responses)
=============================================================================

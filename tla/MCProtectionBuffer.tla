-------------------------- MODULE MCProtectionBuffer --------------------------
EXTENDS ProtectionBuffer

\* A clear segment; an encrypted one with the tests' subsample (3 clear,
\* 5 encrypted bytes); a Netflix one whose clear counts reach the uint16
\* boundary, with two subsamples.
MCSegments ==
  { [encrypted |-> FALSE, netflix |-> FALSE, subs |-> <<>>],
    [encrypted |-> TRUE, netflix |-> FALSE, subs |-> << <<3, 5>> >>],
    [encrypted |-> TRUE, netflix |-> TRUE,
     subs |-> << <<65535, 1>>, <<65536, 2147483647>> >>] }
=============================================================================

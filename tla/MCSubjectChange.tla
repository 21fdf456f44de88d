--------------------------- MODULE MCSubjectChange ---------------------------
\* The journal and its readers, for TLC.
EXTENDS SubjectChangeWatcher, TLC

\* Transactions differ only in what they do.
WriterSymmetry == Permutations(Writers)
==============================================================================

----------------------------- MODULE MCWebPages -----------------------------
EXTENDS WebPages, TLC

\* Guids and handlers are interchangeable.
MCInterchangeable == Permutations(Ids) \cup Permutations(Tasks)

=============================================================================

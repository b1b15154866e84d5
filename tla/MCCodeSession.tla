--------------------------- MODULE MCCodeSession ---------------------------
EXTENDS CodeSession, TLC

\* The clients are interchangeable, and so are the actors.
Symmetry == Permutations(Client) \cup Permutations(Actor)

=============================================================================

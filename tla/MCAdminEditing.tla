--------------------------- MODULE MCAdminEditing ---------------------------
EXTENDS AdminEditing, TLC

\* Rows are interchangeable.
EditingSymmetry == Permutations(Rows)
=============================================================================

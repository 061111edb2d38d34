--------------------------- MODULE MCStagedUpload ---------------------------
EXTENDS StagedUpload, TLC

Symmetric == Permutations(Session)
=============================================================================

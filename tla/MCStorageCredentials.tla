------------------------ MODULE MCStorageCredentials ------------------------
EXTENDS StorageCredentials
CONSTANTS p1, p2
OneApply == {p1}
TwoApplies == {p1, p2}
=============================================================================

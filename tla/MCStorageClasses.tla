--------------------------- MODULE MCStorageClasses ---------------------------
\* Three claims, or two, of one storage class.
EXTENDS StorageClasses, TLC

CONSTANT sc
SameClass == [p \in PVC |-> sc]
FileSystems == {"ext3", "ext4", "xfs"}
Alike == Permutations(PVC)
=============================================================================

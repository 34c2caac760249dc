------------------------ MODULE MCPartitionRotation ------------------------
EXTENDS PartitionRotation, TLC

WriterSymmetry == Permutations(Writer)
=============================================================================

----------------------------- MODULE MCQueuePack -----------------------------
EXTENDS QueuePack, TLC

CONSTANTS p1, p2, c1, c2   \* threads
==============================================================================

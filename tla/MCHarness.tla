------------------------------ MODULE MCHarness ------------------------------
EXTENDS Harness

CONSTANTS main, p1, p2, c1, c2   \* threads

AllPrograms == {"bandwidth", "pack", "counted", "timing", "hash2", "hash3"}
==============================================================================

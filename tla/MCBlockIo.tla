----------------------------- MODULE MCBlockIo -------------------------------
EXTENDS BlockIo, TLC

Shape(dir, base, len) == [dir |-> dir, base |-> base, len |-> len, ok |-> TRUE]

\* Neighbours in both directions, a flush and a discard.
MCShapes ==
  {Shape("WRITE", 0, 1), Shape("WRITE", 1, 1), Shape("WRITE", 2, 1), Shape("READ", 1, 1),
   Shape("WRITE", 1, 0), Shape("DISCARD", 1, 1)}

\* The second is off by less than a block, and its address is rounded down.
MCMisaligned ==
  {Shape("WRITE", 0, 1), [dir |-> "WRITE", base |-> 1, len |-> 1, ok |-> FALSE]}
=============================================================================

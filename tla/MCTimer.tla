------------------------------ MODULE MCTimer ------------------------------
\* Two timers, so that one fires, ends, is cancelled or made in the callback of
\* the other; counts that end at once, later and never; a clock that jumps over
\* two periods.
EXTENDS Timer

MCDelays == {1, 2}
MCRepeats == {-1, 0, 1}
MCCounts == {-2, 0, 1, 2}
=============================================================================

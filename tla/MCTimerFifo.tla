---------------------------- MODULE MCTimerFifo ----------------------------
EXTENDS TimerFifo, TLC

\* The sequence numbers are interchangeable: they are only compared.
Symmetry == Permutations(SeqNumber)
==============================================================================

-------------------------- MODULE MCConSplitterToggle --------------------------
\* Three keyboards, whose lock keys show one of two states: one goes while a loop of the
\* splitter is between the two others.
EXTENDS ConSplitterToggle, TLC

MCSymmetry == Permutations(Keyboards)

=============================================================================

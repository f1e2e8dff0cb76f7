--------------------------- MODULE MCPhaseSearch ---------------------------
\* Module PhaseSearch with counters of four bits, for TLC.
EXTENDS PhaseSearch

\* Windows inside the range, of one phase, before the range of the search,
\* up to its end, and behind it.
MCEyes == {<<4, 9>>, <<6, 6>>, <<0, 3>>, <<9, 20>>, <<20, 21>>}
MCOneEye == {<<3, 4>>}
=============================================================================

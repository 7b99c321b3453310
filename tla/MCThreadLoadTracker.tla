------------------------ MODULE MCThreadLoadTracker ------------------------
(* Instances of ThreadLoadTracker for TLC. *)
EXTENDS ThreadLoadTracker

\* Two whole windows and parts of two more.
MCMaxTime  == 8
MCInterval == 3
\* Load 0..12; the smoothing halves, so that it shows on every report.
MCScale    == 12
MCDecay    == 50
MCZero     == {0}
=============================================================================

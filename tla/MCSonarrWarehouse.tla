-------------------------- MODULE MCSonarrWarehouse --------------------------
(* SonarrWarehouse for TLC: every series has one episode, named like it.   *)
EXTENDS SonarrWarehouse, TLC

MCSeriesOf == [e \in Episodes |-> e]

SeriesSymmetry == Permutations(Series)
==============================================================================

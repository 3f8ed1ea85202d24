--------------------------- MODULE MCSeriesFetch ---------------------------
(* A small window: a metric over the limit, one at it and one below it.     *)
EXTENDS SeriesFetch

CONSTANTS cpu, mem, disk

MCMetrics == {cpu, mem, disk}

MCSeriesOf ==
  [m \in MCMetrics |->
     CASE m = cpu  -> {<<cpu, 1>>, <<cpu, 2>>}
       [] m = mem  -> {<<mem, 1>>}
       [] m = disk -> {}]
\* Two metrics, so that one failure is exactly half of them.
MCPair == {cpu, mem}

MCPairSeries == [m \in MCPair |-> MCSeriesOf[m]]
=============================================================================

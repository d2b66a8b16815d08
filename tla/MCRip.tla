------------------------------- MODULE MCRip --------------------------------
(* Topologies for the runs of Rip: three routers in a row or in a ring, with  *)
(* a network behind router "a".                                               *)
EXTENDS Rip

RowEnds == [ab |-> {"a", "b"}, bc |-> {"b", "c"}]
RingEnds == [ab |-> {"a", "b"}, bc |-> {"b", "c"}, ca |-> {"c", "a"}]

Behind == [s |-> {"a"}]
=============================================================================

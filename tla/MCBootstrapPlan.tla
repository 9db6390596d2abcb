--------------------------- MODULE MCBootstrapPlan ---------------------------
(* The catalogs the run of BootstrapPlan is checked for. *)
EXTENDS BootstrapPlan

Edges == {"after", "before"} \X Names \X Names

Catalog(es, f) ==
  [after   |-> [s \in Names |-> {t \in Names : <<"after", s, t>> \in es}],
   before  |-> [s \in Names |-> {t \in Names : <<"before", s, t>> \in es}],
   factory |-> f]

\* Up to three dependencies, and a default factory for every step or for none.
Small == {Catalog({d, e, f}, fs) : d, e, f \in Edges, fs \in {{}, Names}}
=============================================================================

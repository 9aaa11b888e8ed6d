---------------------------- MODULE MCRagConfig ----------------------------
(* RagConfig with one provider, one tab and two readers. *)
EXTENDS RagConfig
CONSTANTS p1, e1, k1, k2, a1, r1, r2
MCProviders  == {p1}
MCEndpoints  == {e1}
MCEndpointOf == [p \in Providers |-> e1]
MCKeys       == {k1, k2}
MCAdmins     == {a1}
MCReaders    == {r1, r2}
=============================================================================

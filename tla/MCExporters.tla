---------------------------- MODULE MCExporters ----------------------------
(***************************************************************************)
(* Three names, of which b has a wildcard in it, and q what the Elastic    *)
(* exporter cannot read or, in MCQuotedStar, a wildcard in quotes; one ref.*)
(***************************************************************************)
EXTENDS Exporters

MCForm       == [a |-> "word", b |-> "word*", q |-> "other"]
MCQuotedStar == [MCForm EXCEPT !.q = "quoted*"]
MCOtherwise  == [c \in Names |-> "a"]

MCOperands     == {<<"a">>, <<"b">>, <<"(", "b", ")">>, <<"not", "b">>, <<"q">>}
MCFirstFilters == {<<"a">>}
=============================================================================

-------------------------- MODULE MCThreadedRoundtrip --------------------------
(* ThreadedRoundtrip with a request for every combination of reasons to     *)
(* refuse it.                                                               *)
EXTENDS ThreadedRoundtrip

Reasons == {"unbuildable", "long", "rejected", "longAnswer", "distrusted"}

MCRequests == {[refusedFor |-> reasons] : reasons \in SUBSET Reasons}

RefusedFor(reason) == {r \in MCRequests : reason \in r.refusedFor}

MCUnbuildable   == RefusedFor("unbuildable")
MCLongRequests  == RefusedFor("long")
MCRejected      == RefusedFor("rejected")
MCLongProposals == RefusedFor("longAnswer")
MCDistrusted    == RefusedFor("distrusted")
===============================================================================

------------------------------- MODULE MCTenancy -------------------------------
(* Constants of the TLC run of Tenancy. *)
EXTENDS Tenancy

CONSTANTS acme, c1, c2, e1, e2

\* All projects belong to one organization.
OneOrg(p) == acme

\* Both clients want e1, and one has another address.
TwoForOne == {<<c1, e1>>, <<c2, e1>>, <<c2, e2>>}

\* c2 is another tab of the browser of c1, with a login of its own.
TwoTabs == {<<c1, c2>>}
=============================================================================

------------------------------- MODULE MCSession -------------------------------
EXTENDS Session

MCNumbers == 1..8

\* All but the cookie of all portals, and every one.
MCFits == SUBSET Roles \ {Roles}
MCFitsAll == SUBSET Roles
===============================================================================

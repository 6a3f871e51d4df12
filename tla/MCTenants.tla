----------------------------- MODULE MCTenants -----------------------------
(***************************************************************************)
(* Two initial tenants, one name to give out, twice; one competition of each *)
(* tenant; pages of one.  Tenant 1 has a finished competition in the initial *)
(* data, and may not add any, tenant 2 an open one.                         *)
(***************************************************************************)
EXTENDS Tenants

CONSTANTS n1, n2, n3, a1, r1, g1

MCInitialName == <<n1, n2>>

MCInitialComps ==
    [c \in Comps |-> CASE c = <<1, 1>> -> "finished"
                       [] c = <<2, 1>> -> "open"
                       [] OTHER        -> "none"]

MCYen == [c \in Comps |-> 100]
=============================================================================

------------------------------ MODULE MCAdmin -------------------------------
(***************************************************************************)
(* Instances of Admin: each portal file holds a text of its own, and all   *)
(* portals name the same number of servers.                                *)
(***************************************************************************)
EXTENDS Admin

MCServers == [p \in Portal |-> 1]
MCTextOf == CHOOSE f \in [PortalFile -> Portal] :
                \A p, q \in PortalFile : f[p] = f[q] => p = q
=============================================================================

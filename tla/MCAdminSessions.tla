--------------------------- MODULE MCAdminSessions ---------------------------
(* AdminSessions on a small instance. *)
EXTENDS AdminSessions

CONSTANTS t1, t2, b1

MCBrowserOf == [t \in Tabs |-> b1]
MCPagesOf == [t \in Tabs |-> IF t = t1 THEN {"accounts", "records", "password"}
                             ELSE {"accounts"}]
MCGrants == {{"records"}, Keys}
=============================================================================

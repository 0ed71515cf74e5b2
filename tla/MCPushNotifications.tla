------------------------ MODULE MCPushNotifications ------------------------
EXTENDS PushNotifications, TLC

CONSTANTS e1, e2, settled, failed

Kinds == (e1 :> settled) @@ (e2 :> failed)

=============================================================================

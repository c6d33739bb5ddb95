--------------------------- MODULE MCWorkspaceRow ---------------------------
EXTENDS WorkspaceRow

MCLimit == [w \in Tenant |-> 1]
=============================================================================

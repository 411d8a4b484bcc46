-------------------------- MODULE MCAuditMiddleware --------------------------
EXTENDS AuditMiddleware, TLC
=============================================================================

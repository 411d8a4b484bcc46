-------------------------- MODULE MCAppServerClient --------------------------
EXTENDS AppServerClient
=============================================================================

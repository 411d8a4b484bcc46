---------------------------- MODULE MCInstallPack ----------------------------
EXTENDS InstallPack
=============================================================================

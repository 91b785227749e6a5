--------------------------- MODULE MCLauncherApi ---------------------------
EXTENDS LauncherApi
=============================================================================

---------------------------- MODULE MCLaunchFlow ----------------------------
EXTENDS LaunchFlow
=============================================================================

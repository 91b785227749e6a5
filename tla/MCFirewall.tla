----------------------------- MODULE MCFirewall -----------------------------
EXTENDS Firewall

\* The default weights of firewall.js.
MCWeights == [error |-> 2, rpcFail |-> 5, spam |-> 1, critical |-> 10]

=============================================================================

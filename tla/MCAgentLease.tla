---------------------------- MODULE MCAgentLease ----------------------------
EXTENDS AgentLease
=============================================================================

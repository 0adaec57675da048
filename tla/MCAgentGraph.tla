----------------------------- MODULE MCAgentGraph -----------------------------
EXTENDS AgentGraph

\* Step limits: the recovery's is the code's, the others leave room for two
\* detectors to use up their retries.
MCLimit == [main |-> 10, synth |-> 4, continue |-> 6, retry |-> 4]
===============================================================================

--------------------------- MODULE MCEndpointOwnership ---------------------------
\* Model-checking instance: nothing is bounded, the state space is finite.
EXTENDS EndpointOwnership
=============================================================================

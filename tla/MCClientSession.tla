--------------------------- MODULE MCClientSession ---------------------------
\* The client with a small set of calls and one refresher beside them.
EXTENDS ClientSession
==============================================================================

--------------------------- MODULE MCRealtimeSync ----------------------------
\* The websocket client with overlapping attempts.
EXTENDS RealtimeSync
==============================================================================

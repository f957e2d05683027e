--------------------------- MODULE MCRedisWrapper ---------------------------
\* Workers, connections and commands enough for a close to overtake a command
\* before it reads the context, between that and the lock, and before it starts.
EXTENDS RedisWrapper
=============================================================================

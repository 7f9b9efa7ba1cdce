--------------------------- MODULE MCMemoryStore ---------------------------
EXTENDS MemoryStore, TLC

CONSTANTS u1, none, notes, short, long

\* A tenant's common scope, and the scope of one of its users.
MCScopes == {[tenant_id |-> "t", owner |-> "user_id" :> o] : o \in {none, u1}}
MCChunks == short :> 1 @@ long :> 2
=============================================================================

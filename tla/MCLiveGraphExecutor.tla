------------------------ MODULE MCLiveGraphExecutor ------------------------
(* Small instances of the executor: one run of three tasks and two workers.  *)
EXTENDS LiveGraphExecutor

P(a, c, x, w, r, f) ==
  [add |-> a, connect |-> c, cancel |-> x, wait |-> w, resume |-> r, finish |-> f]

\* The patches of a planner that expands, parks, resumes, cancels and finishes.
MCPatches ==
  { NoPatch,
    P({1, 2}, {}, {}, {}, {}, FALSE),                \* two independent tasks
    P({1, 2, 3}, {<<1, 3>>}, {}, {}, {}, FALSE),     \* and a third after the first
    P({3}, {<<2, 3>>}, {}, {}, {}, FALSE),           \* expand after 2
    P({3}, {}, {}, {3}, {}, FALSE),                  \* a task parked as it is added
    P({}, {}, {}, {}, {3}, FALSE),                   \* resume it
    P({}, {}, {2}, {}, {}, FALSE),                   \* cancel, running or not
    P({3}, {}, {2}, {}, {}, TRUE),                   \* finish, adding a task no one will run
    P({}, {}, {}, {}, {}, TRUE) }                    \* finish

\* An untrusted planner also sends patches the store refuses.
AnyPatches ==
  { NoPatch,
    P({1, 2}, {}, {}, {}, {}, FALSE),
    P({3}, {<<1, 3>>, <<3, 1>>}, {}, {}, {}, FALSE),   \* a cycle
    P({}, {}, {2}, {}, {}, FALSE),                     \* cancel, settled or not
    P({3}, {<<1, 3>>}, {}, {}, {}, FALSE),             \* expand, perhaps again
    P({}, {}, {}, {}, {}, TRUE) }

\* Patches for two calls of run() that overlap.
FewPatches ==
  { NoPatch,
    P({1, 2}, {}, {}, {}, {}, FALSE),
    P({}, {}, {2}, {}, {}, FALSE),
    P({}, {}, {}, {}, {}, TRUE) }
=============================================================================

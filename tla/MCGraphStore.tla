---------------------------- MODULE MCGraphStore ----------------------------
(* The store of one run with three tasks, served to a client that sends any
   patch of a small catalogue, legal or not, for any journalled event.       *)
EXTENDS GraphStore

CONSTANT MaxEvents   \* bound on the journal, so on the number of transactions

P(a, c, x, w, r, f) ==
  [add |-> a, connect |-> c, cancel |-> x, wait |-> w, resume |-> r, finish |-> f]

MCPatches ==
  { P({1, 2}, {}, {}, {}, {}, FALSE),                \* two independent tasks
    P({1, 2}, {<<1, 2>>}, {}, {}, {}, FALSE),        \* a chain
    P({3}, {<<2, 3>>}, {}, {}, {}, FALSE),           \* expand after 2
    P({3}, {}, {}, {3}, {}, FALSE),                  \* a task parked as it is added
    P({}, {}, {}, {}, {3}, FALSE),                   \* resume it
    P({}, {}, {}, {2}, {}, FALSE),                   \* park a pending task
    P({}, {<<2, 1>>}, {}, {}, {}, FALSE),            \* closes a cycle over the chain
    P({}, {}, {2}, {}, {}, FALSE),                   \* cancel
    P({}, {}, {3}, {}, {3}, FALSE),                  \* cancel and resume at once
    P({3}, {<<2, 3>>}, {2}, {}, {}, TRUE),           \* finish, adding a task no one will run
    P({}, {}, {}, {}, {}, TRUE) }                    \* finish

MCNext == Len(journal) < MaxEvents /\ StoreNext
MCSpec == StoreInit /\ [][MCNext]_storeVars
=============================================================================

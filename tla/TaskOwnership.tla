--------------------------- MODULE TaskOwnership ---------------------------
(***************************************************************************)
(* What the claim protocol of the tasks service promises its workers, with *)
(* no locks, requests or database: a task is given to at most one worker,  *)
(* for good, and only that worker ever works on it.  Workers stop working  *)
(* on a task when they close it, or when they crash.                       *)
(***************************************************************************)
CONSTANTS Tasks, Workers, NoOne

VARIABLES
    owner,      \* owner[t]: the worker task t was given to
    working     \* working[w]: the tasks worker w is working on

Init ==
    /\ owner = [t \in Tasks |-> NoOne]
    /\ working = [w \in Workers |-> {}]

Give(w, t) ==
    /\ owner[t] = NoOne
    /\ owner' = [owner EXCEPT ![t] = w]
    /\ UNCHANGED working

Start(w, t) ==
    /\ owner[t] = w
    /\ working' = [working EXCEPT ![w] = @ \cup {t}]
    /\ UNCHANGED owner

Stop(w, ts) ==
    /\ working' = [working EXCEPT ![w] = @ \ ts]
    /\ UNCHANGED owner

Next ==
    \E w \in Workers :
        \/ \E t \in Tasks : Give(w, t) \/ Start(w, t)
        \/ \E ts \in SUBSET Tasks : Stop(w, ts)

Spec == Init /\ [][Next]_<<owner, working>>
=============================================================================

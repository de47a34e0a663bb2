-------------------------------- MODULE Mutex --------------------------------
(***************************************************************************)
(* What the locks of thread/sync.h promise their callers: a lock belongs   *)
(* to nobody or to one thread, which may take it again any number of times *)
(* and gives it up with as many releases.                                  *)
(***************************************************************************)
EXTENDS Naturals

CONSTANTS Clients, LockIds, NULL

VARIABLES owner,   \* the thread each lock belongs to, or NULL
          depth    \* how many of its acquisitions are still to be released

Init ==
  /\ owner = [l \in LockIds |-> NULL]
  /\ depth = [l \in LockIds |-> 0]

Acquire(t, l) ==
  /\ owner[l] = NULL
  /\ owner' = [owner EXCEPT ![l] = t]
  /\ depth' = [depth EXCEPT ![l] = 1]

Reacquire(t, l) ==
  /\ owner[l] = t
  /\ depth' = [depth EXCEPT ![l] = @ + 1]
  /\ UNCHANGED owner

Release(t, l) ==
  /\ owner[l] = t
  /\ depth' = [depth EXCEPT ![l] = @ - 1]
  /\ owner' = [owner EXCEPT ![l] = IF depth[l] = 1 THEN NULL ELSE @]

Next ==
  \E t \in Clients, l \in LockIds :
    Acquire(t, l) \/ Reacquire(t, l) \/ Release(t, l)

Spec == Init /\ [][Next]_<<owner, depth>>
=============================================================================

------------------------------ MODULE RowLocks ------------------------------
(***************************************************************************)
(* PostgreSQL row locks as the services use them: SELECT ... FOR UPDATE    *)
(* takes the lock of one row or queues for it, and a transaction keeps its *)
(* locks until it ends, when each of them goes to the first in its queue.  *)
(* Of transactions that wait for each other in a circle the server aborts  *)
(* one.                                                                    *)
(***************************************************************************)
EXTENDS Sequences, SequencesExt

CONSTANTS
  Sessions,    \* database sessions
  Rows,        \* rows that are locked
  Nobody       \* no session

VARIABLES
  holder,      \* of each row's lock
  waiting      \* queue for it

LocksTypeOK ==
  /\ holder \in [Rows -> Sessions \cup {Nobody}]
  /\ waiting \in [Rows -> Seq(Sessions)]

LocksInit ==
  /\ holder = [r \in Rows |-> Nobody]
  /\ waiting = [r \in Rows |-> <<>>]

CanLock(s, r) == holder[r] \in {s, Nobody}

Lock(s, r) ==
  /\ holder' = [holder EXCEPT ![r] = s]
  /\ UNCHANGED waiting

WaitFor(s, r) ==
  /\ ~CanLock(s, r) /\ ~Contains(waiting[r], s)
  /\ waiting' = [waiting EXCEPT ![r] = Append(@, s)]
  /\ UNCHANGED holder

(* Those who still wait for r when s has gone. *)
Queue(s, r) == Remove(waiting[r], s)

ReleaseLocks(s) ==
  /\ holder' = [r \in Rows |->
       CASE holder[r] # s -> holder[r]
         [] holder[r] = s /\ waiting[r] # <<>> -> Head(waiting[r])
         [] OTHER -> Nobody]
  /\ waiting' = [r \in Rows |-> IF holder[r] = s /\ waiting[r] # <<>>
                                THEN Tail(waiting[r]) ELSE Queue(s, r)]

(* s is on a circle of sessions that wait for each other. *)
Blocks(c, s) == \E r \in Rows : Contains(waiting[r], s) /\ holder[r] = c

Deadlocked(s) ==
  /\ \E r \in Rows : Contains(waiting[r], s)
  /\ \E circle \in SUBSET Sessions :
       /\ s \in circle
       /\ \A c \in circle : \E d \in circle : Blocks(c, d)
       /\ \A c \in circle : \E d \in circle : Blocks(d, c)
=============================================================================

------------------------------- MODULE Server -------------------------------
(***************************************************************************)
(* The processes that serve requests (cmd/marketd/serve.go, internal/api/  *)
(* server.go) around the idempotency middleware: a process boots, serves,  *)
(* and on a signal stops accepting and drains what it has accepted within  *)
(* a timeout; or it dies at any point.  It may boot again, and several     *)
(* share the database.                                                     *)
(***************************************************************************)
EXTENDS Idempotency

CONSTANTS
  Processes,
  Home         \* the process each request is sent to

ASSUME HomeAssumption == Home \in [Requests -> Processes]

VARIABLE phase \* of each process

servervars == <<ivars, phase>>

ServerInit == Init /\ phase = [p \in Processes |-> "down"]
-----------------------------------------------------------------------------
Enters(p, from, to) == phase[p] = from /\ phase' = [phase EXCEPT ![p] = to]

Running(p) == {r \in Requests : Home[r] = p /\ pc[r] \notin {"new", "done", "dead"}}

(* What the process still works on when it exits dies with it.             *)
Exits(p) ==
  /\ phase' = [phase EXCEPT ![p] = "down"]
  /\ \/ Running(p) = {} /\ UNCHANGED ivars
     \/ Running(p) # {} /\ Die(Running(p))

(* Migrations, the connection, the seed, the workers and the listener:     *)
(* none reads or writes idempotency_keys, and a boot that fails, or is     *)
(* killed by a signal it does not handle yet, leaves no trace here.        *)
Boot(p) == Enters(p, "down", "serving") /\ UNCHANGED ivars

(* SIGINT or SIGTERM: Shutdown closes the listener.                        *)
Signal(p) == Enters(p, "serving", "draining") /\ UNCHANGED ivars

(* Everything accepted has been answered, or the timeout has passed and    *)
(* the process exits with an error and without what is not answered.       *)
Shutdown(p) == phase[p] = "draining" /\ Exits(p)

(* The listener fails, a worker panics or the process is killed.           *)
Kill(p) ==
  /\ "crash" \in faults
  /\ phase[p] # "down"
  /\ Exits(p)

(* A request reaches the middleware while its process runs: while it       *)
(* drains, too, if its connection was accepted before.                     *)
Arrives(r) ==
  /\ phase[Home[r]] # "down"
  /\ Claim(r) \/ ClaimFails(r)
  /\ UNCHANGED <<faults, phase>>

Middleware(r) == ReplayExisting(r) \/ Finish(r)

Serves(r) ==
  /\ Middleware(r) \/ Handle(r) \/ Panic(r)
  /\ UNCHANGED <<faults, phase>>

Leaves(r) == Disconnect(r) /\ UNCHANGED phase

ServerNext ==
  \/ \E p \in Processes : Boot(p) \/ Signal(p) \/ Shutdown(p) \/ Kill(p)
  \/ \E r \in Requests : Arrives(r) \/ Serves(r) \/ Leaves(r)

(* The middleware's statements return.  A handler may wait for a row lock  *)
(* as long as it likes; nobody has to boot or stop a process, or to send a *)
(* request.                                                                *)
ServerSpec ==
  /\ ServerInit /\ [][ServerNext]_servervars
  /\ \A r \in Requests : WF_servervars(Middleware(r) /\ UNCHANGED <<faults, phase>>)
-----------------------------------------------------------------------------
(* No request waits for another one of its key: what has lost the claim or *)
(* left its handler is answered, or dies with its process, even while the  *)
(* handler of another request hangs.                                       *)
NeverWaits == \A r \in Requests : pc[r] \in {"lost", "handled"} ~> pc[r] \in {"done", "dead"}

(* A key is in flight only while the request that claimed it runs, unless  *)
(* that request was cut off (panic, crash, or a drain that timed out), its *)
(* client has gone, or a statement of the middleware failed: a request     *)
(* that was rejected, failed or conflicted never leaves its key taken.     *)
OrphanExplained ==
  \A k \in Keys : row[k] # Null /\ row[k].status = "in_flight" =>
    \E r \in Requests : Key[r] = k /\
      \/ guarded[r] /\ pc[r] \in {"claimed", "handled"}
      \/ pc[r] = "dead"
      \/ ~live[r] \/ "db" \in faults
=============================================================================

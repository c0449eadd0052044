---------------------------- MODULE Idempotency ----------------------------
(***************************************************************************)
(* The Idempotency middleware (internal/api/middleware/idempotency.go)     *)
(* around the state-changing handlers.  A request first claims its key by  *)
(* a unique insert, runs the handler, then stores the response or deletes  *)
(* the claim; each of these is a statement of its own against the          *)
(* database, and requests of the same key interleave between them.         *)
(*                                                                         *)
(* A retry is another request with the same key and hash.  faults says     *)
(* what may go wrong in the environment of a behaviour:                    *)
(*   "db"      a statement on idempotency_keys returns an error            *)
(*   "cancel"  the client disconnects, which cancels the request's context *)
(*   "ack"     the handler's commit succeeds and its answer is lost        *)
(*   "panic"   the handler panics and Recovery answers 500                 *)
(*   "crash"   a process dies with its requests                            *)
(***************************************************************************)
CONSTANTS
  Requests,
  Keys,
  Hashes,
  Key,         \* Idempotency-Key of each request
  Hash,        \* requestHash of each request
  Environments,   \* sets of faults
  Null

ASSUME RequestAssumption ==
  /\ Key \in [Requests -> Keys] /\ Hash \in [Requests -> Hashes]
  /\ Environments \subseteq SUBSET {"db", "cancel", "ack", "panic", "crash"}
  /\ Null \notin Requests

VARIABLES
  faults,      \* those of the environment, which do not change
  row,         \* idempotency_keys table; Null without a row
  pc,          \* how far each request has come
  live,        \* is the request's context still alive?
  guarded,     \* did the request win the claim of its key?
  effect,      \* did its handler's transaction commit?
  answer       \* what its handler, or the replay, answered

ivars == <<faults, row, pc, live, guarded, effect, answer>>

(* Classes of HTTP statuses: ok below 400, rejected below 500 (the domain  *)
(* errors of statusForError), error from 500, conflict for the 409 of the  *)
(* middleware itself.  A body is named by the request whose handler wrote  *)
(* it.                                                                     *)
Row == [hash : Hashes, status : {"in_flight", "ok", "rejected"}, from : Requests \cup {Null}]

ASSUME RowAssumption == Null \notin Row

Answer == [status : {"none", "ok", "rejected", "error", "conflict"}, from : Requests \cup {Null}]

NoAnswer == [status |-> "none", from |-> Null]

Answered(r, status) == [answer EXCEPT ![r] = [status |-> status, from |-> r]]

IdemTypeOK ==
  /\ faults \in Environments
  /\ row \in [Keys -> Row \cup {Null}]
  /\ pc \in [Requests -> {"new", "claimed", "unclaimed", "lost", "handled", "done", "dead"}]
  /\ live \in [Requests -> BOOLEAN]
  /\ guarded \in [Requests -> BOOLEAN]
  /\ effect \in [Requests -> BOOLEAN]
  /\ answer \in [Requests -> Answer]

Init ==
  /\ faults \in Environments
  /\ row = [k \in Keys |-> Null]
  /\ pc = [r \in Requests |-> "new"]
  /\ live = [r \in Requests |-> TRUE]
  /\ guarded = [r \in Requests |-> FALSE]
  /\ effect = [r \in Requests |-> FALSE]
  /\ answer = [r \in Requests |-> NoAnswer]
-----------------------------------------------------------------------------
Goes(r, from, to) == pc[r] = from /\ pc' = [pc EXCEPT ![r] = to]

ClaimRow(r) ==
  [row EXCEPT ![Key[r]] = [hash |-> Hash[r], status |-> "in_flight", from |-> Null]]

(* Fault: the claim overwrites the row it finds. *)
ClaimAnyway(r) ==
  /\ live[r]
  /\ Goes(r, "new", "claimed")
  /\ row' = ClaimRow(r)
  /\ guarded' = [guarded EXCEPT ![r] = TRUE]
  /\ UNCHANGED <<live, effect, answer>>

(* INSERT ... ON CONFLICT DO NOTHING. *)
Claim(r) ==
  /\ live[r]
  /\ \/ /\ row[Key[r]] = Null
        /\ Goes(r, "new", "claimed")
        /\ row' = ClaimRow(r)
        /\ guarded' = [guarded EXCEPT ![r] = TRUE]
     \/ /\ row[Key[r]] # Null
        /\ Goes(r, "new", "lost")
        /\ UNCHANGED <<row, guarded>>
  /\ UNCHANGED <<live, effect, answer>>

StatementMayFail(r) == "db" \in faults \/ ~live[r]

(* The insert returns an error, done or not: the handler runs unclaimed.   *)
ClaimFails(r) ==
  /\ StatementMayFail(r)
  /\ Goes(r, "new", "unclaimed")
  /\ row' \in {row} \cup (IF row[Key[r]] = Null THEN {ClaimRow(r)} ELSE {})
  /\ UNCHANGED <<live, guarded, effect, answer>>

(* Fault: the loser of the claim waits for the winner's response. *)
ReplayWaits(r) ==
  /\ Goes(r, "lost", "done")
  /\ LET found == row[Key[r]]
     IN  /\ found # Null
         /\ found.status # "in_flight"
         /\ answer' = [answer EXCEPT ![r] = [status |-> found.status, from |-> found.from]]
  /\ UNCHANGED <<row, live, guarded, effect>>

(* Fault: the request hash is not compared. *)
ReplayAnyHash(r) ==
  /\ Goes(r, "lost", "done")
  /\ LET found == row[Key[r]]
     IN  answer' = IF found # Null /\ found.status # "in_flight"
                   THEN [answer EXCEPT ![r] = [status |-> found.status, from |-> found.from]]
                   ELSE Answered(r, "conflict")
  /\ UNCHANGED <<row, live, guarded, effect>>

(* The loser of the claim replays a stored response of the same request;   *)
(* it never waits.                                                         *)
ReplayExisting(r) ==
  /\ Goes(r, "lost", "done")
  /\ LET found == row[Key[r]]
         replays == found # Null /\ found.hash = Hash[r] /\ found.status # "in_flight"
     IN  \/ /\ replays
            /\ answer' = [answer EXCEPT ![r] = [status |-> found.status, from |-> found.from]]
         \/ /\ ~replays \/ StatementMayFail(r)
            /\ answer' = Answered(r, "conflict")
  /\ UNCHANGED <<row, live, guarded, effect>>

(* The handler runs one transaction, which a dead context cannot commit.   *)
Handle(r) ==
  /\ Goes(r, "claimed", "handled") \/ Goes(r, "unclaimed", "done")
  /\ \/ /\ live[r]
        /\ effect' = [effect EXCEPT ![r] = TRUE]
        /\ answer' = Answered(r, "ok")
     \/ /\ answer' \in {Answered(r, "rejected"), Answered(r, "error")}
        /\ UNCHANGED effect
     \/ /\ "ack" \in faults
        /\ effect' = [effect EXCEPT ![r] = TRUE]
        /\ answer' = Answered(r, "error")
  /\ UNCHANGED <<row, live, guarded>>

(* Recovery is the outer middleware: nothing after c.Next() runs.          *)
Panic(r) ==
  /\ "panic" \in faults
  /\ Goes(r, "claimed", "dead") \/ Goes(r, "unclaimed", "dead")
  /\ answer' = Answered(r, "error")
  /\ UNCHANGED <<row, live, guarded, effect>>

(* Fault: the claim is released whatever the response. *)
AlwaysRelease(r) == [row EXCEPT ![Key[r]] = Null]

(* Fault: the claim of a failed run is kept. *)
StoreSuccess(r) ==
  IF answer[r].status = "error" THEN row
  ELSE [row EXCEPT ![Key[r]].status = answer[r].status, ![Key[r]].from = r]

Stored(r) ==
  IF answer[r].status = "error"
  THEN [row EXCEPT ![Key[r]] = Null]
  ELSE [row EXCEPT ![Key[r]].status = answer[r].status, ![Key[r]].from = r]

(* The owner of the key releases it or stores the response, with the       *)
(* context of the request; an error is only logged.                        *)
Finish(r) ==
  /\ Goes(r, "handled", "done")
  /\ \/ live[r] /\ row' = Stored(r)
     \/ StatementMayFail(r) /\ UNCHANGED row
  /\ UNCHANGED <<live, guarded, effect, answer>>

Disconnect(r) ==
  /\ "cancel" \in faults
  /\ live[r] /\ pc[r] \notin {"done", "dead"}
  /\ live' = [live EXCEPT ![r] = FALSE]
  /\ UNCHANGED <<faults, row, pc, guarded, effect, answer>>

(* The requests a dying process was serving. *)
Die(served) ==
  /\ served # {} /\ \A r \in served : pc[r] \notin {"new", "done", "dead"}
  /\ pc' = [r \in Requests |-> IF r \in served THEN "dead" ELSE pc[r]]
  /\ UNCHANGED <<faults, row, live, guarded, effect, answer>>

Crash(served) == "crash" \in faults /\ Die(served)

Serve(r) ==
  /\ Claim(r) \/ ClaimFails(r) \/ ReplayExisting(r) \/ Handle(r) \/ Panic(r) \/ Finish(r)
  /\ UNCHANGED faults

Next ==
  \/ \E r \in Requests : Serve(r)
  \/ \E r \in Requests : Disconnect(r)
  \/ \E served \in SUBSET Requests : Crash(served)

(* A process runs the requests it has accepted.                            *)
Spec == Init /\ [][Next]_ivars /\ \A r \in Requests : WF_ivars(Serve(r))
-----------------------------------------------------------------------------
SameKey(r, q) == r # q /\ Key[r] = Key[q]

(* router.go: "retries/duplicates cannot cause a double effect".  They     *)
(* cannot as long as no claim statement fails and no commit's answer is    *)
(* lost: not by disconnects, panics or crashes at any point.               *)
AtMostOnce ==
  faults \cap {"db", "ack"} = {} =>
    \A r, q \in Requests : SameKey(r, q) => ~(effect[r] /\ effect[q])

(* The only ways to a double effect: a run that went on after its claim    *)
(* failed, or a run whose effect was committed and answered by an error.   *)
DoubleEffectExplained ==
  \A r, q \in Requests : SameKey(r, q) /\ effect[r] /\ effect[q] =>
    \E p \in {r, q} : ~guarded[p] \/ answer[p].status = "error"

(* A replayed answer is the answer of the same request's one run under the *)
(* claim: never that of another body, of a run that was rolled back, or of *)
(* a failed one.                                                           *)
ReplayFaithful ==
  \A r \in Requests : answer[r].from \notin {r, Null} =>
    LET q == answer[r].from IN
        /\ guarded[q] /\ SameKey(r, q) /\ Hash[r] = Hash[q]
        /\ answer[r] = answer[q]
        /\ answer[r].status = "ok" <=> effect[q]

(* A client that was told "ok" under its key is safe to retry: the key is  *)
(* never free again.                                                       *)
AckedStaysClaimed ==
  \A r \in Requests : guarded[r] /\ pc[r] = "done" /\ answer[r].status = "ok" =>
    row[Key[r]] # Null /\ row[Key[r]].hash = Hash[r]

(* idempotency.go: "Transient failure: release the claim so the client may *)
(* retry."  After a run that was answered by an error the key is free, or  *)
(* another request has claimed it since.                                   *)
ReleasedAfterError ==
  \A r \in Requests : guarded[r] /\ pc[r] = "done" /\ answer[r].status = "error" =>
    \/ row[Key[r]] = Null
    \/ row[Key[r]].status # "in_flight"
    \/ \E q \in Requests : SameKey(r, q) /\ pc[q] \in {"claimed", "handled"}
=============================================================================

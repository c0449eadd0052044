--------------------------- MODULE ServerTheorems ---------------------------
(***************************************************************************)
(* The idempotency middleware at any number of processes: what Server      *)
(* promises of its keys, proved for all requests, keys and faults.         *)
(*                                                                         *)
(* The argument is about holders.  A request holds its key from its claim  *)
(* until it has been answered by an error; a key has one holder at most,   *)
(* and while it has one its row is there with the holder's hash.           *)
(***************************************************************************)
EXTENDS Server, TLAPS

Holds(r) == guarded[r] /\ ~(pc[r] = "done" /\ answer[r].status = "error")

OneHolder ==
  \A r \in Requests : Holds(r) =>
    /\ row[Key[r]] # Null
    /\ row[Key[r]].hash = Hash[r]
    /\ \A q \in Requests : SameKey(r, q) => ~Holds(q)

(* How far a request has come tells what it has won, done and answered.    *)
Progress ==
  \A r \in Requests :
    /\ pc[r] \in {"claimed", "handled"} => guarded[r]
    /\ pc[r] \in {"new", "unclaimed", "lost"} => ~guarded[r]
    /\ pc[r] \in {"new", "claimed", "unclaimed", "lost"} => ~effect[r] /\ answer[r] = NoAnswer
    /\ pc[r] = "unclaimed" => "db" \in faults \/ ~live[r]
    /\ pc[r] = "handled" => answer[r].from = r /\ answer[r].status \in {"ok", "rejected", "error"}

(* Without a lost commit answer or a failing claim an effect is one of a   *)
(* claimed run, and answered "ok".                                         *)
EffectsAnswered ==
  \A r \in Requests : effect[r] =>
    /\ "ack" \notin faults => answer[r].status = "ok"
    /\ {"db", "ack"} \cap faults = {} => guarded[r]

(* A run under the claim is answered "ok" exactly when it took effect.     *)
AnswersTrue ==
  \A r \in Requests :
    guarded[r] /\ answer[r].status \in {"ok", "rejected"} => (answer[r].status = "ok" <=> effect[r])

(* q's one run under the claim, over, which answer a tells of.             *)
Tells(a, q) ==
  /\ q \in Requests
  /\ guarded[q] /\ pc[q] = "done"
  /\ answer[q] = [status |-> a.status, from |-> q]
  /\ a.status \in {"ok", "rejected"}

RowsTell ==
  \A k \in Keys : row[k] # Null /\ row[k].status # "in_flight" =>
    /\ Tells(row[k], row[k].from)
    /\ Key[row[k].from] = k /\ Hash[row[k].from] = row[k].hash

ReplaysTell ==
  \A r \in Requests : answer[r].from \notin {r, Null} =>
    LET q == answer[r].from
    IN  /\ Tells(answer[r], q)
        /\ SameKey(r, q) /\ Hash[r] = Hash[q]

(* Why key k may be in flight: a request r is at work on it or was cut off.*)
Explains(r, k) ==
  /\ Key[r] = k
  /\ \/ guarded[r] /\ pc[r] \in {"claimed", "handled"}
     \/ pc[r] = "dead"
     \/ ~live[r] \/ "db" \in faults

IdemInv ==
  /\ IdemTypeOK
  /\ Progress
  /\ OneHolder
  /\ EffectsAnswered
  /\ AnswersTrue
  /\ RowsTell
  /\ ReplaysTell
  /\ OrphanExplained
-----------------------------------------------------------------------------
(* The claimed row, and the one that is stored, are rows.                  *)
LEMMA ClaimRowType ==
  ASSUME IdemTypeOK, NEW r \in Requests
  PROVE  /\ ClaimRow(r) \in [Keys -> Row \cup {Null}]
         /\ ClaimRow(r)[Key[r]] = [hash |-> Hash[r], status |-> "in_flight", from |-> Null]
         /\ ClaimRow(r)[Key[r]] # Null
         /\ \A k \in Keys \ {Key[r]} : ClaimRow(r)[k] = row[k]
<1> DEFINE new == [hash |-> Hash[r], status |-> "in_flight", from |-> Null]
<1>1. Key[r] \in Keys /\ Hash[r] \in Hashes
  BY RequestAssumption
<1>2. new \in Row
  BY <1>1 DEF Row
<1>3. new # Null
  BY <1>2, RowAssumption
<1> QED BY <1>1, <1>2, <1>3 DEF ClaimRow, IdemTypeOK

(* The invariant holds when nothing has been asked.                        *)
LEMMA IdemInit == ServerInit => IdemInv
<1> SUFFICES ASSUME Init PROVE IdemInv
  BY DEF ServerInit
<1> USE DEF Init
<1>1. IdemTypeOK
  BY DEF IdemTypeOK, Answer, NoAnswer
<1>2. Progress
  BY DEF Progress
<1>3. OneHolder
  BY DEF OneHolder, Holds
<1>4. EffectsAnswered /\ AnswersTrue
  BY DEF EffectsAnswered, AnswersTrue
<1>5. RowsTell /\ OrphanExplained
  BY DEF RowsTell, OrphanExplained
<1>6. ReplaysTell
  BY DEF ReplaysTell, NoAnswer
<1> QED BY <1>1, <1>2, <1>3, <1>4, <1>5, <1>6 DEF IdemInv

(* A request wins its key or finds it taken.                               *)
LEMMA ClaimKeeps ==
  ASSUME IdemInv, NEW r \in Requests, Claim(r), faults' = faults
  PROVE  IdemInv'
<1> USE DEF IdemInv
<1>k. Key[r] \in Keys /\ Hash[r] \in Hashes
  BY RequestAssumption
<1>0. pc[r] = "new" /\ live' = live /\ effect' = effect /\ answer' = answer
  BY DEF Claim, Goes
<1>1. CASE row[Key[r]] # Null
  <2>1. pc' = [pc EXCEPT ![r] = "lost"] /\ row' = row /\ guarded' = guarded
    BY <1>1 DEF Claim, Goes
  <2>2. IdemTypeOK'
    BY <1>0, <2>1 DEF IdemTypeOK
  <2>3. Progress'
    BY <1>0, <2>1 DEF Progress, IdemTypeOK
  <2>4. OneHolder'
    BY <1>0, <2>1 DEF OneHolder, Holds, SameKey, IdemTypeOK
  <2>5. EffectsAnswered' /\ AnswersTrue'
    BY <1>0, <2>1 DEF EffectsAnswered, AnswersTrue
  <2>6. \A a, q : Tells(a, q) => Tells(a, q)'
    BY <1>0, <2>1 DEF Tells, IdemTypeOK
  <2>7. RowsTell'
    BY <2>1, <2>6 DEF RowsTell
  <2>8. ReplaysTell'
    BY <1>0, <2>6 DEF ReplaysTell, SameKey
  <2>9. OrphanExplained'
    BY <1>0, <2>1 DEF OrphanExplained, IdemTypeOK
  <2> QED BY <2>2, <2>3, <2>4, <2>5, <2>7, <2>8, <2>9
<1>2. CASE row[Key[r]] = Null
  <2>1. /\ pc' = [pc EXCEPT ![r] = "claimed"] /\ row' = ClaimRow(r)
        /\ guarded' = [guarded EXCEPT ![r] = TRUE]
    BY <1>2 DEF Claim, Goes
  <2>c. /\ row' \in [Keys -> Row \cup {Null}]
        /\ row'[Key[r]] = [hash |-> Hash[r], status |-> "in_flight", from |-> Null]
        /\ row'[Key[r]] # Null
        /\ \A k \in Keys \ {Key[r]} : row'[k] = row[k]
    BY <2>1, ClaimRowType
  <2>2. IdemTypeOK'
    BY <1>0, <2>1, <2>c DEF IdemTypeOK
  <2>3. Progress'
    BY <1>0, <2>1 DEF Progress, IdemTypeOK
  <2>4. OneHolder'
    <3>1. \A q \in Requests : SameKey(r, q) => ~Holds(q)
      BY <1>2 DEF OneHolder, SameKey
    <3>2. \A q \in Requests : q # r => (Holds(q)' <=> Holds(q))
      BY <1>0, <2>1 DEF Holds, IdemTypeOK
    <3>3. \A q \in Requests : Key[q] \in Keys
      BY RequestAssumption
    <3> QED BY <2>c, <3>1, <3>2, <3>3 DEF OneHolder, SameKey
  <2>5. EffectsAnswered' /\ AnswersTrue'
    BY <1>0, <2>1 DEF EffectsAnswered, AnswersTrue, Progress, NoAnswer, IdemTypeOK
  <2>t. \A a, q : Tells(a, q) => Tells(a, q)'
    BY <1>0, <2>1 DEF Tells, IdemTypeOK
  <2>6. RowsTell'
    BY <2>c, <2>t DEF RowsTell
  <2>7. ReplaysTell'
    BY <1>0, <2>t DEF ReplaysTell, SameKey
  <2>8. OrphanExplained'
    <3>1. Explains(r, Key[r])'
      BY <1>0, <2>1 DEF Explains, IdemTypeOK
    <3>2. \A q \in Requests, k \in Keys : Explains(q, k) => Explains(q, k)'
      BY <1>0, <2>1 DEF Explains, IdemTypeOK
    <3> QED BY <2>c, <3>1, <3>2 DEF OrphanExplained, Explains
  <2> QED BY <2>2, <2>3, <2>4, <2>5, <2>6, <2>7, <2>8
<1> QED BY <1>1, <1>2

(* A claim that fails leaves a row behind or not.                          *)
LEMMA ClaimFailsKeeps ==
  ASSUME IdemInv, NEW r \in Requests, ClaimFails(r), faults' = faults
  PROVE  IdemInv'
<1> USE DEF IdemInv
<1>0. /\ pc[r] = "new" /\ pc' = [pc EXCEPT ![r] = "unclaimed"]
      /\ StatementMayFail(r)
      /\ live' = live /\ guarded' = guarded /\ effect' = effect /\ answer' = answer
  BY DEF ClaimFails, Goes
<1>k. \A q \in Requests : Key[q] \in Keys
  BY RequestAssumption
<1>c. /\ row' \in [Keys -> Row \cup {Null}]
      /\ \A k \in Keys : row'[k] # row[k] =>
           /\ k = Key[r] /\ row[k] = Null /\ row'[k].status = "in_flight"
  <2>1. CASE row' = row
    BY <2>1 DEF IdemTypeOK
  <2>2. CASE row[Key[r]] = Null /\ row' = ClaimRow(r)
    <3>1. ClaimRow(r)[Key[r]].status = "in_flight"
      <4>1. ClaimRow(r)[Key[r]] = [hash |-> Hash[r], status |-> "in_flight", from |-> Null]
        BY ClaimRowType
      <4> QED BY <4>1
    <3> QED BY <1>k, <2>2, <3>1, ClaimRowType
  <2> QED BY <2>1, <2>2 DEF ClaimFails
<1>1. IdemTypeOK'
  BY <1>0, <1>c DEF IdemTypeOK
<1>2. Progress'
  BY <1>0 DEF Progress, IdemTypeOK, StatementMayFail
<1>3. OneHolder'
  <2>1. \A q \in Requests : Holds(q)' => Holds(q)
    BY <1>0 DEF Holds, IdemTypeOK
  <2>2. \A q \in Requests : Holds(q) => row'[Key[q]] = row[Key[q]]
    BY <1>c, <1>k DEF OneHolder
  <2> QED BY <2>1, <2>2 DEF OneHolder, SameKey
<1>4. EffectsAnswered' /\ AnswersTrue'
  BY <1>0 DEF EffectsAnswered, AnswersTrue
<1>t. \A a, q : Tells(a, q) => Tells(a, q)'
  BY <1>0 DEF Tells, IdemTypeOK
<1>5. RowsTell'
  <2> SUFFICES ASSUME NEW k \in Keys, row'[k] # Null, row'[k].status # "in_flight"
               PROVE  /\ Tells(row[k], row[k].from)'
                      /\ Key[row'[k].from] = k /\ Hash[row'[k].from] = row'[k].hash
    BY DEF RowsTell
  <2>1. row'[k] = row[k]
    BY <1>c
  <2>2. Tells(row[k], row[k].from) /\ Key[row[k].from] = k /\ Hash[row[k].from] = row[k].hash
    BY <2>1 DEF RowsTell
  <2> QED BY <1>0, <2>1, <2>2 DEF Tells, IdemTypeOK
<1>6. ReplaysTell'
  BY <1>0, <1>t DEF ReplaysTell, SameKey
<1>7. OrphanExplained'
  <2>1. Explains(r, Key[r])'
    BY <1>0 DEF Explains, StatementMayFail
  <2>2. \A q \in Requests, k \in Keys : Explains(q, k) => Explains(q, k)'
    BY <1>0 DEF Explains, IdemTypeOK
  <2> QED BY <1>c, <2>1, <2>2 DEF OrphanExplained, Explains
<1> QED BY <1>1, <1>2, <1>3, <1>4, <1>5, <1>6, <1>7

(* A loser replays what the winner's row tells, or conflicts.              *)
LEMMA ReplayKeeps ==
  ASSUME IdemInv, NEW r \in Requests, ReplayExisting(r), faults' = faults
  PROVE  IdemInv'
<1> USE DEF IdemInv
<1>k. Key[r] \in Keys
  BY RequestAssumption
<1>0. /\ pc[r] = "lost" /\ pc' = [pc EXCEPT ![r] = "done"]
      /\ row' = row /\ live' = live /\ guarded' = guarded /\ effect' = effect
      /\ ~guarded[r] /\ ~effect[r]
  BY DEF ReplayExisting, Goes, Progress
<1>a. PICK a \in Answer :
        /\ answer' = [answer EXCEPT ![r] = a]
        /\ \/ a = [status |-> "conflict", from |-> r]
           \/ /\ row[Key[r]] # Null /\ row[Key[r]].status # "in_flight"
              /\ row[Key[r]].hash = Hash[r]
              /\ a = [status |-> row[Key[r]].status, from |-> row[Key[r]].from]
  <2>1. CASE answer' = Answered(r, "conflict")
    BY <2>1 DEF Answered, Answer
  <2>2. CASE /\ row[Key[r]] # Null /\ row[Key[r]].hash = Hash[r]
             /\ row[Key[r]].status # "in_flight"
             /\ answer' = [answer EXCEPT ![r] = [status |-> row[Key[r]].status,
                                                from |-> row[Key[r]].from]]
    <3>1. row[Key[r]] \in Row
      BY <1>k, <2>2 DEF IdemTypeOK
    <3> QED BY <2>2, <3>1 DEF Row, Answer
  <2> QED BY <2>1, <2>2 DEF ReplayExisting
<1>1. IdemTypeOK'
  BY <1>0, <1>a DEF IdemTypeOK
<1>2. Progress'
  BY <1>0, <1>a DEF Progress, IdemTypeOK
<1>3. OneHolder'
  <2>1. \A q \in Requests : Holds(q)' <=> Holds(q)
    BY <1>0, <1>a DEF Holds, IdemTypeOK
  <2> QED BY <1>0, <2>1 DEF OneHolder, SameKey
<1>4. EffectsAnswered' /\ AnswersTrue'
  BY <1>0, <1>a DEF EffectsAnswered, AnswersTrue, IdemTypeOK
<1>t. \A b, q : Tells(b, q) => Tells(b, q)'
  BY <1>0, <1>a DEF Tells, IdemTypeOK
<1>5. RowsTell'
  BY <1>0, <1>t DEF RowsTell
<1>6. ReplaysTell'
  <2> SUFFICES ASSUME NEW s \in Requests, answer'[s].from \notin {s, Null}
               PROVE  /\ Tells(answer[s], answer[s].from)'
                      /\ SameKey(s, answer'[s].from) /\ Hash[s] = Hash[answer'[s].from]
    BY DEF ReplaysTell, SameKey
  <2>1. CASE s # r
    <3>1. answer'[s] = answer[s]
      BY <1>a, <2>1 DEF IdemTypeOK
    <3>2. Tells(answer[s], answer[s].from) /\ SameKey(s, answer[s].from)
          /\ Hash[s] = Hash[answer[s].from]
      BY <3>1 DEF ReplaysTell
    <3>3. Tells(answer[s], answer[s].from)'
      BY <1>t, <1>0, <1>a, <3>1, <3>2 DEF Tells, IdemTypeOK
    <3> QED BY <3>1, <3>2, <3>3
  <2>2. CASE s = r
    <3>1. answer'[r] = a
      BY <1>a DEF IdemTypeOK
    <3> DEFINE q == row[Key[r]].from
    <3>2. /\ row[Key[r]] # Null /\ row[Key[r]].status # "in_flight"
          /\ row[Key[r]].hash = Hash[r]
          /\ a = [status |-> row[Key[r]].status, from |-> q]
      BY <1>a, <2>2, <3>1
    <3>3. Tells(row[Key[r]], q) /\ Key[q] = Key[r] /\ Hash[q] = Hash[r]
      BY <1>k, <3>2 DEF RowsTell
    <3>4. q # r
      BY <1>0, <3>3 DEF Tells
    <3>5. /\ q \in Requests /\ guarded'[q] /\ pc'[q] = "done"
          /\ answer'[q] = [status |-> a.status, from |-> q]
          /\ a.status \in {"ok", "rejected"} /\ a.from = q
      BY <1>0, <1>a, <3>2, <3>3, <3>4 DEF Tells, IdemTypeOK
    <3>6. Tells(answer[s], answer[s].from)'
      BY <2>2, <3>1, <3>5 DEF Tells
    <3>7. SameKey(s, q) /\ Hash[s] = Hash[q] /\ answer'[s].from = q
      BY <2>2, <3>1, <3>3, <3>4, <3>5 DEF SameKey
    <3> QED BY <3>6, <3>7
  <2> QED BY <2>1, <2>2
<1>7. OrphanExplained'
  <2>2. \A q \in Requests, k \in Keys : Explains(q, k) => Explains(q, k)'
    BY <1>0 DEF Explains, IdemTypeOK
  <2> QED BY <1>0, <2>2 DEF OrphanExplained, Explains
<1> QED BY <1>1, <1>2, <1>3, <1>4, <1>5, <1>6, <1>7

(* The handler runs, or panics, and keeps what the request has claimed.    *)
LEMMA HandleKeeps ==
  ASSUME IdemInv, NEW r \in Requests, Handle(r) \/ Panic(r), faults' = faults
  PROVE  IdemInv'
<1> USE DEF IdemInv
<1>0. /\ row' = row /\ live' = live /\ guarded' = guarded
      /\ pc[r] \in {"claimed", "unclaimed"} /\ ~effect[r]
  BY DEF Handle, Panic, Goes, Progress
<1>a. PICK status \in {"ok", "rejected", "error"}, e \in BOOLEAN :
        /\ answer' = [answer EXCEPT ![r] = [status |-> status, from |-> r]]
        /\ effect' = [effect EXCEPT ![r] = e]
        /\ status = "ok" => e /\ live[r]
        /\ status = "rejected" => ~e
        /\ e => status = "ok" \/ "ack" \in faults
  <2>1. CASE effect' = [effect EXCEPT ![r] = TRUE] /\ answer' = Answered(r, "ok") /\ live[r]
    BY <2>1 DEF Answered
  <2>2. CASE effect' = [effect EXCEPT ![r] = TRUE] /\ answer' = Answered(r, "error") /\ "ack" \in faults
    BY <2>2 DEF Answered
  <2>3. CASE effect' = effect /\ answer' \in {Answered(r, "rejected"), Answered(r, "error")}
    <3>1. effect' = [effect EXCEPT ![r] = FALSE]
      BY <1>0, <2>3 DEF IdemTypeOK
    <3> QED BY <2>3, <3>1 DEF Answered
  <2> QED BY <2>1, <2>2, <2>3 DEF Handle, Panic
<1>p. PICK p \in {"handled", "done", "dead"} :
        /\ pc' = [pc EXCEPT ![r] = p]
        /\ pc[r] = "claimed" => p \in {"handled", "dead"}
        /\ pc[r] = "unclaimed" => p # "handled"
  BY DEF Handle, Panic, Goes
<1>1. IdemTypeOK'
  BY <1>0, <1>a, <1>p DEF IdemTypeOK, Answer
<1>2. Progress'
  BY <1>0, <1>a, <1>p DEF Progress, IdemTypeOK
<1>3. OneHolder'
  <2>1. \A q \in Requests : Holds(q)' <=> Holds(q)
    BY <1>0, <1>a, <1>p DEF Holds, IdemTypeOK, Progress
  <2> QED BY <1>0, <2>1 DEF OneHolder, SameKey
<1>4. EffectsAnswered'
  <2>1. effect'[r] => /\ "ack" \notin faults => answer'[r].status = "ok"
                      /\ {"db", "ack"} \cap faults = {} => guarded[r]
    BY <1>0, <1>a DEF Progress, IdemTypeOK
  <2> QED BY <1>0, <1>a, <2>1 DEF EffectsAnswered, IdemTypeOK
<1>5. AnswersTrue'
  BY <1>0, <1>a DEF AnswersTrue, IdemTypeOK
<1>t. \A b, q : Tells(b, q) => Tells(b, q)'
  BY <1>0, <1>a, <1>p DEF Tells, IdemTypeOK
<1>6. RowsTell'
  BY <1>0, <1>t DEF RowsTell
<1>7. ReplaysTell'
  <2> SUFFICES ASSUME NEW s \in Requests, answer'[s].from \notin {s, Null}
               PROVE  /\ Tells(answer[s], answer[s].from)'
                      /\ SameKey(s, answer'[s].from) /\ Hash[s] = Hash[answer'[s].from]
    BY DEF ReplaysTell, SameKey
  <2>1. s # r /\ answer'[s] = answer[s]
    BY <1>a DEF IdemTypeOK
  <2>2. Tells(answer[s], answer[s].from) /\ SameKey(s, answer[s].from)
        /\ Hash[s] = Hash[answer[s].from]
    BY <2>1 DEF ReplaysTell
  <2>3. Tells(answer[s], answer[s].from)'
    BY <1>0, <1>a, <1>p, <2>1, <2>2 DEF Tells, IdemTypeOK
  <2> QED BY <2>1, <2>2, <2>3
<1>8. OrphanExplained'
  <2>2. \A q \in Requests, k \in Keys : Explains(q, k) => Explains(q, k)'
    BY <1>0, <1>p DEF Explains, IdemTypeOK
  <2> QED BY <1>0, <2>2 DEF OrphanExplained, Explains
<1> QED BY <1>1, <1>2, <1>3, <1>4, <1>5, <1>6, <1>7, <1>8

(* The holder stores its answer, gives its key up, or fails to do either.  *)
LEMMA FinishKeeps ==
  ASSUME IdemInv, NEW r \in Requests, Finish(r), faults' = faults
  PROVE  IdemInv'
<1> USE DEF IdemInv
<1>k. \A q \in Requests : Key[q] \in Keys
  BY RequestAssumption
<1>0. /\ pc[r] = "handled" /\ pc' = [pc EXCEPT ![r] = "done"]
      /\ live' = live /\ guarded' = guarded /\ effect' = effect /\ answer' = answer
      /\ guarded[r] /\ answer[r].from = r /\ answer[r].status \in {"ok", "rejected", "error"}
      /\ Holds(r) /\ row[Key[r]] # Null /\ row[Key[r]].hash = Hash[r]
  BY DEF Finish, Goes, Progress, OneHolder, Holds
<1>r. row[Key[r]] \in Row
  BY <1>0, <1>k DEF IdemTypeOK
<1>c. /\ row' \in [Keys -> Row \cup {Null}]
      /\ \A k \in Keys \ {Key[r]} : row'[k] = row[k]
      /\ \/ StatementMayFail(r) /\ row'[Key[r]] = row[Key[r]]
         \/ answer[r].status = "error" /\ row'[Key[r]] = Null
         \/ /\ answer[r].status # "error" /\ row'[Key[r]] # Null
            /\ row'[Key[r]] = [hash |-> Hash[r], status |-> answer[r].status, from |-> r]
  <2>1. CASE StatementMayFail(r) /\ row' = row
    BY <2>1 DEF IdemTypeOK
  <2>2. CASE answer[r].status = "error" /\ row' = [row EXCEPT ![Key[r]] = Null]
    BY <1>k, <2>2 DEF IdemTypeOK
  <2>3. CASE /\ answer[r].status # "error"
             /\ row' = [row EXCEPT ![Key[r]].status = answer[r].status, ![Key[r]].from = r]
    <3> DEFINE new == [hash |-> Hash[r], status |-> answer[r].status, from |-> r]
    <3>1. new \in Row
      BY <1>0, <2>3, RequestAssumption DEF Row
    <3>2. row' = [row EXCEPT ![Key[r]] = new]
      <4>1. PICK s, f : row[Key[r]] = [hash |-> Hash[r], status |-> s, from |-> f]
        BY <1>0, <1>r DEF Row
      <4>2. [[row[Key[r]] EXCEPT !.status = answer[r].status] EXCEPT !.from = r] = new
        <5>1. [row[Key[r]] EXCEPT !.status = answer[r].status]
                = [hash |-> Hash[r], status |-> answer[r].status, from |-> f]
          BY <4>1
        <5>2. [[hash |-> Hash[r], status |-> answer[r].status, from |-> f] EXCEPT !.from = r] = new
          OBVIOUS
        <5> QED BY <5>1, <5>2
      <4>3. row' = [row EXCEPT ![Key[r]] =
                      [[row[Key[r]] EXCEPT !.status = answer[r].status] EXCEPT !.from = r]]
        BY <1>k, <2>3 DEF IdemTypeOK
      <4> QED BY <4>2, <4>3
    <3>3. new # Null
      BY <3>1, RowAssumption
    <3>4. row'[Key[r]] = new /\ \A k \in Keys \ {Key[r]} : row'[k] = row[k]
      BY <1>k, <3>2 DEF IdemTypeOK
    <3>5. row' \in [Keys -> Row \cup {Null}]
      BY <3>1, <3>2 DEF IdemTypeOK
    <3> QED BY <2>3, <3>3, <3>4, <3>5
  <2> QED BY <2>1, <2>2, <2>3 DEF Finish, Stored
<1>1. IdemTypeOK'
  BY <1>0, <1>c DEF IdemTypeOK
<1>2. Progress'
  BY <1>0 DEF Progress, IdemTypeOK
<1>3. OneHolder'
  <2>1. \A q \in Requests : Holds(q)' => Holds(q)
    BY <1>0 DEF Holds, IdemTypeOK
  <2>2. Holds(r)' => row'[Key[r]] # Null /\ row'[Key[r]].hash = Hash[r]
    BY <1>0, <1>c DEF Holds, IdemTypeOK
  <2>3. \A q \in Requests : q # r /\ Holds(q) => row'[Key[q]] = row[Key[q]]
    BY <1>0, <1>c, <1>k DEF OneHolder, SameKey
  <2> QED BY <2>1, <2>2, <2>3 DEF OneHolder, SameKey
<1>4. EffectsAnswered' /\ AnswersTrue'
  BY <1>0 DEF EffectsAnswered, AnswersTrue
<1>t. \A b, q : Tells(b, q) => Tells(b, q)'
  BY <1>0 DEF Tells, IdemTypeOK
<1>5. RowsTell'
  <2> SUFFICES ASSUME NEW k \in Keys, row'[k] # Null, row'[k].status # "in_flight"
               PROVE  /\ Tells(row[k], row[k].from)'
                      /\ Key[row'[k].from] = k /\ Hash[row'[k].from] = row'[k].hash
    BY DEF RowsTell
  <2>1. CASE row'[k] = row[k]
    <3>1. Tells(row[k], row[k].from) /\ Key[row[k].from] = k /\ Hash[row[k].from] = row[k].hash
      BY <2>1 DEF RowsTell
    <3> QED BY <1>0, <2>1, <3>1 DEF Tells, IdemTypeOK
  <2>2. CASE k = Key[r] /\ answer[r].status # "error"
             /\ row'[k] = [hash |-> Hash[r], status |-> answer[r].status, from |-> r]
    <3>1. answer[r] = [status |-> answer[r].status, from |-> r]
      BY <1>0 DEF IdemTypeOK, Answer
    <3> QED BY <1>0, <2>2, <3>1 DEF Tells, IdemTypeOK
  <2> QED BY <1>c, <2>1, <2>2
<1>6. ReplaysTell'
  BY <1>0, <1>t DEF ReplaysTell, SameKey
<1>7. OrphanExplained'
  <2>1. \A q \in Requests, k \in Keys : q # r /\ Explains(q, k) => Explains(q, k)'
    BY <1>0 DEF Explains, IdemTypeOK
  <2>2. StatementMayFail(r) => Explains(r, Key[r])'
    BY <1>0 DEF Explains, StatementMayFail
  <2>3. row'[Key[r]] # Null /\ row'[Key[r]].status = "in_flight" => StatementMayFail(r)
    BY <1>0, <1>c
  <2>4. \A q \in Requests, k \in Keys : Explains(q, k) /\ k # Key[r] => q # r
    BY DEF Explains
  <2> QED BY <1>c, <2>1, <2>2, <2>3, <2>4 DEF OrphanExplained, Explains
<1> QED BY <1>1, <1>2, <1>3, <1>4, <1>5, <1>6, <1>7

(* A client that goes away changes nothing but its request's context.      *)
LEMMA DisconnectKeeps ==
  ASSUME IdemInv, NEW r \in Requests, Disconnect(r)
  PROVE  IdemInv'
<1> USE DEF IdemInv
<1>0. /\ live' = [live EXCEPT ![r] = FALSE]
      /\ faults' = faults /\ row' = row /\ pc' = pc /\ guarded' = guarded
      /\ effect' = effect /\ answer' = answer
  BY DEF Disconnect
<1>1. IdemTypeOK' /\ Progress'
  BY <1>0 DEF IdemTypeOK, Progress
<1>2. OneHolder' /\ EffectsAnswered' /\ AnswersTrue'
  BY <1>0 DEF OneHolder, Holds, EffectsAnswered, AnswersTrue
<1>3. RowsTell' /\ ReplaysTell'
  BY <1>0 DEF RowsTell, ReplaysTell, Tells
<1>4. OrphanExplained'
  <2>2. \A q \in Requests, k \in Keys : Explains(q, k) => Explains(q, k)'
    BY <1>0 DEF Explains, IdemTypeOK
  <2> QED BY <1>0, <2>2 DEF OrphanExplained, Explains
<1> QED BY <1>1, <1>2, <1>3, <1>4

(* The requests of a process that exits die as they are.                   *)
LEMMA DieKeeps ==
  ASSUME IdemInv, NEW served \in SUBSET Requests, Die(served)
  PROVE  IdemInv'
<1> USE DEF IdemInv
<1>0. /\ pc' = [r \in Requests |-> IF r \in served THEN "dead" ELSE pc[r]]
      /\ \A r \in served : pc[r] # "done"
      /\ faults' = faults /\ row' = row /\ live' = live /\ guarded' = guarded
      /\ effect' = effect /\ answer' = answer
  BY DEF Die
<1>1. IdemTypeOK' /\ Progress'
  BY <1>0 DEF IdemTypeOK, Progress
<1>2. OneHolder'
  <2>1. \A q \in Requests : Holds(q)' <=> Holds(q)
    BY <1>0 DEF Holds
  <2> QED BY <1>0, <2>1 DEF OneHolder, SameKey
<1>3. EffectsAnswered' /\ AnswersTrue'
  BY <1>0 DEF EffectsAnswered, AnswersTrue
<1>t. \A b, q : Tells(b, q) => Tells(b, q)'
  BY <1>0 DEF Tells
<1>4. RowsTell' /\ ReplaysTell'
  BY <1>0, <1>t DEF RowsTell, ReplaysTell, SameKey
<1>5. OrphanExplained'
  <2>2. \A q \in Requests, k \in Keys : Explains(q, k) => Explains(q, k)'
    BY <1>0 DEF Explains
  <2> QED BY <1>0, <2>2 DEF OrphanExplained, Explains
<1> QED BY <1>1, <1>2, <1>3, <1>4, <1>5

(* Steps outside the middleware leave its state alone.                     *)
LEMMA RestKeeps ==
  ASSUME IdemInv, UNCHANGED ivars
  PROVE  IdemInv'
<1> USE DEF ivars
<1>1. IdemTypeOK' /\ Progress'
  BY DEF IdemInv, IdemTypeOK, Progress
<1>2. OneHolder' /\ EffectsAnswered' /\ AnswersTrue'
  BY DEF IdemInv, OneHolder, Holds, EffectsAnswered, AnswersTrue
<1>3. RowsTell' /\ ReplaysTell'
  BY DEF IdemInv, RowsTell, ReplaysTell, Tells
<1>4. OrphanExplained'
  BY DEF IdemInv, OrphanExplained
<1> QED BY <1>1, <1>2, <1>3, <1>4 DEF IdemInv

(* No step of any process, request or client breaks the invariant.         *)
LEMMA ServerStep ==
  ASSUME IdemInv, [ServerNext]_servervars
  PROVE  IdemInv'
<1>1. ASSUME NEW p \in Processes, Boot(p) \/ Signal(p)
      PROVE  IdemInv'
  BY <1>1, RestKeeps DEF Boot, Signal
<1>2. ASSUME NEW p \in Processes, Shutdown(p) \/ Kill(p)
      PROVE  IdemInv'
  <2>1. Running(p) \in SUBSET Requests
    BY DEF Running
  <2>2. UNCHANGED ivars \/ Die(Running(p))
    BY <1>2 DEF Shutdown, Kill, Exits
  <2> QED BY <2>1, <2>2, RestKeeps, DieKeeps
<1>3. ASSUME NEW r \in Requests, Arrives(r)
      PROVE  IdemInv'
  BY <1>3, ClaimKeeps, ClaimFailsKeeps DEF Arrives
<1>4. ASSUME NEW r \in Requests, Serves(r)
      PROVE  IdemInv'
  BY <1>4, ReplayKeeps, FinishKeeps, HandleKeeps DEF Serves, Middleware
<1>5. ASSUME NEW r \in Requests, Leaves(r)
      PROVE  IdemInv'
  BY <1>5, DisconnectKeeps DEF Leaves
<1>6. CASE UNCHANGED servervars
  BY <1>6, RestKeeps DEF servervars
<1> QED BY <1>1, <1>2, <1>3, <1>4, <1>5, <1>6 DEF ServerNext

(* The invariant holds of every behaviour of the processes.                *)
THEOREM HoldersInvariant == ServerSpec => []IdemInv
BY IdemInit, ServerStep, PTL DEF ServerSpec
-----------------------------------------------------------------------------
(* Retries, duplicates and reused keys take effect once, through           *)
(* disconnects, panics, crashes and drains that time out, unless a claim   *)
(* statement fails or a commit's answer is lost.                           *)
THEOREM AlwaysAtMostOnce == ServerSpec => []AtMostOnce
<1>1. IdemInv => AtMostOnce
  <2> SUFFICES ASSUME IdemInv, faults \cap {"db", "ack"} = {},
                      NEW r \in Requests, NEW q \in Requests, SameKey(r, q), effect[r], effect[q]
               PROVE  FALSE
    BY DEF AtMostOnce
  <2>1. Holds(r) /\ Holds(q)
    BY DEF IdemInv, EffectsAnswered, Holds
  <2> QED BY <2>1 DEF IdemInv, OneHolder
<1> QED BY <1>1, HoldersInvariant, PTL

(* Two effects of one key need a run beside its claim or a run whose       *)
(* effect was answered by an error.                                        *)
THEOREM DoubleEffectAlwaysExplained == ServerSpec => []DoubleEffectExplained
<1>1. IdemInv => DoubleEffectExplained
  BY DEF IdemInv, OneHolder, Holds, DoubleEffectExplained
<1> QED BY <1>1, HoldersInvariant, PTL

(* What is replayed is the one run under the claim.                        *)
THEOREM ReplayAlwaysFaithful == ServerSpec => []ReplayFaithful
<1>1. IdemInv => ReplayFaithful
  <2> SUFFICES ASSUME IdemInv, NEW r \in Requests, answer[r].from \notin {r, Null}
               PROVE  LET q == answer[r].from
                      IN  /\ guarded[q] /\ SameKey(r, q) /\ Hash[r] = Hash[q]
                          /\ answer[r] = answer[q]
                          /\ answer[r].status = "ok" <=> effect[q]
    BY DEF ReplayFaithful
  <2> DEFINE q == answer[r].from
  <2>1. Tells(answer[r], q) /\ SameKey(r, q) /\ Hash[r] = Hash[q]
    BY DEF IdemInv, ReplaysTell
  <2>2. answer[r] = [status |-> answer[r].status, from |-> q]
    BY DEF IdemInv, IdemTypeOK, Answer
  <2>3. answer[r].status = "ok" <=> effect[q]
    BY <2>1 DEF IdemInv, AnswersTrue, Tells
  <2> QED BY <2>1, <2>2, <2>3 DEF Tells
<1> QED BY <1>1, HoldersInvariant, PTL

(* A key whose request was answered "ok" is never free again.              *)
THEOREM AckedAlwaysClaimed == ServerSpec => []AckedStaysClaimed
<1>1. IdemInv => AckedStaysClaimed
  BY DEF IdemInv, OneHolder, Holds, AckedStaysClaimed
<1> QED BY <1>1, HoldersInvariant, PTL

(* A key stays in flight only behind a request that was cut off.           *)
THEOREM OrphansAlwaysExplained == ServerSpec => []OrphanExplained
<1>1. IdemInv => OrphanExplained
  BY DEF IdemInv
<1> QED BY <1>1, HoldersInvariant, PTL
=============================================================================

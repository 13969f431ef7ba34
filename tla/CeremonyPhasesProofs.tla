------------------------ MODULE CeremonyPhasesProofs ------------------------
(***************************************************************************)
(* Proofs about the two halves that MCCeremonyPhases explores.             *)
(* CeremonyAdmin, for any number of requests, events, rounds and zkeys and *)
(* any age limit: the type invariant, that a signed event takes effect at  *)
(* most once, that an uploaded zkey is stored, and that a recorded round   *)
(* keeps its date and its blob.  PowersOfTau, for any prime order, degree, *)
(* secrets, masks and faults and any number of participants and rounds:    *)
(* what the accepted rounds hold and what each verifier says of them.      *)
(***************************************************************************)
EXTENDS CeremonyAdmin, PowersOfTau, Integers, SequenceTheorems, WellFoundedInduction, TLAPS

-------------------------------------------------------------------------------
(* CeremonyAdmin: the invariant *)

\* A request whose only counted effect is still to come.
Pending(t) == At(t, "act") \/ At(t, "insert")

(***************************************************************************)
(* Past the replay table a request is an admin's and its event is seen;    *)
(* the second statements belong to the handlers that have one.             *)
(***************************************************************************)
Admitted ==
    \A t \in Requests : (task[t] # Idle /\ ~At(t, "mark")) =>
        /\ task[t].pubkey \in Admins
        /\ seen[task[t].id] # Null
        /\ At(t, "beacon") => task[t].op = "freeze"
        /\ At(t, "insert") =>
              /\ task[t].op = "upload"
              /\ task[t].body.zkey = task[t].body.file
              /\ task[t].body.file \in blobs

(***************************************************************************)
(* An event has no effect while a request for it is pending, there is one  *)
(* such request at most, and an event with an effect is seen.              *)
(***************************************************************************)
Once ==
    /\ \A t \in Requests : Pending(t) => effects[task[t].id] = 0
    /\ \A t, u \in Requests :
          (Pending(t) /\ Pending(u) /\ task[t].id = task[u].id) => t = u
    /\ \A e \in Events : effects[e] > 0 => seen[e] # Null

AdminInv == AdminTypeOK /\ Admitted /\ Once /\ AppliedOnce /\ UploadedZkeyIsStored

-------------------------------------------------------------------------------
(* The types of tasks *)

(***************************************************************************)
(* The fields of a request under way.                                      *)
(***************************************************************************)
LEMMA TaskFields ==
    ASSUME NEW x \in Task
    PROVE  /\ x # Idle /\ x.pc \in Pc /\ x.id \in Events /\ x.op \in Op
           /\ x.pubkey \in Admins \cup Others /\ x.body \in Bodies[x.op]
           /\ x = [pc |-> x.pc, id |-> x.id, op |-> x.op, pubkey |-> x.pubkey, body |-> x.body]
<1>1. PICK o \in Op : x \in TaskOf(o)
  BY DEF Task
<1>2. /\ x.pc \in Pc /\ x.id \in Events /\ x.op = o
      /\ x.pubkey \in Admins \cup Others /\ x.body \in Bodies[o]
      /\ x = [pc |-> x.pc, id |-> x.id, op |-> x.op, pubkey |-> x.pubkey, body |-> x.body]
  BY <1>1 DEF TaskOf
<1>3. x # Idle
  BY <1>2 DEF Idle, Pc
<1> QED
  BY <1>2, <1>3

(***************************************************************************)
(* The body of a request is of its operation's type.                       *)
(***************************************************************************)
LEMMA BodyFields ==
    ASSUME NEW x \in Task
    PROVE  /\ x.op = "freeze" => x.body \in FreezeRequest
           /\ x.op = "beacon" => x.body \in BeaconRequest
           /\ x.op = "publish" => x.body \in RoundRequest
           /\ x.op = "upload" => x.body \in UploadRequest
<1>1. x.body \in Bodies[x.op]
  BY TaskFields
<1>2. /\ Bodies["freeze"] = FreezeRequest /\ Bodies["beacon"] = BeaconRequest
      /\ Bodies["publish"] = RoundRequest /\ Bodies["upload"] = UploadRequest
  BY DEF Bodies
<1> QED
  BY <1>1, <1>2

(***************************************************************************)
(* A request is built from fields of the right types.                      *)
(***************************************************************************)
LEMMA TaskBuilt ==
    ASSUME NEW pc \in Pc, NEW e \in Events, NEW o \in Op,
           NEW key \in Admins \cup Others, NEW body \in Bodies[o]
    PROVE  [pc |-> pc, id |-> e, op |-> o, pubkey |-> key, body |-> body] \in Task
<1>1. [pc |-> pc, id |-> e, op |-> o, pubkey |-> key, body |-> body] \in TaskOf(o)
  BY DEF TaskOf
<1> QED
  BY <1>1 DEF Task

(***************************************************************************)
(* A request that is somewhere is a task, with the fields of one.          *)
(***************************************************************************)
LEMMA TaskUnderWay ==
    ASSUME AdminTypeOK, NEW t \in Requests, task[t] # Idle
    PROVE  task[t] \in Task
BY DEF AdminTypeOK

LEMMA TaskAt ==
    ASSUME AdminTypeOK, NEW t \in Requests, NEW pc \in Pc, At(t, pc)
    PROVE  task[t] # Idle /\ task[t] \in Task /\ task[t].pc = pc
<1>1. task[t] # Idle
  BY DEF At, Idle, Pc
<1> QED
  BY <1>1, TaskUnderWay DEF At

(***************************************************************************)
(* A request that moves on keeps everything but its position.              *)
(***************************************************************************)
LEMMA GotoMoves ==
    ASSUME AdminTypeOK, NEW t \in Requests, task[t] \in Task, NEW pc \in Pc, Goto(t, pc)
    PROVE  /\ task' \in [Requests -> Task \cup {Idle}]
           /\ \A u \in Requests : u # t => task'[u] = task[u]
           /\ task'[t] \in Task /\ task'[t].pc = pc
           /\ task'[t].id = task[t].id /\ task'[t].op = task[t].op
           /\ task'[t].pubkey = task[t].pubkey /\ task'[t].body = task[t].body
<1> DEFINE y == [task[t] EXCEPT !.pc = pc]
<1>1. y = [pc |-> pc, id |-> task[t].id, op |-> task[t].op,
           pubkey |-> task[t].pubkey, body |-> task[t].body]
  BY TaskFields
<1>2. y \in Task
  BY <1>1, TaskBuilt, TaskFields
<1>3. task' = [task EXCEPT ![t] = y] /\ task \in [Requests -> Task \cup {Idle}]
  BY DEF Goto, AdminTypeOK
<1>4. task'[t] = y
  BY <1>3
<1>5. y.pc = pc /\ y.id = task[t].id /\ y.op = task[t].op
      /\ y.pubkey = task[t].pubkey /\ y.body = task[t].body
  BY <1>1
<1> HIDE DEF y
<1> QED
  BY <1>2, <1>3, <1>4, <1>5

(***************************************************************************)
(* A request that is done leaves the others alone.                         *)
(***************************************************************************)
LEMMA DoneLeaves ==
    ASSUME AdminTypeOK, NEW t \in Requests, Done(t)
    PROVE  /\ task' \in [Requests -> Task \cup {Idle}]
           /\ task'[t] = Idle
           /\ \A u \in Requests : u # t => task'[u] = task[u]
BY DEF Done, AdminTypeOK

-------------------------------------------------------------------------------
(* The initial state and the type invariant *)

(***************************************************************************)
(* The fresh database satisfies the invariant.                             *)
(***************************************************************************)
LEMMA InitEstablishes == AdminInit => AdminInv
<1> SUFFICES ASSUME AdminInit PROVE AdminInv
  OBVIOUS
<1>1. AdminTypeOK
  <2>1. state \in CeremonyState
    BY DEF AdminInit, CeremonyState, OrNull
  <2> QED
    BY <2>1 DEF AdminInit, AdminTypeOK, OrNull, Time
<1>2. \A t \in Requests : task[t] = Idle
  BY DEF AdminInit
<1>3. Admitted /\ Once
  BY <1>2 DEF Admitted, Once, Pending, At, Idle, AdminInit
<1>4. AppliedOnce /\ UploadedZkeyIsStored
  BY DEF AdminInit, AppliedOnce, UploadedZkeyIsStored
<1> QED
  BY <1>1, <1>3, <1>4 DEF AdminInv

(***************************************************************************)
(* A request that moves on or ends keeps the tasks well typed.             *)
(***************************************************************************)
LEMMA TasksStayTyped ==
    ASSUME AdminTypeOK, NEW t \in Requests, task[t] \in Task,
           Done(t) \/ \E pc \in Pc : Goto(t, pc)
    PROVE  task' \in [Requests -> Task \cup {Idle}]
BY DoneLeaves, GotoMoves

(***************************************************************************)
(* A round's record has the type of one.                                   *)
(***************************************************************************)
LEMMA UpsertedType ==
    ASSUME AdminTypeOK, NEW r \in Rounds, NEW zkey \in Zkeys, NEW blob \in OrNull(Zkeys),
           NEW via \in {"publish", "upload"}
    PROVE  Upserted(r, zkey, blob, via) \in Phase2Round
<1>1. rounds2[r] # Null => rounds2[r] \in Phase2Round
  BY DEF AdminTypeOK
<1>2. rounds2[r] # Null => rounds2[r].blob \in OrNull(Zkeys) /\ rounds2[r].at \in Time
  BY <1>1 DEF Phase2Round
<1>3. now \in Time
  BY DEF AdminTypeOK
<1> QED
  BY <1>2, <1>3 DEF Upserted, Phase2Round, OrNull

(***************************************************************************)
(* Every step of the administration preserves the types.                   *)
(***************************************************************************)
LEMMA TypePreserved == AdminInv /\ [AdminNext]_adminVars => AdminTypeOK'
<1> SUFFICES ASSUME AdminInv, [AdminNext]_adminVars PROVE AdminTypeOK'
  OBVIOUS
<1> USE DEF AdminInv
<1>1. ASSUME NEW e \in Events, NEW o \in Op, NEW event \in EventOf(o), Sign(e, event)
      PROVE  AdminTypeOK'
  <2>1. event \in Event
    BY <1>1 DEF Event
  <2> QED
    BY <1>1, <2>1 DEF Sign, AdminTypeOK
<1>2. ASSUME NEW t \in Requests, NEW e \in Events, NEW body, Arrive(t, e, body)
      PROVE  AdminTypeOK'
  <2>1. signed[e] \in Event
    BY <1>2 DEF Arrive, AdminTypeOK
  <2>2. signed[e].op \in Op /\ signed[e].pubkey \in Admins \cup Others
    BY <2>1 DEF Event, EventOf
  <2>3. [pc |-> "mark", id |-> e, op |-> signed[e].op,
         pubkey |-> signed[e].pubkey, body |-> body] \in Task
    BY <1>2, <2>2, TaskBuilt DEF Arrive, Pc
  <2>4. task' \in [Requests -> Task \cup {Idle}]
    BY <1>2, <2>3 DEF Arrive, AdminTypeOK
  <2> QED
    BY <1>2, <2>4 DEF Arrive, AdminTypeOK
<1>3. ASSUME NEW t \in Requests, MarkSeen(t)
      PROVE  AdminTypeOK'
  <2>1. task[t] \in Task
    BY <1>3, TaskAt DEF MarkSeen, Pc
  <2>2. task' \in [Requests -> Task \cup {Idle}]
    BY <1>3, <2>1, TasksStayTyped DEF MarkSeen, Pc
  <2>3. seen' \in [Events -> OrNull(Time)]
    BY <1>3 DEF MarkSeen, AdminTypeOK, OrNull
  <2> QED
    BY <1>3, <2>2, <2>3 DEF MarkSeen, AdminTypeOK
<1>4. ASSUME NEW t \in Requests, Effect(t), task[t] \in Task
      PROVE  effects' \in [Events -> Nat]
  <2>1. task[t].id \in Events
    BY <1>4, TaskFields
  <2> QED
    BY <1>4, <2>1 DEF Effect, AdminTypeOK
<1>5. ASSUME NEW t \in Requests, FreezePhase1(t)
      PROVE  AdminTypeOK'
  <2>1. task[t] \in Task /\ task[t] # Idle /\ ~At(t, "mark")
    BY <1>5, TaskAt DEF FreezePhase1, Pc, At
  <2>2. task' \in [Requests -> Task \cup {Idle}]
    BY <1>5, <2>1, TasksStayTyped DEF FreezePhase1, Pc
  <2>3. task[t].pubkey \in Admins /\ now \in Time /\ state \in CeremonyState
    BY <2>1 DEF Admitted, AdminTypeOK
  <2>4. state' \in CeremonyState
    BY <1>5, <2>3 DEF FreezePhase1, CeremonyState, OrNull
  <2> QED
    BY <1>4, <1>5, <2>1, <2>2, <2>4 DEF FreezePhase1, AdminTypeOK
<1>6. ASSUME NEW height \in OrNull(Heights), NEW hash \in OrNull(Hashes)
      PROVE  WithBeacon(height, hash) \in CeremonyState
  BY DEF WithBeacon, AdminTypeOK, CeremonyState, OrNull
<1>7. ASSUME NEW t \in Requests, FreezeBeacon(t)
      PROVE  AdminTypeOK'
  <2>1. task[t] \in Task /\ task[t] # Idle /\ ~At(t, "mark") /\ At(t, "beacon")
    BY <1>7, TaskAt DEF FreezeBeacon, Pc, At
  <2>2. task[t].op = "freeze"
    BY <2>1 DEF Admitted
  <2>3. task[t].body.height \in OrNull(Heights)
    BY <2>1, <2>2, BodyFields DEF FreezeRequest
  <2>4. state' \in CeremonyState
    BY <1>6, <1>7, <2>3 DEF FreezeBeacon, OrNull
  <2>5. task' \in [Requests -> Task \cup {Idle}]
    BY <1>7, DoneLeaves DEF FreezeBeacon
  <2> QED
    BY <1>7, <2>4, <2>5 DEF FreezeBeacon, AdminTypeOK
<1>8. ASSUME NEW t \in Requests, SetBeacon(t)
      PROVE  AdminTypeOK'
  <2>1. task[t] \in Task /\ task[t].op = "beacon"
    BY <1>8, TaskAt DEF SetBeacon, Pc
  <2>2. task[t].body.height \in OrNull(Heights) /\ task[t].body.hash \in OrNull(Hashes)
    BY <2>1, BodyFields DEF BeaconRequest, OrNull
  <2>3. state' \in CeremonyState
    BY <1>6, <1>8, <2>2 DEF SetBeacon
  <2>4. task' \in [Requests -> Task \cup {Idle}]
    BY <1>8, DoneLeaves DEF SetBeacon
  <2> QED
    BY <1>4, <1>8, <2>1, <2>3, <2>4 DEF SetBeacon, AdminTypeOK
<1>9. ASSUME NEW t \in Requests, PublishRound(t)
      PROVE  AdminTypeOK'
  <2>1. task[t] \in Task /\ task[t].op = "publish"
    BY <1>9, TaskAt DEF PublishRound, Pc
  <2>2. /\ task[t].body.round \in Rounds /\ task[t].body.zkey \in Zkeys
        /\ task[t].body.blob \in OrNull(Zkeys)
    BY <2>1, BodyFields DEF RoundRequest
  <2>3. rounds2' \in [Rounds -> Phase2Round \cup {Null}]
    BY <1>9, <2>2, UpsertedType DEF PublishRound, AdminTypeOK
  <2>4. task' \in [Requests -> Task \cup {Idle}]
    BY <1>9, DoneLeaves DEF PublishRound
  <2> QED
    BY <1>4, <1>9, <2>1, <2>3, <2>4 DEF PublishRound, AdminTypeOK
<1>10. ASSUME NEW t \in Requests, PutZkey(t)
       PROVE  AdminTypeOK'
  <2>1. task[t] \in Task /\ task[t].op = "upload"
    BY <1>10, TaskAt DEF PutZkey, Pc
  <2>2. task[t].body.file \in Zkeys
    BY <2>1, BodyFields DEF UploadRequest
  <2>3. task' \in [Requests -> Task \cup {Idle}]
    BY <1>10, <2>1, TasksStayTyped DEF PutZkey, Pc
  <2> QED
    BY <1>10, <2>2, <2>3 DEF PutZkey, AdminTypeOK
<1>11. ASSUME NEW t \in Requests, RecordUpload(t)
       PROVE  AdminTypeOK'
  <2>1. task[t] \in Task /\ task[t] # Idle /\ ~At(t, "mark") /\ At(t, "insert")
    BY <1>11, TaskAt DEF RecordUpload, Pc, At
  <2>2. task[t].op = "upload"
    BY <2>1 DEF Admitted
  <2>3. /\ task[t].body.round \in Rounds /\ task[t].body.zkey \in Zkeys
        /\ task[t].body.file \in OrNull(Zkeys)
    BY <2>1, <2>2, BodyFields DEF UploadRequest, OrNull
  <2>4. rounds2' \in [Rounds -> Phase2Round \cup {Null}]
    BY <1>11, <2>3, UpsertedType DEF RecordUpload, AdminTypeOK
  <2>5. task' \in [Requests -> Task \cup {Idle}]
    BY <1>11, DoneLeaves DEF RecordUpload
  <2> QED
    BY <1>4, <1>11, <2>1, <2>4, <2>5 DEF RecordUpload, AdminTypeOK
<1>12. ASSUME NEW t \in Requests, FailRequest(t)
       PROVE  AdminTypeOK'
  BY <1>12, DoneLeaves DEF FailRequest, AdminTypeOK
<1>13. CASE AdminRestart
  BY <1>13 DEF AdminRestart, AdminTypeOK
<1>14. CASE AdminTick
  BY <1>14, AdminAssumption DEF AdminTick, AdminTypeOK, Time
<1>15. CASE UNCHANGED adminVars
  BY <1>15 DEF adminVars, AdminTypeOK
<1> QED
  BY <1>1, <1>2, <1>3, <1>5, <1>7, <1>8, <1>9, <1>10, <1>11, <1>12, <1>13, <1>14, <1>15
  DEF AdminNext, RequestStep

-------------------------------------------------------------------------------
(* Requests past the replay table *)

(***************************************************************************)
(* Nothing that was seen or stored is forgotten.                           *)
(***************************************************************************)
LEMMA NothingForgotten ==
    AdminTypeOK /\ [AdminNext]_adminVars =>
        /\ \A e \in Events : seen[e] # Null => seen'[e] # Null
        /\ blobs \subseteq blobs'
<1> SUFFICES ASSUME AdminTypeOK, [AdminNext]_adminVars
             PROVE  /\ \A e \in Events : seen[e] # Null => seen'[e] # Null
                    /\ blobs \subseteq blobs'
  OBVIOUS
<1>1. ASSUME NEW t \in Requests, MarkSeen(t)
      PROVE  (\A e \in Events : seen[e] # Null => seen'[e] # Null) /\ blobs' = blobs
  BY <1>1 DEF MarkSeen, AdminTypeOK
<1>2. ASSUME NEW t \in Requests, PutZkey(t)
      PROVE  blobs \subseteq blobs' /\ seen' = seen
  BY <1>2 DEF PutZkey
<1>3. ASSUME NEW t \in Requests, RequestStep(t), ~MarkSeen(t), ~PutZkey(t)
      PROVE  blobs' = blobs /\ seen' = seen
  BY <1>3 DEF RequestStep, Arrive, FreezePhase1, FreezeBeacon, SetBeacon, PublishRound,
              RecordUpload, FailRequest
<1>4. CASE \E e \in Events, o \in Op : \E event \in EventOf(o) : Sign(e, event)
  BY <1>4 DEF Sign
<1>5. CASE AdminRestart \/ AdminTick \/ UNCHANGED adminVars
  BY <1>5 DEF AdminRestart, AdminTick, adminVars
<1> QED
  BY <1>1, <1>2, <1>3, <1>4, <1>5 DEF AdminNext

\* What Admitted says of one request.
AdmittedRequest(t) ==
    (task[t] # Idle /\ ~At(t, "mark")) =>
        /\ task[t].pubkey \in Admins
        /\ seen[task[t].id] # Null
        /\ At(t, "beacon") => task[t].op = "freeze"
        /\ At(t, "insert") =>
              /\ task[t].op = "upload"
              /\ task[t].body.zkey = task[t].body.file
              /\ task[t].body.file \in blobs

(***************************************************************************)
(* A request that a step leaves where it is remains admitted.              *)
(***************************************************************************)
LEMMA OthersStayAdmitted ==
    ASSUME AdminInv, [AdminNext]_adminVars, NEW u \in Requests, task'[u] = task[u]
    PROVE  AdmittedRequest(u)'
<1> SUFFICES ASSUME task[u] # Idle, ~At(u, "mark") PROVE AdmittedRequest(u)'
  BY DEF AdmittedRequest, At
<1>1. AdmittedRequest(u)
  BY DEF AdminInv, Admitted, AdmittedRequest
<1>2. task[u].id \in Events
  BY TaskUnderWay, TaskFields DEF AdminInv
<1> QED
  BY <1>1, <1>2, NothingForgotten DEF AdmittedRequest, At, AdminInv

(***************************************************************************)
(* Every step keeps requests admitted.                                     *)
(***************************************************************************)
LEMMA AdmittedPreserved == AdminInv /\ [AdminNext]_adminVars => Admitted'
<1> SUFFICES ASSUME AdminInv, [AdminNext]_adminVars, NEW u \in Requests
             PROVE  AdmittedRequest(u)'
  BY DEF Admitted, AdmittedRequest
<1> USE DEF AdminInv
<1>1. CASE task'[u] = task[u]
  BY <1>1, OthersStayAdmitted
<1>2. CASE task'[u] = Idle
  BY <1>2 DEF AdmittedRequest
<1>3. ASSUME NEW t \in Requests, NEW e \in Events, NEW body, Arrive(t, e, body)
      PROVE  AdmittedRequest(u)'
  <2>1. CASE u = t
    BY <1>3, <2>1 DEF Arrive, AdminTypeOK, AdmittedRequest, At
  <2>2. CASE u # t
    BY <1>1, <1>3, <2>2 DEF Arrive
  <2> QED
    BY <2>1, <2>2
<1>4. ASSUME NEW t \in Requests, Done(t)
      PROVE  AdmittedRequest(u)'
  BY <1>1, <1>2, <1>4, DoneLeaves
<1>5. ASSUME NEW t \in Requests, MarkSeen(t)
      PROVE  AdmittedRequest(u)'
  <2>1. task[t] \in Task
    BY <1>5, TaskAt DEF MarkSeen, Pc
  <2>2. CASE seen[task[t].id] = Null /\ IsAdmin(task[t].pubkey)
    <3>1. Goto(t, "act")
      BY <1>5, <2>2 DEF MarkSeen
    <3>2. seen'[task[t].id] # Null
      BY <1>5, <2>1, <2>2, TaskFields, AdminAssumption DEF MarkSeen, AdminTypeOK, Time
    <3>3. CASE u = t
      BY <2>1, <2>2, <3>1, <3>2, <3>3, GotoMoves DEF AdmittedRequest, At, IsAdmin, Pc
    <3> QED
      BY <1>1, <2>1, <3>1, <3>3, GotoMoves DEF Pc
  <2>3. CASE ~(seen[task[t].id] = Null /\ IsAdmin(task[t].pubkey))
    BY <1>4, <1>5, <2>3 DEF MarkSeen
  <2> QED
    BY <2>2, <2>3
<1>6. ASSUME NEW t \in Requests, FreezePhase1(t)
      PROVE  AdmittedRequest(u)'
  <2>1. task[t] \in Task /\ task[t].op = "freeze" /\ AdmittedRequest(t)
        /\ task[t] # Idle /\ ~At(t, "mark")
    BY <1>6, TaskAt DEF FreezePhase1, Pc, At, Admitted, AdmittedRequest
  <2>2. CASE Goto(t, "beacon")
    <3>1. CASE u = t
      BY <1>6, <2>1, <2>2, <3>1, GotoMoves DEF AdmittedRequest, At, Pc, FreezePhase1
    <3> QED
      BY <1>1, <2>1, <2>2, <3>1, GotoMoves DEF Pc
  <2>3. CASE Done(t)
    BY <1>4, <2>3
  <2> QED
    BY <1>6, <2>2, <2>3 DEF FreezePhase1
<1>7. ASSUME NEW t \in Requests, PutZkey(t)
      PROVE  AdmittedRequest(u)'
  <2>1. task[t] \in Task /\ task[t].op = "upload" /\ AdmittedRequest(t)
        /\ task[t] # Idle /\ ~At(t, "mark")
    BY <1>7, TaskAt DEF PutZkey, Pc, At, Admitted, AdmittedRequest
  <2>2. CASE UploadMatches(task[t].body)
    <3>1. Goto(t, "insert") /\ blobs' = blobs \cup {task[t].body.file} /\ seen' = seen
      BY <1>7, <2>2 DEF PutZkey
    <3>2. CASE u = t
      BY <2>1, <2>2, <3>1, <3>2, GotoMoves DEF AdmittedRequest, At, Pc, UploadMatches
    <3> QED
      BY <1>1, <2>1, <3>1, <3>2, GotoMoves DEF Pc
  <2>3. CASE ~UploadMatches(task[t].body)
    BY <1>4, <1>7, <2>3 DEF PutZkey
  <2> QED
    BY <2>2, <2>3
<1>8. ASSUME NEW t \in Requests,
             FreezeBeacon(t) \/ SetBeacon(t) \/ PublishRound(t) \/ RecordUpload(t) \/ FailRequest(t)
      PROVE  AdmittedRequest(u)'
  BY <1>4, <1>8 DEF FreezeBeacon, SetBeacon, PublishRound, RecordUpload, FailRequest
<1>9. CASE \E e \in Events, o \in Op : \E event \in EventOf(o) : Sign(e, event)
  BY <1>1, <1>9 DEF Sign
<1>10. CASE AdminRestart
  BY <1>2, <1>10 DEF AdminRestart
<1>11. CASE AdminTick \/ UNCHANGED adminVars
  BY <1>1, <1>11 DEF AdminTick, adminVars
<1> QED
  BY <1>3, <1>5, <1>6, <1>7, <1>8, <1>9, <1>10, <1>11 DEF AdminNext, RequestStep

-------------------------------------------------------------------------------
(* At most once *)

OnceInv == Once /\ AppliedOnce

(***************************************************************************)
(* A step that starts no effect and gives none keeps Once.                 *)
(***************************************************************************)
LEMMA OnceWithoutEffect ==
    ASSUME AdminInv, [AdminNext]_adminVars, effects' = effects,
           \A t \in Requests : Pending(t)' => Pending(t) /\ task'[t].id = task[t].id
    PROVE  OnceInv'
<1>1. \A t \in Requests : Pending(t)' => effects'[task'[t].id] = 0
  BY DEF AdminInv, Once
<1>2. \A t, u \in Requests :
         (Pending(t)' /\ Pending(u)' /\ task'[t].id = task'[u].id) => t = u
  BY DEF AdminInv, Once
<1>3. \A e \in Events : effects'[e] > 0 => seen'[e] # Null
  BY NothingForgotten DEF AdminInv, Once
<1>4. AppliedOnce'
  BY DEF AdminInv, AppliedOnce
<1> QED
  BY <1>1, <1>2, <1>3, <1>4 DEF OnceInv, Once

(***************************************************************************)
(* A pending request that ends or goes on to the beacon with its effect.   *)
(***************************************************************************)
LEMMA OnceWithEffect ==
    ASSUME AdminInv, [AdminNext]_adminVars, NEW t \in Requests, Pending(t), Effect(t),
           Done(t) \/ Goto(t, "beacon")
    PROVE  OnceInv'
<1> DEFINE e == task[t].id
<1>1. task[t] \in Task /\ task[t] # Idle /\ ~At(t, "mark")
  BY TaskAt DEF Pending, AdminInv, Pc, At
<1>2. e \in Events /\ effects[e] = 0 /\ seen[e] # Null
  BY <1>1, TaskFields DEF AdminInv, Once, Admitted
<1>3. ~Pending(t)' /\ \A u \in Requests : u # t => task'[u] = task[u]
  BY <1>1, DoneLeaves, GotoMoves DEF Pending, At, Idle, Pc, AdminInv
<1>4. effects' = [effects EXCEPT ![e] = 1] /\ effects \in [Events -> Nat]
  BY <1>2 DEF Effect, AdminInv, AdminTypeOK
<1>5. \A u \in Requests : Pending(u)' => u # t /\ Pending(u) /\ task'[u].id = task[u].id
  BY <1>3 DEF Pending, At
<1>6. \A u \in Requests : Pending(u)' => task[u].id # e
  BY <1>5 DEF AdminInv, Once
<1>7. \A u \in Requests : Pending(u) => task[u].id \in Events
  BY TaskAt, TaskFields DEF Pending, AdminInv, Pc
<1> HIDE DEF e
<1>8. \A u \in Requests : Pending(u)' => effects'[task'[u].id] = 0
  BY <1>4, <1>5, <1>6, <1>7 DEF AdminInv, Once
<1>9. \A u, w \in Requests :
         (Pending(u)' /\ Pending(w)' /\ task'[u].id = task'[w].id) => u = w
  BY <1>5 DEF AdminInv, Once
<1>10. \A f \in Events : effects'[f] > 0 => seen'[f] # Null
  BY <1>2, <1>4, NothingForgotten DEF AdminInv, Once
<1>11. AppliedOnce'
  BY <1>2, <1>4 DEF AdminInv, AppliedOnce
<1> QED
  BY <1>8, <1>9, <1>10, <1>11 DEF OnceInv, Once

(***************************************************************************)
(* The one step that makes a request pending finds its event unseen.       *)
(***************************************************************************)
LEMMA OnceAdmission ==
    ASSUME AdminInv, NEW t \in Requests, MarkSeen(t),
           seen[task[t].id] = Null, Goto(t, "act")
    PROVE  OnceInv'
<1> DEFINE e == task[t].id
<1>1. task[t] \in Task
  BY TaskAt DEF MarkSeen, AdminInv, Pc
<1>2. e \in Events /\ effects[e] = 0
  BY <1>1, TaskFields DEF AdminInv, Once, AdminTypeOK
<1>3. /\ \A u \in Requests : u # t => task'[u] = task[u]
      /\ task'[t].pc = "act" /\ task'[t].id = e
  BY <1>1, GotoMoves DEF AdminInv, Pc
<1>4. effects' = effects /\ seen'[e] # Null /\ \A f \in Events : seen[f] # Null => seen'[f] # Null
  BY <1>2, AdminAssumption DEF MarkSeen, AdminInv, AdminTypeOK, Time
<1>5. \A u \in Requests : Pending(u) => task[u].id # e
  BY TaskAt DEF Pending, At, Pc, AdminInv, Admitted
<1>6. \A u \in Requests : (Pending(u)' /\ u # t) => Pending(u) /\ task'[u].id = task[u].id
  BY <1>3 DEF Pending, At
<1> HIDE DEF e
<1>7. \A u \in Requests : Pending(u)' => effects'[task'[u].id] = 0
  BY <1>2, <1>3, <1>4, <1>6 DEF AdminInv, Once
<1>8. \A u, w \in Requests :
         (Pending(u)' /\ Pending(w)' /\ task'[u].id = task'[w].id) => u = w
  BY <1>3, <1>5, <1>6 DEF AdminInv, Once
<1>9. \A f \in Events : effects'[f] > 0 => seen'[f] # Null
  BY <1>4 DEF AdminInv, Once
<1>10. AppliedOnce'
  BY <1>4 DEF AdminInv, AppliedOnce
<1> QED
  BY <1>7, <1>8, <1>9, <1>10 DEF OnceInv, Once

(***************************************************************************)
(* Every step keeps the events' effects to one.                            *)
(***************************************************************************)
LEMMA OncePreserved == AdminInv /\ [AdminNext]_adminVars => OnceInv'
<1> SUFFICES ASSUME AdminInv, [AdminNext]_adminVars PROVE OnceInv'
  OBVIOUS
<1>1. ASSUME effects' = effects, task' = task
      PROVE  OnceInv'
  BY <1>1, OnceWithoutEffect DEF Pending, At
<1>2. ASSUME NEW t \in Requests, effects' = effects, Done(t)
      PROVE  OnceInv'
  <2>1. \A u \in Requests : Pending(u)' => Pending(u) /\ task'[u].id = task[u].id
    BY <1>2, DoneLeaves DEF Pending, At, Idle, AdminInv
  <2> QED
    BY <1>2, <2>1, OnceWithoutEffect
<1>3. ASSUME NEW t \in Requests, NEW e \in Events, NEW body, Arrive(t, e, body)
      PROVE  OnceInv'
  <2>1. \A u \in Requests : Pending(u)' => Pending(u) /\ task'[u].id = task[u].id
    BY <1>3 DEF Arrive, Pending, At, AdminInv, AdminTypeOK
  <2> QED
    BY <1>3, <2>1, OnceWithoutEffect DEF Arrive
<1>4. ASSUME NEW t \in Requests, MarkSeen(t)
      PROVE  OnceInv'
  BY <1>2, <1>4, OnceAdmission DEF MarkSeen
<1>5. ASSUME NEW t \in Requests,
             FreezePhase1(t) \/ SetBeacon(t) \/ PublishRound(t) \/ RecordUpload(t)
      PROVE  OnceInv'
  BY <1>5, OnceWithEffect DEF FreezePhase1, SetBeacon, PublishRound, RecordUpload, Pending
<1>6. ASSUME NEW t \in Requests, PutZkey(t)
      PROVE  OnceInv'
  <2>1. task[t] \in Task /\ effects' = effects /\ Pending(t)
    BY <1>6, TaskAt DEF PutZkey, Pc, AdminInv, Pending
  <2>2. CASE Goto(t, "insert")
    <3>1. \A u \in Requests : Pending(u)' => Pending(u) /\ task'[u].id = task[u].id
      BY <2>1, <2>2, GotoMoves DEF Pending, At, AdminInv, Pc
    <3> QED
      BY <2>1, <3>1, OnceWithoutEffect
  <2> QED
    BY <1>2, <1>6, <2>1, <2>2 DEF PutZkey
<1>7. ASSUME NEW t \in Requests, FreezeBeacon(t) \/ FailRequest(t)
      PROVE  OnceInv'
  BY <1>2, <1>7 DEF FreezeBeacon, FailRequest
<1>8. CASE AdminRestart
  <2>1. \A u \in Requests : ~Pending(u)'
    BY <1>8 DEF AdminRestart, Pending, At, Idle
  <2> QED
    BY <1>8, <2>1, OnceWithoutEffect DEF AdminRestart
<1>9. CASE \E e \in Events, o \in Op : \E event \in EventOf(o) : Sign(e, event)
  BY <1>1, <1>9 DEF Sign
<1>10. CASE AdminTick \/ UNCHANGED adminVars
  BY <1>1, <1>10 DEF AdminTick, adminVars
<1> QED
  BY <1>3, <1>4, <1>5, <1>6, <1>7, <1>8, <1>9, <1>10 DEF AdminNext, RequestStep

-------------------------------------------------------------------------------
(* Rounds of phase 2 *)

(***************************************************************************)
(* The statement that writes a round keeps its first date and its blob.    *)
(***************************************************************************)
LEMMA UpsertedKeeps ==
    ASSUME AdminTypeOK, NEW r \in Rounds, NEW zkey \in Zkeys, NEW blob \in OrNull(Zkeys),
           NEW via \in {"publish", "upload"}, rounds2[r] # Null
    PROVE  /\ Upserted(r, zkey, blob, via) # Null
           /\ Upserted(r, zkey, blob, via).at = rounds2[r].at
           /\ rounds2[r].blob # Null => Upserted(r, zkey, blob, via).blob # Null
<1>1. Upserted(r, zkey, blob, via) # Null
  BY UpsertedType, AdminAssumption DEF Phase2Round, OrNull, Time
<1> QED
  BY <1>1 DEF Upserted

\* What RoundKeepsItsBlob says of a step.
RoundStep ==
    \A r \in Rounds : rounds2[r] # Null =>
        /\ rounds2'[r] # Null /\ rounds2'[r].at = rounds2[r].at
        /\ rounds2[r].blob # Null => rounds2'[r].blob # Null

(***************************************************************************)
(* Every step keeps the date and the blob of recorded rounds.              *)
(***************************************************************************)
LEMMA RoundsKept == AdminInv /\ [AdminNext]_adminVars => RoundStep
<1> SUFFICES ASSUME AdminInv, [AdminNext]_adminVars PROVE RoundStep
  OBVIOUS
<1> USE DEF AdminInv
<1>1. CASE rounds2' = rounds2
  BY <1>1 DEF RoundStep
<1>2. ASSUME NEW r \in Rounds, NEW zkey \in Zkeys, NEW blob \in OrNull(Zkeys),
             NEW via \in {"publish", "upload"},
             rounds2' = [rounds2 EXCEPT ![r] = Upserted(r, zkey, blob, via)]
      PROVE  RoundStep
  BY <1>2, UpsertedKeeps DEF RoundStep, AdminTypeOK
<1>3. ASSUME NEW t \in Requests, PublishRound(t)
      PROVE  RoundStep
  <2>1. task[t] \in Task /\ task[t].op = "publish"
    BY <1>3, TaskAt DEF PublishRound, Pc
  <2>2. /\ task[t].body.round \in Rounds /\ task[t].body.zkey \in Zkeys
        /\ task[t].body.blob \in OrNull(Zkeys)
    BY <2>1, BodyFields DEF RoundRequest
  <2> QED
    BY <1>2, <1>3, <2>2 DEF PublishRound
<1>4. ASSUME NEW t \in Requests, RecordUpload(t)
      PROVE  RoundStep
  <2>1. task[t] \in Task /\ task[t].op = "upload"
    BY <1>4, TaskAt DEF RecordUpload, Pc, At, Admitted
  <2>2. /\ task[t].body.round \in Rounds /\ task[t].body.zkey \in Zkeys
        /\ task[t].body.file \in OrNull(Zkeys)
    BY <2>1, BodyFields DEF UploadRequest, OrNull
  <2> QED
    BY <1>2, <1>4, <2>2 DEF RecordUpload
<1>5. ASSUME NEW t \in Requests, RequestStep(t), ~PublishRound(t), ~RecordUpload(t)
      PROVE  RoundStep
  BY <1>1, <1>5 DEF RequestStep, Arrive, MarkSeen, FreezePhase1, FreezeBeacon, SetBeacon,
                    PutZkey, FailRequest
<1>6. CASE \E e \in Events, o \in Op : \E event \in EventOf(o) : Sign(e, event)
  BY <1>1, <1>6 DEF Sign
<1>7. CASE AdminRestart \/ AdminTick \/ UNCHANGED adminVars
  BY <1>1, <1>7 DEF AdminRestart, AdminTick, adminVars
<1> QED
  BY <1>3, <1>4, <1>5, <1>6, <1>7 DEF AdminNext

(***************************************************************************)
(* Every step keeps the uploaded zkeys stored.                             *)
(***************************************************************************)
LEMMA UploadedPreserved == AdminInv /\ [AdminNext]_adminVars => UploadedZkeyIsStored'
<1> SUFFICES ASSUME AdminInv, [AdminNext]_adminVars PROVE UploadedZkeyIsStored'
  OBVIOUS
<1> USE DEF AdminInv
<1>1. CASE rounds2' = rounds2
  BY <1>1, NothingForgotten DEF UploadedZkeyIsStored
<1>2. ASSUME NEW t \in Requests, PublishRound(t)
      PROVE  UploadedZkeyIsStored'
  <2>1. rounds2' = [rounds2 EXCEPT ![task[t].body.round] =
                       Upserted(task[t].body.round, task[t].body.zkey, task[t].body.blob, "publish")]
        /\ blobs' = blobs
    BY <1>2 DEF PublishRound
  <2>2. Upserted(task[t].body.round, task[t].body.zkey, task[t].body.blob, "publish").via = "publish"
    BY DEF Upserted
  <2> QED
    BY <2>1, <2>2 DEF UploadedZkeyIsStored, AdminTypeOK
<1>3. ASSUME NEW t \in Requests, RecordUpload(t)
      PROVE  UploadedZkeyIsStored'
  <2> DEFINE body == task[t].body
             new  == Upserted(body.round, body.zkey, body.file, "upload")
  <2>1. task[t] \in Task /\ task[t].op = "upload" /\ body.zkey = body.file /\ body.file \in blobs
    BY <1>3, TaskAt DEF RecordUpload, Pc, At, Admitted
  <2>2. body.file # Null
    BY <2>1, BodyFields, AdminAssumption DEF UploadRequest
  <2>3. new.blob = body.file /\ new.zkey = body.zkey
    BY <2>2 DEF Upserted
  <2>4. rounds2' = [rounds2 EXCEPT ![body.round] = new] /\ blobs' = blobs
    BY <1>3 DEF RecordUpload
  <2> HIDE DEF new
  <2> QED
    BY <2>1, <2>3, <2>4 DEF UploadedZkeyIsStored, AdminTypeOK
<1>4. ASSUME NEW t \in Requests, RequestStep(t), ~PublishRound(t), ~RecordUpload(t)
      PROVE  UploadedZkeyIsStored'
  BY <1>1, <1>4 DEF RequestStep, Arrive, MarkSeen, FreezePhase1, FreezeBeacon, SetBeacon,
                    PutZkey, FailRequest
<1>5. CASE \E e \in Events, o \in Op : \E event \in EventOf(o) : Sign(e, event)
  BY <1>1, <1>5 DEF Sign
<1>6. CASE AdminRestart \/ AdminTick \/ UNCHANGED adminVars
  BY <1>1, <1>6 DEF AdminRestart, AdminTick, adminVars
<1> QED
  BY <1>2, <1>3, <1>4, <1>5, <1>6 DEF AdminNext

-------------------------------------------------------------------------------
(* The theorems *)

(***************************************************************************)
(* AdminInv is an inductive invariant of the administration.               *)
(***************************************************************************)
THEOREM AdminInvariant == AdminSpec => []AdminInv
<1>1. AdminInv /\ [AdminNext]_adminVars => AdminInv'
  <2> SUFFICES ASSUME AdminInv, [AdminNext]_adminVars PROVE AdminInv'
    OBVIOUS
  <2>1. AdminTypeOK' /\ Admitted' /\ OnceInv' /\ UploadedZkeyIsStored'
    BY TypePreserved, AdmittedPreserved, OncePreserved, UploadedPreserved
  <2> QED
    BY <2>1 DEF AdminInv, OnceInv
<1> QED
  BY <1>1, InitEstablishes, PTL DEF AdminSpec

(***************************************************************************)
(* The tables and the requests under way keep their types (store.rs).      *)
(***************************************************************************)
THEOREM AdminTypeCorrect == AdminSpec => []AdminTypeOK
<1>1. AdminInv => AdminTypeOK
  BY DEF AdminInv
<1> QED
  BY <1>1, AdminInvariant, PTL

(***************************************************************************)
(* auth.rs, verify_nip98: a signed event takes effect at most once.        *)
(***************************************************************************)
THEOREM AppliedOnceAlways == AdminSpec => []AppliedOnce
<1>1. AdminInv => AppliedOnce
  BY DEF AdminInv
<1> QED
  BY <1>1, AdminInvariant, PTL

(***************************************************************************)
(* phase2.rs, upload_round: the zkey last uploaded for a round is stored.  *)
(***************************************************************************)
THEOREM UploadedZkeyAlwaysStored == AdminSpec => []UploadedZkeyIsStored
<1>1. AdminInv => UploadedZkeyIsStored
  BY DEF AdminInv
<1> QED
  BY <1>1, AdminInvariant, PTL

(***************************************************************************)
(* phase2.rs, insert_phase2_round: a recorded round keeps date and blob.   *)
(***************************************************************************)
THEOREM RoundsKeepTheirBlobs == AdminSpec => RoundKeepsItsBlob
<1>1. AdminInv /\ [AdminNext]_adminVars => [RoundStep]_adminVars
  BY RoundsKept
<1>2. RoundKeepsItsBlob <=> [][RoundStep]_adminVars
  BY DEF RoundKeepsItsBlob, RoundStep
<1> QED
  BY <1>1, <1>2, AdminInvariant, PTL DEF AdminSpec

-------------------------------------------------------------------------------
(* Induction over the natural numbers, and functions defined by recursion *)

\* A set of numbers that is not empty has a least one.
LEMMA LeastNatural ==
    ASSUME NEW T \in SUBSET Nat, T # {}
    PROVE  \E m \in T : \A k \in T : m <= k
<1> DEFINE R == {ss \in Nat \X Nat : ss[1] < ss[2]}
<1>1. IsWellFoundedOn(OpToRel(<, Nat), Nat)  BY NatLessThanWellFounded
<1>2. OpToRel(<, Nat) = R  BY DEF OpToRel
<1>3. IsWellFoundedOn(R, Nat)  BY <1>1, <1>2
<1> HIDE DEF R
<1>4. PICK x \in T : \A y \in T : ~ (<<y, x>> \in R)  BY <1>3, WFMin
<1>5. ASSUME NEW y \in T PROVE x <= y
  <2>1. <<y, x>> \notin R /\ y \in Nat /\ x \in Nat  BY <1>4
  <2>2. ~ (y < x)  BY <2>1 DEF R
  <2> QED  BY <2>1, <2>2
<1> QED  BY <1>5

\* Induction: a set with 0 and the successors of its numbers has them all.
LEMMA SetInduction ==
    ASSUME NEW S, 0 \in S, \A n \in Nat : n \in S => n + 1 \in S
    PROVE  \A n \in Nat : n \in S
<1>1. SUFFICES ASSUME Nat \ S # {} PROVE FALSE  OBVIOUS
<1>2. PICK m \in Nat \ S : \A k \in Nat \ S : m <= k  BY <1>1, LeastNatural
<1>3. m # 0 /\ m - 1 \in Nat /\ m - 1 \in S  BY <1>2
<1>4. (m - 1) + 1 \in S  BY <1>3
<1> QED  BY <1>2, <1>4

\* f starts from x and takes n steps of g.
Iterates(f, S, x, g, n) ==
    /\ f \in [0 .. n -> S]
    /\ f[0] = x
    /\ \A i \in 0 .. n - 1 : f[i + 1] = g[<<i, f[i]>>]

\* Any number of steps can be taken.
LEMMA IterationExists ==
    ASSUME NEW S, NEW x \in S, NEW g \in [Nat \X S -> S]
    PROVE  \A n \in Nat : \E f : Iterates(f, S, x, g, n)
<1> DEFINE T == {n \in Nat : \E f : Iterates(f, S, x, g, n)}
<1>1. 0 \in T
  <2>1. Iterates([i \in 0 .. 0 |-> x], S, x, g, 0)  BY DEF Iterates
  <2> QED  BY <2>1
<1>2. ASSUME NEW n \in Nat, n \in T PROVE n + 1 \in T
  <2>1. PICK f : Iterates(f, S, x, g, n)  BY <1>2
  <2> DEFINE h == [i \in 0 .. n + 1 |-> IF i = n + 1 THEN g[<<n, f[n]>>] ELSE f[i]]
  <2>2. f \in [0 .. n -> S] /\ f[0] = x /\ \A i \in 0 .. n - 1 : f[i + 1] = g[<<i, f[i]>>]
    BY <2>1 DEF Iterates
  <2>3. f[n] \in S /\ <<n, f[n]>> \in Nat \X S  BY <2>2
  <2>4. g[<<n, f[n]>>] \in S  BY <2>3
  <2>5. h \in [0 .. n + 1 -> S]  BY <2>2, <2>4
  <2>6. h[0] = x  BY <2>2
  <2>7. ASSUME NEW i \in 0 .. n PROVE h[i + 1] = g[<<i, h[i]>>]
    <3>1. h[i] = f[i] /\ i + 1 \in 0 .. n + 1  OBVIOUS
    <3>2. CASE i = n
      <4>1. h[i + 1] = g[<<n, f[n]>>]  BY <3>1, <3>2
      <4> QED  BY ONLY <3>1, <3>2, <4>1
    <3>3. CASE i # n
      <4>1. h[i + 1] = f[i + 1] /\ i \in 0 .. n - 1  BY <3>1, <3>3
      <4> QED  BY ONLY <2>2, <3>1, <4>1
    <3> QED  BY <3>2, <3>3
  <2> HIDE DEF h
  <2>8. 0 .. (n + 1) - 1 = 0 .. n  OBVIOUS
  <2>9. Iterates(h, S, x, g, n + 1)  BY <2>5, <2>6, <2>7, <2>8 DEF Iterates
  <2> QED  BY <2>9
<1> HIDE DEF T
<1>3. \A n \in Nat : n \in T  BY <1>1, <1>2, SetInduction
<1> QED  BY <1>3 DEF T

\* A longer iteration begins like a shorter one.
LEMMA IterationIsUnique ==
    ASSUME NEW S, NEW x \in S, NEW g, NEW n \in Nat, NEW m \in Nat, n <= m,
           NEW f, Iterates(f, S, x, g, n), NEW h, Iterates(h, S, x, g, m)
    PROVE  f[n] = h[n]
<1> DEFINE T == {i \in Nat : i <= n => f[i] = h[i]}
<1>1. 0 \in T  BY DEF Iterates
<1>2. ASSUME NEW i \in Nat, i \in T PROVE i + 1 \in T
  <2>1. SUFFICES ASSUME i + 1 <= n PROVE f[i + 1] = h[i + 1]  OBVIOUS
  <2>2. i \in 0 .. n - 1 /\ i \in 0 .. m - 1 /\ f[i] = h[i]  BY <1>2, <2>1
  <2> QED  BY <2>2 DEF Iterates
<1> HIDE DEF T
<1>3. n \in T  BY <1>1, <1>2, SetInduction
<1> QED  BY <1>3 DEF T

\* f starts from x and goes on with g.
IsIteration(f, S, x, g) ==
    /\ f \in [Nat -> S]
    /\ f[0] = x
    /\ \A n \in Nat : f[n + 1] = g[<<n, f[n]>>]

\* So there is a function that takes them all.
LEMMA Iteration ==
    ASSUME NEW S, NEW x \in S, NEW g \in [Nat \X S -> S]
    PROVE  \E f : IsIteration(f, S, x, g)
<1> DEFINE h(n) == CHOOSE f : Iterates(f, S, x, g, n)
           F == [n \in Nat |-> h(n)[n]]
<1>1. ASSUME NEW n \in Nat PROVE Iterates(h(n), S, x, g, n)  BY IterationExists
<1> HIDE DEF h
<1>2. ASSUME NEW n \in Nat PROVE F[n] \in S
  <2>1. h(n) \in [0 .. n -> S] /\ n \in 0 .. n  BY <1>1 DEF Iterates
  <2> QED  BY <2>1
<1>3. F[0] = x  BY <1>1 DEF Iterates
<1>4. ASSUME NEW n \in Nat PROVE F[n + 1] = g[<<n, F[n]>>]
  <2>1. n + 1 \in Nat /\ n <= n + 1 /\ n \in 0 .. (n + 1) - 1  OBVIOUS
  <2>2. Iterates(h(n), S, x, g, n) /\ Iterates(h(n + 1), S, x, g, n + 1)  BY <1>1, <2>1
  <2>3. h(n)[n] = h(n + 1)[n]  BY <2>1, <2>2, IterationIsUnique
  <2>4. h(n + 1)[n + 1] = g[<<n, h(n + 1)[n]>>]  BY <2>1, <2>2 DEF Iterates
  <2>5. F[n + 1] = h(n + 1)[n + 1] /\ F[n] = h(n)[n]  BY <2>1
  <2> HIDE DEF F
  <2> QED  BY <2>3, <2>4, <2>5
<1>5. F \in [Nat -> S]  BY <1>2
<1> HIDE DEF F
<1>6. IsIteration(F, S, x, g)  BY <1>3, <1>4, <1>5 DEF IsIteration
<1> QED  BY <1>6

-------------------------------------------------------------------------------
(* The field of scalars *)

\* The order and the degree are more than one.
LEMMA ScalarsAreNatural ==
    /\ Q \in Nat /\ Q > 1 /\ Degree \in Nat /\ Degree > 1
    /\ Scalar \subseteq Nat
    /\ 0 \in Scalar /\ 1 \in Scalar
BY ArithmeticAssumption DEF Scalar

\* Division by the order.
LEMMA Remainder ==
    ASSUME NEW x \in Nat
    PROVE  /\ x % Q \in Scalar
           /\ x \div Q \in Nat
           /\ x = Q * (x \div Q) + (x % Q)
BY ArithmeticAssumption DEF Scalar

\* Numbers below the order with the same residue are equal.
LEMMA RemainderIsUnique ==
    ASSUME NEW k \in Int, NEW l \in Int, NEW r \in Scalar, NEW s \in Scalar,
           Q * k + r = Q * l + s
    PROVE  r = s
<1>1. Q * (k - l) = s - r  BY ArithmeticAssumption DEF Scalar
<1>2. k - l \in Int  OBVIOUS
<1>3. CASE k = l  BY <1>3, ArithmeticAssumption DEF Scalar
<1>4. CASE k - l >= 1
  <2>1. Q * (k - l) >= Q  BY <1>4, ArithmeticAssumption
  <2> QED  BY <2>1, <1>1, ArithmeticAssumption DEF Scalar
<1>5. CASE k - l <= -1
  <2>1. Q * (k - l) <= -Q  BY <1>5, ArithmeticAssumption
  <2> QED  BY <2>1, <1>1, ArithmeticAssumption DEF Scalar
<1> QED  BY <1>3, <1>4, <1>5

\* A product differs from that of the numbers by a multiple of the order.
LEMMA TimesReduces ==
    ASSUME NEW a \in Nat, NEW b \in Nat
    PROVE  /\ Times(a, b) \in Scalar
           /\ Times(a, b) \in Nat
           /\ \E k \in Nat : a * b = Q * k + Times(a, b)
<1>1. a * b \in Nat  OBVIOUS
<1>2. /\ (a * b) % Q \in Scalar
      /\ a * b = Q * ((a * b) \div Q) + ((a * b) % Q)
      /\ (a * b) \div Q \in Nat
  BY <1>1, Remainder
<1> QED  BY <1>2, ScalarsAreNatural DEF Times

\* The laws of products: they commute,
LEMMA TimesCommutes ==
    ASSUME NEW a \in Nat, NEW b \in Nat PROVE Times(a, b) = Times(b, a)
<1>1. a * b = b * a  OBVIOUS
<1> QED  BY <1>1 DEF Times

\* are associative,
LEMMA TimesAssociates ==
    ASSUME NEW a \in Nat, NEW b \in Nat, NEW c \in Nat
    PROVE  Times(Times(a, b), c) = Times(a, Times(b, c))
<1> DEFINE x == Times(a, b)
           y == Times(b, c)
<1>1. x \in Nat /\ \E k \in Nat : a * b = Q * k + x  BY TimesReduces
<1>2. y \in Nat /\ \E l \in Nat : b * c = Q * l + y  BY TimesReduces
<1> HIDE DEF x, y
<1>3. PICK k \in Nat : a * b = Q * k + x  BY <1>1
<1>4. PICK l \in Nat : b * c = Q * l + y  BY <1>2
<1> DEFINE r == Times(x, c)
           s == Times(a, y)
<1>5. r \in Scalar /\ \E m \in Nat : x * c = Q * m + r  BY <1>1, TimesReduces
<1>6. s \in Scalar /\ \E n \in Nat : a * y = Q * n + s  BY <1>2, TimesReduces
<1> HIDE DEF r, s
<1>7. PICK m \in Nat : x * c = Q * m + r  BY <1>5
<1>8. PICK n \in Nat : a * y = Q * n + s  BY <1>6
<1>9. (a * b) * c = a * (b * c)  OBVIOUS
<1>10. (Q * k + x) * c = Q * (k * c) + x * c  BY <1>1, ScalarsAreNatural
<1>11. a * (Q * l + y) = Q * (a * l) + a * y  BY <1>2, ScalarsAreNatural
<1>12. Q * (k * c) + (Q * m + r) = Q * (a * l) + (Q * n + s)
  BY <1>3, <1>4, <1>7, <1>8, <1>9, <1>10, <1>11
<1> DEFINE kc == k * c  al == a * l
<1>13. kc \in Nat /\ al \in Nat /\ r \in Nat /\ s \in Nat  BY <1>5, <1>6, ScalarsAreNatural
<1>14. Q * kc + (Q * m + r) = Q * al + (Q * n + s)  BY <1>12
<1> HIDE DEF kc, al
<1>15. Q * (kc + m) + r = Q * (al + n) + s  BY <1>13, <1>14, ScalarsAreNatural
<1>16. r = s  BY <1>5, <1>6, <1>13, <1>15, RemainderIsUnique
<1> QED  BY <1>16 DEF r, s, x, y

\* and have a unit and a zero.
LEMMA TimesUnit ==
    ASSUME NEW a \in Scalar
    PROVE  /\ Times(1, a) = a
           /\ Times(a, 1) = a
           /\ Times(0, a) = 0
           /\ Times(a, 0) = 0
BY ArithmeticAssumption DEF Times, Scalar

\* The scalars are closed, and the laws again for them.
LEMMA ScalarTimes ==
    ASSUME NEW a \in Scalar, NEW b \in Scalar
    PROVE  /\ Times(a, b) \in Scalar
           /\ Times(a, b) = Times(b, a)
BY TimesReduces, TimesCommutes, ScalarsAreNatural

\* Factors may be regrouped.
LEMMA ScalarAssociates ==
    ASSUME NEW a \in Scalar, NEW b \in Scalar, NEW c \in Scalar
    PROVE  /\ Times(Times(a, b), c) = Times(a, Times(b, c))
           /\ Times(Times(a, b), c) = Times(Times(a, c), b)
<1>1. a \in Nat /\ b \in Nat /\ c \in Nat  BY ScalarsAreNatural
<1>2. Times(b, c) = Times(c, b)  BY ScalarTimes
<1> QED  BY <1>1, <1>2, TimesAssociates

\* Two products of two may exchange factors.
LEMMA ScalarExchange ==
    ASSUME NEW a \in Scalar, NEW b \in Scalar, NEW c \in Scalar, NEW d \in Scalar
    PROVE  Times(Times(a, b), Times(c, d)) = Times(Times(a, c), Times(b, d))
<1>1. Times(Times(a, b), Times(c, d)) = Times(a, Times(b, Times(c, d)))
  BY ScalarTimes, ScalarAssociates
<1>2. Times(Times(a, c), Times(b, d)) = Times(a, Times(c, Times(b, d)))
  BY ScalarTimes, ScalarAssociates
<1>3. Times(b, Times(c, d)) = Times(Times(c, b), d) /\ Times(c, Times(b, d)) = Times(Times(c, b), d)
  BY ScalarTimes, ScalarAssociates
<1> QED  BY <1>1, <1>2, <1>3

\* A factor other than 0 cancels: this is where the order has to be a prime.
LEMMA TimesCancels ==
    ASSUME NEW a \in Scalar \ {0}, NEW b \in Scalar, NEW c \in Scalar, Times(a, b) = Times(a, c)
    PROVE  b = c
<1>1. PICK d \in Scalar : Times(a, d) = 1  BY OrderAssumption
<1>2. Times(d, a) = 1  BY <1>1, ScalarTimes
<1>3. Times(Times(d, a), b) = Times(d, Times(a, b)) /\ Times(Times(d, a), c) = Times(d, Times(a, c))
  BY ScalarAssociates
<1> QED  BY <1>2, <1>3, TimesUnit

\* A product of scalars other than 0 is not 0.
LEMMA TimesNonzero ==
    ASSUME NEW a \in Scalar \ {0}, NEW b \in Scalar \ {0}
    PROVE  Times(a, b) # 0
<1>1. 0 \in Scalar /\ Times(a, 0) = 0  BY TimesUnit, ScalarsAreNatural
<1> QED  BY <1>1, TimesCancels

-------------------------------------------------------------------------------
(* Powers *)

\* mod.rs, the loops with `pow *= s`.
LEMMA PowersStep ==
    ASSUME NEW s \in Scalar
    PROVE  /\ Powers(s) \in [Nat -> Scalar]
           /\ Powers(s)[0] = 1
           /\ \A n \in Nat : Powers(s)[n + 1] = Times(Powers(s)[n], s)
<1> DEFINE Step(f) == [i \in Nat |-> IF i = 0 THEN 1 ELSE Times(f[i - 1], s)]
<1>0. PICK g : g = [p \in Nat \X Scalar |-> Times(p[2], s)]  OBVIOUS
<1>1. g \in [Nat \X Scalar -> Scalar]  BY <1>0, ScalarTimes
<1>2. 1 \in Scalar  BY ScalarsAreNatural
<1>2a. PICK f : IsIteration(f, Scalar, 1, g)  BY <1>1, <1>2, Iteration
<1>3. /\ f \in [Nat -> Scalar] /\ f[0] = 1
      /\ \A n \in Nat : f[n + 1] = g[<<n, f[n]>>]
  BY <1>2a DEF IsIteration
<1>4. ASSUME NEW n \in Nat PROVE f[n + 1] = Times(f[n], s)
  <2>1. <<n, f[n]>> \in Nat \X Scalar  BY <1>3
  <2> QED  BY <1>0, <1>3, <2>1
<1>5. f = Step(f)
  <2>1. ASSUME NEW i \in Nat PROVE f[i] = IF i = 0 THEN 1 ELSE Times(f[i - 1], s)
    <3>1. CASE i = 0  BY <1>3, <3>1
    <3>2. CASE i # 0
      <4>1. i - 1 \in Nat /\ (i - 1) + 1 = i  BY <3>2
      <4> QED  BY <1>4, <3>2, <4>1
    <3> QED  BY <3>1, <3>2
  <2> QED  BY <1>3, <2>1
<1>6. Powers(s) = Step(Powers(s))
  <2>1. Powers(s) = CHOOSE pow : pow = Step(pow)  BY DEF Powers
  <2> QED  BY <1>5, <2>1
<1> DEFINE pow == Powers(s)
<1>7. \A i \in Nat : pow[i] = IF i = 0 THEN 1 ELSE Times(pow[i - 1], s)
  <2> HIDE DEF pow
  <2>1. pow = Step(pow)  BY <1>6 DEF pow
  <2> QED  BY <2>1
<1>8. DOMAIN pow = Nat /\ pow = [i \in Nat |-> pow[i]]
  <2> HIDE DEF pow
  <2>1. pow = Step(pow)  BY <1>6 DEF pow
  <2> QED  BY <2>1
<1> HIDE DEF pow
<1>9. pow[0] = 1  BY <1>7
<1>10. ASSUME NEW n \in Nat PROVE pow[n + 1] = Times(pow[n], s)
  <2>1. n + 1 \in Nat /\ n + 1 # 0 /\ (n + 1) - 1 = n  OBVIOUS
  <2> QED  BY <1>7, <2>1
<1>11. \A n \in Nat : pow[n] \in Scalar
  <2> DEFINE P == {n \in Nat : pow[n] \in Scalar}
  <2>1. 0 \in P  BY <1>9, <1>2
  <2>2. ASSUME NEW n \in Nat, n \in P PROVE n + 1 \in P
    BY <1>10, <2>2, ScalarTimes
  <2> HIDE DEF P
  <2>3. \A n \in Nat : n \in P  BY <2>1, <2>2, SetInduction
  <2> QED  BY <2>3 DEF P
<1> QED  BY <1>8, <1>9, <1>10, <1>11 DEF pow

\* The powers of a product are the products of the powers.
LEMMA PowersOfAProduct ==
    ASSUME NEW s \in Scalar, NEW t \in Scalar
    PROVE  \A n \in Nat : Powers(Times(s, t))[n] = Times(Powers(s)[n], Powers(t)[n])
<1> DEFINE P == {n \in Nat : Powers(Times(s, t))[n] = Times(Powers(s)[n], Powers(t)[n])}
<1>1. 1 \in Scalar /\ Times(1, 1) = 1 /\ Times(s, t) \in Scalar
  BY ScalarsAreNatural, ScalarTimes, TimesUnit
<1>2. 0 \in P  BY <1>1, PowersStep
<1>3. ASSUME NEW n \in Nat, n \in P PROVE n + 1 \in P
  <2> DEFINE a == Powers(s)[n]
             b == Powers(t)[n]
  <2>1. a \in Scalar /\ b \in Scalar  BY PowersStep
  <2>2. Powers(Times(s, t))[n + 1] = Times(Times(a, b), Times(s, t))  BY <1>1, <1>3, PowersStep
  <2>3. Times(Powers(s)[n + 1], Powers(t)[n + 1]) = Times(Times(a, s), Times(b, t))  BY PowersStep
  <2>4. Times(Times(a, b), Times(s, t)) = Times(Times(a, s), Times(b, t))
    BY <2>1, ScalarExchange
  <2> QED  BY <2>2, <2>3, <2>4
<1> HIDE DEF P
<1>4. \A n \in Nat : n \in P  BY <1>2, <1>3, SetInduction
<1> QED  BY <1>4 DEF P

-------------------------------------------------------------------------------
(* Running products *)

\* A product of one more factor.
LEMMA RunningStep ==
    ASSUME NEW v \in Seq(Scalar)
    PROVE  /\ \A i \in 0 .. Len(v) : Running(v)[i] \in Scalar
           /\ Running(v)[0] = 1
           /\ \A i \in 1 .. Len(v) : Running(v)[i] = Times(Running(v)[i - 1], v[i])
<1> DEFINE Step(f) == [i \in 0 .. Len(v) |-> IF i = 0 THEN 1 ELSE Times(f[i - 1], v[i])]
<1>1. PICK n \in Nat : n = Len(v)  OBVIOUS
<1>2. \A i \in 1 .. n : v[i] \in Scalar  BY <1>1
<1>3. PICK g : g = [p \in Nat \X Scalar |->
                       IF p[1] + 1 \in 1 .. n THEN Times(p[2], v[p[1] + 1]) ELSE p[2]]
  OBVIOUS
<1>4. g \in [Nat \X Scalar -> Scalar]
  <2>1. ASSUME NEW p \in Nat \X Scalar PROVE g[p] \in Scalar
    <3>1. p[2] \in Scalar  OBVIOUS
    <3>2. CASE p[1] + 1 \in 1 .. n
      <4>1. Times(p[2], v[p[1] + 1]) \in Scalar  BY <1>2, <3>1, <3>2, ScalarTimes
      <4> QED  BY <1>3, <3>2, <4>1
    <3>3. CASE p[1] + 1 \notin 1 .. n  BY <1>3, <3>1, <3>3
    <3> QED  BY <3>2, <3>3
  <2> QED  BY <1>3, <2>1
<1>5. 1 \in Scalar  BY ScalarsAreNatural
<1>6. PICK h : IsIteration(h, Scalar, 1, g)  BY <1>4, <1>5, Iteration
<1>7. h \in [Nat -> Scalar] /\ h[0] = 1 /\ \A i \in Nat : h[i + 1] = g[<<i, h[i]>>]
  BY <1>6 DEF IsIteration
<1>8. ASSUME NEW i \in 1 .. n PROVE h[i] = Times(h[i - 1], v[i])
  <2>1. i - 1 \in Nat /\ (i - 1) + 1 = i  OBVIOUS
  <2>2. h[i] = g[<<i - 1, h[i - 1]>>]  BY <1>7, <2>1
  <2>3. <<i - 1, h[i - 1]>> \in Nat \X Scalar  BY <1>7, <2>1
  <2> QED  BY <1>3, <2>1, <2>2, <2>3
<1> DEFINE f == [i \in 0 .. n |-> h[i]]
<1>9. f = Step(f)
  <2>1. ASSUME NEW i \in 0 .. n PROVE f[i] = IF i = 0 THEN 1 ELSE Times(f[i - 1], v[i])
    <3>1. CASE i = 0  BY <1>7, <3>1
    <3>2. CASE i # 0
      <4>1. i \in 1 .. n /\ i - 1 \in 0 .. n  BY <3>2
      <4> QED  BY <1>8, <3>2, <4>1
    <3> QED  BY <3>1, <3>2
  <2> DEFINE w(i) == IF i = 0 THEN 1 ELSE Times(f[i - 1], v[i])
  <2>2. f = [i \in 0 .. n |-> w(i)]  BY <2>1
  <2> QED  BY <1>1, <2>2
<1> DEFINE u == Running(v)
<1>10. u = Step(u)
  <2>1. u = CHOOSE upTo : upTo = Step(upTo)  BY DEF Running
  <2> HIDE DEF f
  <2> QED  BY <1>9, <2>1
<1>11. \A i \in 0 .. n : u[i] = IF i = 0 THEN 1 ELSE Times(u[i - 1], v[i])
  <2> HIDE DEF u
  <2> QED  BY <1>1, <1>10
<1> HIDE DEF u
<1>12. u[0] = 1  BY <1>11
<1>13. \A i \in 1 .. n : u[i] = Times(u[i - 1], v[i])  BY <1>11
<1>14. \A i \in Nat : i <= n => u[i] \in Scalar
  <2> DEFINE P == {i \in Nat : i <= n => u[i] \in Scalar}
  <2>1. 0 \in P  BY <1>5, <1>12
  <2>2. ASSUME NEW i \in Nat, i \in P PROVE i + 1 \in P
    <3>1. SUFFICES ASSUME i + 1 <= n PROVE u[i + 1] \in Scalar  OBVIOUS
    <3>2. i + 1 \in 1 .. n /\ u[i] \in Scalar /\ (i + 1) - 1 = i  BY <2>2, <3>1
    <3> QED  BY <1>2, <1>13, <3>2, ScalarTimes
  <2> HIDE DEF P
  <2>3. \A i \in Nat : i \in P  BY <2>1, <2>2, SetInduction
  <2> QED  BY <2>3 DEF P
<1> QED  BY <1>1, <1>12, <1>13, <1>14 DEF u

\* A longer sequence has the same products as far as it agrees.
LEMMA RunningAgrees ==
    ASSUME NEW v \in Seq(Scalar), NEW w \in Seq(Scalar), NEW n \in Nat,
           n <= Len(v), n <= Len(w), \A i \in 1 .. n : v[i] = w[i]
    PROVE  Running(v)[n] = Running(w)[n]
<1> DEFINE P == {i \in Nat : i <= n => Running(v)[i] = Running(w)[i]}
<1>1. 0 \in P  BY RunningStep
<1>2. ASSUME NEW i \in Nat, i \in P PROVE i + 1 \in P
  <2>1. SUFFICES ASSUME i + 1 <= n PROVE Running(v)[i + 1] = Running(w)[i + 1]  OBVIOUS
  <2>2. i + 1 \in 1 .. n /\ i + 1 \in 1 .. Len(v) /\ i + 1 \in 1 .. Len(w) /\ (i + 1) - 1 = i
    BY <2>1
  <2>3. Running(v)[i] = Running(w)[i] /\ v[i + 1] = w[i + 1]  BY <1>2, <2>1, <2>2
  <2> QED  BY <2>2, <2>3, RunningStep
<1> HIDE DEF P
<1>3. n \in P  BY <1>1, <1>2, SetInduction
<1> QED  BY <1>3 DEF P

-------------------------------------------------------------------------------
(* What a proof of a contribution says *)

\* The ratio of a pair times its first point is its second.
LEMMA RatioOfAProof ==
    ASSUME NEW a \in Scalar \ {0}, NEW b \in Scalar
    PROVE  /\ Ratio(<<a, b>>) \in Scalar
           /\ Times(a, Ratio(<<a, b>>)) = b
<1> DEFINE inv == CHOOSE inv \in Scalar : Times(a, inv) = 1
<1>1. \E i \in Scalar : Times(a, i) = 1  BY OrderAssumption
<1>2. inv \in Scalar /\ Times(a, inv) = 1  BY <1>1
<1>3. Ratio(<<a, b>>) = Times(b, inv)  BY DEF Ratio
<1> HIDE DEF inv
<1>4. Times(a, Times(b, inv)) = Times(b, Times(a, inv))
  BY <1>2, ScalarTimes, ScalarAssociates
<1> QED  BY <1>2, <1>3, <1>4, ScalarTimes, TimesUnit

\* An equation of pairings gives the ratio of the points it compares.
LEMMA RatioMoves ==
    ASSUME NEW a \in Scalar \ {0}, NEW b \in Scalar, NEW before \in Scalar, NEW after \in Scalar,
           Times(a, after) = Times(b, before)
    PROVE  after = Times(before, Ratio(<<a, b>>))
<1> DEFINE q == Ratio(<<a, b>>)
<1>1. q \in Scalar /\ Times(a, q) = b  BY RatioOfAProof
<1> HIDE DEF q
<1>2. Times(a, Times(before, q)) = Times(Times(a, q), before)
  BY <1>1, ScalarTimes, ScalarAssociates
<1>3. Times(a, after) = Times(a, Times(before, q))  BY <1>1, <1>2
<1>4. Times(before, q) \in Scalar  BY <1>1, ScalarTimes
<1>5. after = Times(before, q)  BY <1>3, <1>4, TimesCancels
<1> QED  BY <1>5 DEF q

\* A mask and the mask times a secret: the ratio is the secret.
LEMMA RatioOfASecret ==
    ASSUME NEW secret \in Scalar, NEW mask \in Scalar \ {0}
    PROVE  Ratio(<<mask, Times(secret, mask)>>) = secret
<1>1. Times(secret, mask) \in Scalar /\ Times(secret, mask) = Times(mask, secret)  BY ScalarTimes
<1>2. Times(mask, Ratio(<<mask, Times(secret, mask)>>)) = Times(mask, secret)
  BY <1>1, RatioOfAProof
<1> QED  BY <1>1, <1>2, RatioOfAProof, TimesCancels

-------------------------------------------------------------------------------
(* Geometric sequences *)

\* A geometric sequence is its first element times the powers of the ratio.
LEMMA GeometricIsPowers ==
    ASSUME NEW v \in Seq(Scalar), NEW s \in Scalar, Geometric(v, s)
    PROVE  \A i \in 1 .. Len(v) : v[i] = Times(v[1], Powers(s)[i - 1])
<1>1. PICK n \in Nat : n = Len(v)  OBVIOUS
<1>2. \A i \in 1 .. n : v[i] \in Scalar  BY <1>1
<1>3. ASSUME NEW i \in 1 .. n - 1 PROVE v[i + 1] = Times(v[i], s)
  <2>1. i \in 1 .. n /\ i + 1 \in 1 .. n  OBVIOUS
  <2>2. Times(v[i], s) = Times(v[i + 1], 1)  BY <1>1 DEF Geometric, Pairing, Generator
  <2> QED  BY <1>2, <2>1, <2>2, TimesUnit
<1> DEFINE P == {i \in Nat : i + 1 <= n => v[i + 1] = Times(v[1], Powers(s)[i])}
<1>4. 0 \in P
  <2>1. SUFFICES ASSUME 1 <= n PROVE v[1] = Times(v[1], Powers(s)[0])  OBVIOUS
  <2>2. v[1] \in Scalar /\ Powers(s)[0] = 1  BY <1>2, <2>1, PowersStep
  <2> QED  BY <2>2, TimesUnit
<1>5. ASSUME NEW i \in Nat, i \in P PROVE i + 1 \in P
  <2>1. SUFFICES ASSUME (i + 1) + 1 <= n PROVE v[(i + 1) + 1] = Times(v[1], Powers(s)[i + 1])
    OBVIOUS
  <2>2. i + 1 \in 1 .. n - 1 /\ 1 \in 1 .. n  BY <2>1
  <2>3. v[i + 1] = Times(v[1], Powers(s)[i])  BY <1>5, <2>1
  <2>4. v[(i + 1) + 1] = Times(v[i + 1], s)  BY <1>3, <2>2
  <2>5. v[1] \in Scalar /\ Powers(s)[i] \in Scalar /\ Powers(s)[i + 1] = Times(Powers(s)[i], s)
    BY <1>2, <2>2, PowersStep
  <2> QED  BY <2>3, <2>4, <2>5, ScalarAssociates
<1> HIDE DEF P
<1>6. \A i \in Nat : i \in P  BY <1>4, <1>5, SetInduction
<1>7. ASSUME NEW i \in 1 .. n PROVE v[i] = Times(v[1], Powers(s)[i - 1])
  <2>1. i - 1 \in Nat /\ (i - 1) + 1 = i /\ (i - 1) + 1 <= n  OBVIOUS
  <2> QED  BY <1>6, <2>1 DEF P
<1> QED  BY <1>1, <1>7

\* What compute_powers fills a vector with.
LEMMA PowersAreTyped ==
    ASSUME NEW s \in Scalar, NEW c \in Scalar, NEW n \in Nat
    PROVE  /\ PowersOfScalar(s, c, n) \in [1 .. n -> Scalar]
           /\ \A i \in 1 .. n : PowersOfScalar(s, c, n)[i] = Times(c, Powers(s)[i - 1])
<1>1. ASSUME NEW i \in 1 .. n PROVE Times(c, Powers(s)[i - 1]) \in Scalar
  <2>1. i - 1 \in Nat  OBVIOUS
  <2> QED  BY <2>1, PowersStep, ScalarTimes
<1> QED  BY <1>1 DEF PowersOfScalar

\* The powers of a scalar are geometric.
LEMMA PowersAreGeometric ==
    ASSUME NEW s \in Scalar, NEW c \in Scalar, NEW n \in Nat
    PROVE  Geometric(PowersOfScalar(s, c, n), s)
<1> DEFINE v == PowersOfScalar(s, c, n)
<1>1. v \in [1 .. n -> Scalar] /\ \A i \in 1 .. n : v[i] = Times(c, Powers(s)[i - 1])
  BY PowersAreTyped
<1> HIDE DEF v
<1>2. Len(v) = n  BY <1>1
<1>3. ASSUME NEW i \in 1 .. n - 1 PROVE Times(v[i], s) = Times(v[i + 1], 1)
  <2>1. i \in 1 .. n /\ i + 1 \in 1 .. n /\ i - 1 \in Nat /\ (i - 1) + 1 = i /\ (i + 1) - 1 = i
    OBVIOUS
  <2>2. Powers(s)[i - 1] \in Scalar /\ Powers(s)[i] = Times(Powers(s)[i - 1], s)
    BY <2>1, PowersStep
  <2>3. v[i] = Times(c, Powers(s)[i - 1]) /\ v[i + 1] = Times(c, Powers(s)[i]) /\ v[i + 1] \in Scalar
    BY <1>1, <2>1
  <2> QED  BY <2>2, <2>3, ScalarAssociates, TimesUnit
<1>4. Geometric(v, s)  BY <1>2, <1>3 DEF Geometric, Pairing, Generator
<1> QED  BY <1>4 DEF v

-------------------------------------------------------------------------------
(* Files *)

Vector(n) == [1 .. n -> Scalar]

\* Files and clients may hold vectors of any length.
Srs ==
    [tau_g1       : Seq(Scalar), tau_g2      : Seq(Scalar),
     alpha_tau_g1 : Seq(Scalar), beta_tau_g1 : Seq(Scalar),
     beta_g2      : Scalar]

\* A vector is a sequence of scalars.
LEMMA VectorLength ==
    ASSUME NEW n \in Nat, NEW v \in Vector(n)
    PROVE  /\ v \in Seq(Scalar) /\ v \in Seq(Nat)
           /\ Len(v) = n
           /\ DOMAIN v = 1 .. n
           /\ \A i \in 1 .. n : v[i] \in Scalar
<1>1. v \in [1 .. n -> Scalar] /\ Scalar \subseteq Nat  BY ScalarsAreNatural DEF Vector
<1>2. v \in [1 .. n -> Nat]  BY <1>1
<1>3. v \in Seq(Scalar) /\ Len(v) = n  BY <1>1
<1>4. v \in Seq(Nat)  BY <1>2
<1> QED  BY <1>1, <1>3, <1>4

\* b is s, of length k, and t, of length l, one after the other.
IsJoined(b, s, t, k, l) ==
    /\ b \in Seq(Nat)
    /\ Len(b) = k + l
    /\ \A i \in 1 .. k : b[i] = s[i]
    /\ \A i \in 1 .. l : b[k + i] = t[i]

\* What stands where after a concatenation.
LEMMA Joined ==
    ASSUME NEW s \in Seq(Nat), NEW t \in Seq(Nat), NEW k \in Nat, k = Len(s),
           NEW l \in Nat, l = Len(t), NEW b, b = s \o t
    PROVE  IsJoined(b, s, t, k, l)
<1>1. \A i \in 1 .. Len(s) + Len(t) : (s \o t)[i] = IF i <= Len(s) THEN s[i] ELSE t[i - Len(s)]
  BY ConcatProperties, Zenon
<1>2. s \o t \in Seq(Nat) /\ Len(s \o t) = Len(s) + Len(t)
  BY ConcatProperties
<1>3. \A i \in 1 .. k + l : b[i] = IF i <= k THEN s[i] ELSE t[i - k]
  BY <1>1
<1>4. ASSUME NEW i \in 1 .. k PROVE b[i] = s[i]
  <2>1. i \in 1 .. k + l /\ i <= k  OBVIOUS
  <2> QED  BY ONLY <1>3, <2>1
<1>5. ASSUME NEW i \in 1 .. l PROVE b[k + i] = t[i]
  <2>1. k + i \in 1 .. k + l /\ ~(k + i <= k) /\ (k + i) - k = i  OBVIOUS
  <2>2. b[k + i] = t[(k + i) - k]  BY ONLY <1>3, <2>1
  <2> QED  BY <2>1, <2>2
<1> QED  BY <1>2, <1>4, <1>5 DEF IsJoined

\* Concatenation is associative.
LEMMA ConcatGroups ==
    ASSUME NEW s \in Seq(Nat), NEW t \in Seq(Nat), NEW u \in Seq(Nat)
    PROVE  (s \o t) \o u = s \o (t \o u)
BY ConcatAssociative

IsConcat(b, s, t) == b = s \o t

LEMMA Regrouped ==
    ASSUME NEW s \in Seq(Nat), NEW t \in Seq(Nat), NEW u \in Seq(Nat),
           NEW st, IsConcat(st, s, t), NEW tu, IsConcat(tu, t, u), NEW b, IsConcat(b, st, u)
    PROVE  IsConcat(b, s, tu)
<1>1. (s \o t) \o u = s \o (t \o u)  BY ConcatGroups, Zenon
<1> QED  BY <1>1 DEF IsConcat

\* A sequence of one number.
LEMMA OneElement ==
    ASSUME NEW e \in Nat
    PROVE  /\ <<e>> \in Seq(Nat)
           /\ Len(<<e>>) = 1
           /\ <<e>>[1] = e
<1>1. << >> \in Seq(Nat) /\ Append(<< >>, e) = <<e>>  BY EmptySeq
<1>2. Append(<< >>, e) \in Seq(Nat)  BY <1>1, AppendProperties
<1> QED  BY <1>1, <1>2

\* A vector after its length.
LEMMA CountedIsASequence ==
    ASSUME NEW v \in Seq(Nat)
    PROVE  /\ Counted(v) \in Seq(Nat)
           /\ Len(Counted(v)) = 1 + Len(v)
           /\ Counted(v)[1] = Len(v)
           /\ \A i \in 1 .. Len(v) : Counted(v)[1 + i] = v[i]
<1>1. PICK n \in Nat : n = Len(v)  OBVIOUS
<1>2. PICK u : u = <<n>>  OBVIOUS
<1>3. u \in Seq(Nat) /\ 1 = Len(u) /\ u[1] = n  BY <1>2, OneElement
<1>4. PICK c : c = u \o v  OBVIOUS
<1>5. Counted(v) = c  BY <1>1, <1>2, <1>4 DEF Counted
<1>6. /\ c \in Seq(Nat) /\ Len(c) = 1 + n
      /\ \A i \in 1 .. 1 : c[i] = u[i]
      /\ \A i \in 1 .. n : c[1 + i] = v[i]
  <2>1. IsJoined(c, u, v, 1, n)  BY <1>1, <1>3, <1>4, Joined
  <2> QED  BY <2>1 DEF IsJoined
<1>7. c[1] = n  BY <1>3, <1>6
<1> QED  BY <1>1, <1>5, <1>6, <1>7

(***************************************************************************)
(* A vector written after its length is read back where it stands.         *)
(***************************************************************************)
ReadsBack(b, at, v, next) == ReadVector(b, at) = v /\ AfterVector(b, at) = next

LEMMA VectorIsReadBack ==
    ASSUME NEW x \in Seq(Nat), NEW v \in Seq(Nat), NEW y \in Seq(Nat),
           NEW xc, xc = x \o Counted(v), NEW b, b = xc \o y,
           NEW at \in Nat, at = Len(x) + 1, NEW next \in Nat, next = Len(xc) + 1
    PROVE  ReadsBack(b, at, v, next)
<1>1. PICK n \in Nat : n = Len(v)  OBVIOUS
<1>2. PICK k \in Nat : k = Len(x)  OBVIOUS
<1>3. PICK l \in Nat : l = Len(y)  OBVIOUS
<1>4. PICK c : c = Counted(v)  OBVIOUS
<1>5. c \in Seq(Nat) /\ Len(c) = 1 + n /\ c[1] = n /\ \A i \in 1 .. n : c[1 + i] = v[i]
  BY <1>1, <1>4, CountedIsASequence
<1>6. PICK m \in Nat : m = 1 + n  OBVIOUS
<1>7. xc \in Seq(Nat) /\ Len(xc) = k + m /\ \A i \in 1 .. m : xc[k + i] = c[i]
  <2>1. m = Len(c) /\ xc = x \o c  BY <1>4, <1>5, <1>6
  <2>2. IsJoined(xc, x, c, k, m)  BY <1>2, <1>5, <2>1, Joined
  <2> QED  BY ONLY <2>2 DEF IsJoined
<1>8. PICK km \in Nat : km = k + m  OBVIOUS
<1>9. b \in Seq(Nat) /\ \A i \in 1 .. km : b[i] = xc[i]
  <2>1. km = Len(xc)  BY ONLY <1>7, <1>8
  <2>2. IsJoined(b, xc, y, km, l)  BY <1>3, <1>7, <2>1, Joined
  <2> QED  BY ONLY <2>2 DEF IsJoined
<1>10. ASSUME NEW j \in 1 .. m PROVE b[k + j] = c[j]
  <2>1. k + j \in 1 .. km  BY ONLY k \in Nat, m \in Nat, j \in 1 .. m, <1>8
  <2>2. b[k + j] = xc[k + j]  BY ONLY <1>9, <2>1
  <2>3. xc[k + j] = c[j]  BY ONLY <1>7, j \in 1 .. m
  <2> QED  BY ONLY <2>2, <2>3
<1>11. at = k + 1  BY <1>2
<1>12. b[at] = n
  <2>1. 1 \in 1 .. m  BY <1>6
  <2>2. b[k + 1] = c[1]  BY ONLY <1>10, <2>1
  <2> QED  BY ONLY <1>5, <1>11, <2>2
<1>13. ASSUME NEW i \in 1 .. n PROVE b[(at + 1) + i - 1] = v[i] /\ v[i] \in Nat
  <2>1. 1 + i \in 1 .. m /\ (at + 1) + i - 1 = k + (1 + i)
    BY ONLY <1>6, <1>11, k \in Nat, n \in Nat, i \in 1 .. n
  <2>2. b[k + (1 + i)] = c[1 + i]  BY ONLY <1>10, <2>1
  <2>3. c[1 + i] = v[i]  BY ONLY <1>5, i \in 1 .. n
  <2>4. v[i] \in Nat  BY <1>1
  <2> QED  BY ONLY <2>1, <2>2, <2>3, <2>4
<1>14. SubSeq(b, at + 1, at + n) = v
  <2> DEFINE s == SubSeq(b, at + 1, at + n)
  <2>1. \A i \in at + 1 .. at + n : b[i] \in Nat
    <3>1. SUFFICES ASSUME NEW i \in at + 1 .. at + n PROVE b[i] \in Nat  OBVIOUS
    <3>2. i - at \in 1 .. n /\ (at + 1) + (i - at) - 1 = i
      BY ONLY at \in Nat, n \in Nat, i \in at + 1 .. at + n
    <3>3. b[(at + 1) + (i - at) - 1] \in Nat  BY ONLY <1>13, <3>2
    <3> QED  BY ONLY <3>2, <3>3
  <2>2. at + 1 \in Int /\ at + n \in Int  OBVIOUS
  <2>3. /\ s \in Seq(Nat)
        /\ Len(s) = IF at + 1 <= at + n THEN (at + n) - (at + 1) + 1 ELSE 0
    BY ONLY <2>1, <2>2, SubSeqProperties
  <2>4. \A i \in 1 .. (at + n) - (at + 1) + 1 : s[i] = b[(at + 1) + i - 1]
    BY ONLY <2>1, <2>2, SubSeqProperties
  <2> HIDE DEF s
  <2>5. (at + n) - (at + 1) + 1 = n /\ (at + 1 <= at + n <=> 1 <= n)
    BY ONLY at \in Nat, n \in Nat
  <2>6. Len(s) = n  BY ONLY <2>3, <2>5, n \in Nat
  <2>7. \A i \in 1 .. n : s[i] = v[i]  BY ONLY <1>13, <2>4, <2>5
  <2>8. s = v  BY ONLY <1>1, <2>3, <2>6, <2>7, v \in Seq(Nat), SeqEqual
  <2> QED  BY <2>8 DEF s
<1>15. at + n + 1 = next
  <2>1. next = (k + m) + 1  BY <1>7
  <2> QED  BY ONLY <1>6, <1>11, <2>1, k \in Nat, n \in Nat
<1> QED  BY ONLY <1>12, <1>14, <1>15 DEF ReadVector, AfterVector, ReadsBack

\* A sequence of scalars is a vector of its own length.
LEMMA SequenceIsVector ==
    ASSUME NEW v \in Seq(Scalar)
    PROVE  v \in Vector(Len(v)) /\ v \in Seq(Nat) /\ Len(v) \in Nat
<1>1. PICK n \in Nat : n = Len(v)  OBVIOUS
<1>2. v \in Vector(n)  BY <1>1 DEF Vector
<1> QED  BY <1>1, <1>2, VectorLength

\* The parts of an SRS,
LEMMA SrsFields ==
    ASSUME NEW srs \in Srs
    PROVE  /\ srs.tau_g1 \in Seq(Scalar) /\ srs.tau_g2 \in Seq(Scalar)
           /\ srs.alpha_tau_g1 \in Seq(Scalar) /\ srs.beta_tau_g1 \in Seq(Scalar)
           /\ srs.beta_g2 \in Scalar
           /\ srs = [tau_g1 |-> srs.tau_g1, tau_g2 |-> srs.tau_g2,
                     alpha_tau_g1 |-> srs.alpha_tau_g1, beta_tau_g1 |-> srs.beta_tau_g1,
                     beta_g2 |-> srs.beta_g2]
BY DEF Srs

\* as numbers.
LEMMA SrsVectors ==
    ASSUME NEW srs \in Srs
    PROVE  /\ srs.tau_g1 \in Seq(Nat) /\ srs.tau_g2 \in Seq(Nat)
           /\ srs.alpha_tau_g1 \in Seq(Nat) /\ srs.beta_tau_g1 \in Seq(Nat)
           /\ srs.beta_g2 \in Nat
BY SrsFields, SequenceIsVector, ScalarsAreNatural

(***************************************************************************)
(* phase2.rs: import_srs reads back what export_srs wrote.                 *)
(***************************************************************************)
LEMMA ImportIsInverse ==
    ASSUME NEW srs \in Srs
    PROVE  ImportSrs(ExportSrs(srs)) = srs
<1>1. PICK v1 \in Seq(Nat) : v1 = srs.tau_g1  BY SrsVectors
<1>2. PICK v2 \in Seq(Nat) : v2 = srs.tau_g2  BY SrsVectors
<1>3. PICK v3 \in Seq(Nat) : v3 = srs.alpha_tau_g1  BY SrsVectors
<1>4. PICK v4 \in Seq(Nat) : v4 = srs.beta_tau_g1  BY SrsVectors
<1>5. PICK last \in Seq(Nat) : last = <<srs.beta_g2>>  BY SrsVectors, OneElement
<1>6. PICK c1 \in Seq(Nat) : c1 = Counted(v1)  BY CountedIsASequence
<1>7. PICK c2 \in Seq(Nat) : c2 = Counted(v2)  BY CountedIsASequence
<1>8. PICK c3 \in Seq(Nat) : c3 = Counted(v3)  BY CountedIsASequence
<1>9. PICK c4 \in Seq(Nat) : c4 = Counted(v4)  BY CountedIsASequence
<1>10. PICK nil \in Seq(Nat) : nil = << >>  BY EmptySeq
<1>11. PICK x1 \in Seq(Nat) : x1 = nil \o c1  BY ConcatProperties
<1>12. PICK x2 \in Seq(Nat) : x2 = x1 \o c2  BY ConcatProperties
<1>13. PICK x3 \in Seq(Nat) : x3 = x2 \o c3  BY ConcatProperties
<1>14. PICK x4 \in Seq(Nat) : x4 = x3 \o c4  BY ConcatProperties
<1>15. PICK y3 \in Seq(Nat) : y3 = c4 \o last  BY ConcatProperties
<1>16. PICK y2 \in Seq(Nat) : y2 = c3 \o y3  BY ConcatProperties
<1>17. PICK y1 \in Seq(Nat) : y1 = c2 \o y2  BY ConcatProperties
<1>18. PICK b : b = x4 \o last  OBVIOUS
<1>19. /\ IsConcat(x2, x1, c2) /\ IsConcat(x3, x2, c3) /\ IsConcat(x4, x3, c4)
       /\ IsConcat(y3, c4, last) /\ IsConcat(y2, c3, y3) /\ IsConcat(y1, c2, y2)
       /\ IsConcat(b, x4, last)
  BY <1>12, <1>13, <1>14, <1>15, <1>16, <1>17, <1>18 DEF IsConcat
<1>20. IsConcat(b, x3, y3)  BY <1>19, Regrouped
<1>21. IsConcat(b, x2, y2)  BY <1>19, <1>20, Regrouped
<1>22a. IsConcat(b, x1, y1)  BY <1>19, <1>21, Regrouped
<1>22. ExportSrs(srs) = b
  <2>1. x1 = c1  BY <1>10, <1>11, ConcatEmptySeq
  <2>2. ExportSrs(srs) = (((c1 \o c2) \o c3) \o c4) \o last
    BY <1>1, <1>2, <1>3, <1>4, <1>5, <1>6, <1>7, <1>8, <1>9 DEF ExportSrs
  <2> QED  BY <1>12, <1>13, <1>14, <1>18, <2>1, <2>2
<1>23. Len(nil) = 0 /\ Len(x1) \in Nat /\ Len(x2) \in Nat /\ Len(x3) \in Nat /\ Len(x4) \in Nat
  BY <1>10
<1>24. PICK a2 \in Nat : a2 = Len(x1) + 1  BY <1>23
<1>25. PICK a3 \in Nat : a3 = Len(x2) + 1  BY <1>23
<1>26. PICK a4 \in Nat : a4 = Len(x3) + 1  BY <1>23
<1>27. PICK a5 \in Nat : a5 = Len(x4) + 1  BY <1>23
<1>28. ReadsBack(b, 1, v1, a2)
  <2>1. 1 = Len(nil) + 1 /\ 1 \in Nat  BY <1>23
  <2>2. x1 = nil \o Counted(v1)  BY <1>6, <1>11
  <2> QED  BY <1>22a, <1>24, <2>1, <2>2, VectorIsReadBack DEF IsConcat
<1>29. ReadsBack(b, a2, v2, a3)
  <2>1. x2 = x1 \o Counted(v2)  BY <1>7, <1>12
  <2> QED  BY <1>21, <1>24, <1>25, <2>1, VectorIsReadBack DEF IsConcat
<1>30. ReadsBack(b, a3, v3, a4)
  <2>1. x3 = x2 \o Counted(v3)  BY <1>8, <1>13
  <2> QED  BY <1>20, <1>25, <1>26, <2>1, VectorIsReadBack DEF IsConcat
<1>31. ReadsBack(b, a4, v4, a5)
  <2>1. x4 = x3 \o Counted(v4)  BY <1>9, <1>14
  <2> QED  BY <1>18, <1>26, <1>27, <2>1, VectorIsReadBack
<1>32. b[a5] = srs.beta_g2
  <2>1. PICK k \in Nat : k = Len(x4)  BY <1>23
  <2>2. 1 = Len(last) /\ last[1] = srs.beta_g2  BY <1>5, SrsVectors, OneElement
  <2>3. \A i \in 1 .. 1 : b[k + i] = last[i]
    <3>1. IsJoined(b, x4, last, k, 1)  BY <1>18, <2>1, <2>2, Joined
    <3> QED  BY <3>1 DEF IsJoined
  <2> QED  BY <1>27, <2>1, <2>2, <2>3
<1>33. ImportSrs(b) = [tau_g1 |-> v1, tau_g2 |-> v2, alpha_tau_g1 |-> v3, beta_tau_g1 |-> v4,
                       beta_g2 |-> srs.beta_g2]
  BY ONLY <1>28, <1>29, <1>30, <1>31, <1>32 DEF ImportSrs, ReadsBack
<1> QED  BY <1>1, <1>2, <1>3, <1>4, <1>22, <1>33, SrsFields

\* A directory holds the SRS it was written from, under its hash.
LEMMA DirectoryHolds ==
    ASSUME NEW srs \in Srs, NEW round, NEW before, NEW proof
    PROVE  /\ LoadSrs(StateDir(srs, round, before, proof)) = srs
           /\ HashIsAnnounced(StateDir(srs, round, before, proof))
<1>1. StateDir(srs, round, before, proof).srs = ExportSrs(srs)
      /\ StateDir(srs, round, before, proof).state.srs_hash = HashSrs(srs)
  BY DEF StateDir
<1> QED  BY <1>1, ImportIsInverse DEF LoadSrs, HashIsAnnounced

-------------------------------------------------------------------------------
(* The SRS of a round, as far as the checks of an upload determine it *)

Sound(srs) ==
    /\ srs \in Srs
    /\ HasTwoPowers(srs) /\ SrsIsNonzero(srs)
    /\ srs.tau_g1[2] = srs.tau_g2[2]

\* How long the vectors may be that the checks accept.
Sizes == [Vectors -> {n \in Nat : n > 1}]

\* The vectors of an SRS that has two powers in each.
LEMMA FullVectors ==
    ASSUME NEW srs \in Srs, HasTwoPowers(srs)
    PROVE  /\ SizeOf(srs) \in Sizes
           /\ srs.tau_g1 \in Vector(SizeOf(srs).tau_g1)
           /\ srs.tau_g2 \in Vector(SizeOf(srs).tau_g2)
           /\ srs.alpha_tau_g1 \in Vector(SizeOf(srs).alpha_tau_g1)
           /\ srs.beta_tau_g1 \in Vector(SizeOf(srs).beta_tau_g1)
<1>1. ASSUME NEW v \in {srs.tau_g1, srs.tau_g2, srs.alpha_tau_g1, srs.beta_tau_g1}
      PROVE  v \in Vector(Len(v)) /\ Len(v) \in Nat /\ Len(v) > 1
  <2>1. v \in Seq(Scalar) /\ Len(v) >= 2  BY SrsFields DEF HasTwoPowers
  <2> QED  BY <2>1, SequenceIsVector
<1>2. /\ SizeOf(srs).tau_g1 = Len(srs.tau_g1) /\ SizeOf(srs).tau_g2 = Len(srs.tau_g2)
      /\ SizeOf(srs).alpha_tau_g1 = Len(srs.alpha_tau_g1)
      /\ SizeOf(srs).beta_tau_g1 = Len(srs.beta_tau_g1)
  BY DEF SizeOf, Vectors
<1>3. SizeOf(srs) \in Sizes
  <2>1. ASSUME NEW v \in Vectors PROVE Len(srs[v]) \in {n \in Nat : n > 1}
    BY <1>1 DEF Vectors
  <2> QED  BY <2>1 DEF SizeOf, Sizes
<1> QED  BY <1>1, <1>2, <1>3

\* The two powers that every vector has.
LEMMA SizeIsEnough ==
    ASSUME NEW size \in Sizes
    PROVE  /\ size.tau_g1 \in Nat /\ size.tau_g1 > 1 /\ size.tau_g2 \in Nat /\ size.tau_g2 > 1
           /\ size.alpha_tau_g1 \in Nat /\ size.alpha_tau_g1 > 1
           /\ size.beta_tau_g1 \in Nat /\ size.beta_tau_g1 > 1
BY DEF Sizes, Vectors

\* The points that the checks look at.
LEMMA Places ==
    ASSUME NEW srs \in Srs, HasTwoPowers(srs)
    PROVE  /\ srs.tau_g1[1] \in Scalar /\ srs.tau_g1[2] \in Scalar
           /\ srs.tau_g2[1] \in Scalar /\ srs.tau_g2[2] \in Scalar
           /\ srs.alpha_tau_g1[1] \in Scalar /\ srs.alpha_tau_g1[2] \in Scalar
           /\ srs.beta_tau_g1[1] \in Scalar /\ srs.beta_tau_g1[2] \in Scalar
<1>1. ASSUME NEW n \in Nat, n > 1, NEW v \in Vector(n) PROVE v[1] \in Scalar /\ v[2] \in Scalar
  <2>1. 1 \in 1 .. n /\ 2 \in 1 .. n  BY <1>1
  <2> QED  BY <2>1 DEF Vector
<1> QED  BY <1>1, FullVectors, SizeIsEnough

\* The first two powers.
LEMMA PowersFill ==
    ASSUME NEW s \in Scalar, NEW c \in Scalar, NEW n \in Nat, n > 1
    PROVE  /\ PowersOfScalar(s, c, n) \in Vector(n)
           /\ PowersOfScalar(s, c, n)[1] = c
           /\ PowersOfScalar(s, c, n)[2] = Times(c, s)
<1> DEFINE v == PowersOfScalar(s, c, n)
<1>1. v \in [1 .. n -> Scalar] /\ \A i \in 1 .. n : v[i] = Times(c, Powers(s)[i - 1])
  BY PowersAreTyped
<1>2. Powers(s)[0] = 1 /\ Powers(s)[1] = s
  <2>1. Powers(s)[0] = 1 /\ Powers(s)[0 + 1] = Times(Powers(s)[0], s)  BY PowersStep
  <2> QED  BY <2>1, TimesUnit
<1> HIDE DEF v
<1>3. v[1] = Times(c, Powers(s)[0]) /\ v[2] = Times(c, Powers(s)[1])
  <2>1. 1 \in 1 .. n /\ 2 \in 1 .. n /\ 1 - 1 = 0 /\ 2 - 1 = 1  OBVIOUS
  <2> QED  BY <1>1, <2>1
<1> QED  BY <1>1, <1>2, <1>3, TimesUnit DEF v, Vector

\* mod.rs, initialize: what the first points are, however many there are.
LEMMA PowersFields ==
    ASSUME NEW s \in Secrets, NEW size \in Sizes, NEW srs, srs = PowersOfSecrets(s, size)
    PROVE  /\ srs \in Srs /\ HasTwoPowers(srs) /\ SizeOf(srs) = size
           /\ srs.tau_g1[1] = 1 /\ srs.tau_g1[2] = s.tau
           /\ srs.tau_g2[1] = 1 /\ srs.tau_g2[2] = s.tau
           /\ srs.alpha_tau_g1[1] = s.alpha
           /\ srs.beta_tau_g1[1] = s.beta
           /\ srs.beta_g2 = s.beta
<1>1. s.tau \in Scalar /\ s.alpha \in Scalar /\ s.beta \in Scalar /\ 1 \in Scalar
  BY ScalarsAreNatural DEF Secrets
<1>2. Times(1, s.tau) = s.tau  BY <1>1, TimesUnit
<1> DEFINE v1 == PowersOfScalar(s.tau, 1, size.tau_g1)
           v2 == PowersOfScalar(s.tau, 1, size.tau_g2)
           v3 == PowersOfScalar(s.tau, s.alpha, size.alpha_tau_g1)
           v4 == PowersOfScalar(s.tau, s.beta, size.beta_tau_g1)
<1>3. v1 \in Vector(size.tau_g1) /\ v1[1] = 1 /\ v1[2] = s.tau
  BY <1>1, <1>2, SizeIsEnough, PowersFill
<1>4. v2 \in Vector(size.tau_g2) /\ v2[1] = 1 /\ v2[2] = s.tau
  BY <1>1, <1>2, SizeIsEnough, PowersFill
<1>5. v3 \in Vector(size.alpha_tau_g1) /\ v3[1] = s.alpha  BY <1>1, SizeIsEnough, PowersFill
<1>6. v4 \in Vector(size.beta_tau_g1) /\ v4[1] = s.beta  BY <1>1, SizeIsEnough, PowersFill
<1>7. srs = [tau_g1 |-> v1, tau_g2 |-> v2, alpha_tau_g1 |-> v3, beta_tau_g1 |-> v4,
             beta_g2 |-> s.beta]
  BY DEF PowersOfSecrets
<1> HIDE DEF v1, v2, v3, v4
<1>8. /\ v1 \in Seq(Scalar) /\ Len(v1) = size.tau_g1
      /\ v2 \in Seq(Scalar) /\ Len(v2) = size.tau_g2
      /\ v3 \in Seq(Scalar) /\ Len(v3) = size.alpha_tau_g1
      /\ v4 \in Seq(Scalar) /\ Len(v4) = size.beta_tau_g1
  BY <1>3, <1>4, <1>5, <1>6, SizeIsEnough, VectorLength
<1>9. srs \in Srs  BY <1>1, <1>7, <1>8 DEF Srs
<1>10. HasTwoPowers(srs)  BY <1>7, <1>8, SizeIsEnough DEF HasTwoPowers
<1>11. SizeOf(srs) = size
  <2>1. \A v \in Vectors : Len(srs[v]) = size[v]  BY <1>7, <1>8 DEF Vectors
  <2> QED  BY <2>1 DEF SizeOf, Sizes
<1> QED  BY <1>3, <1>4, <1>5, <1>6, <1>7, <1>9, <1>10, <1>11

\* The size of a tier is one.
LEMMA InitializeFields ==
    ASSUME NEW s \in Secrets
    PROVE  /\ Initialize(s) \in Srs /\ HasTwoPowers(Initialize(s))
           /\ Initialize(s).tau_g1[2] = s.tau /\ Initialize(s).tau_g2[2] = s.tau
           /\ Initialize(s).alpha_tau_g1[1] = s.alpha
           /\ Initialize(s).beta_g2 = s.beta
<1>1. SizeOfTier \in Sizes
  <2>1. /\ 2 * Degree - 1 \in {n \in Nat : n > 1} /\ Degree \in {n \in Nat : n > 1}
    BY ScalarsAreNatural
  <2> QED  BY <2>1 DEF SizeOfTier, Sizes, Vectors
<1> QED  BY <1>1, PowersFields DEF Initialize

\* mod.rs, update_powers: what becomes of each point.
LEMMA UpdateFills ==
    ASSUME NEW n \in Nat, n > 1, NEW v \in Vector(n), NEW s \in Scalar, NEW c \in Scalar
    PROVE  /\ UpdatePowers(v, s, c) \in Vector(n)
           /\ UpdatePowers(v, s, c)[1] = Times(v[1], c)
           /\ UpdatePowers(v, s, c)[2] = Times(v[2], Times(c, s))
           /\ \A i \in 1 .. n : UpdatePowers(v, s, c)[i] = Times(v[i], PowersOfScalar(s, c, n)[i])
<1> DEFINE w == PowersOfScalar(s, c, n)
           u == UpdatePowers(v, s, c)
<1>1. w \in Vector(n) /\ w[1] = c /\ w[2] = Times(c, s)  BY PowersFill
<1>2. w \in [1 .. n -> Scalar] /\ v \in [1 .. n -> Scalar]  BY <1>1 DEF Vector
<1>3. u = [i \in 1 .. n |-> Times(v[i], w[i])]
  <2>1. \A i \in 1 .. n : w[i] = Times(c, Powers(s)[i - 1])  BY PowersAreTyped
  <2>2. DOMAIN v = 1 .. n  BY <1>2
  <2> HIDE DEF w
  <2> QED  BY <2>1, <2>2 DEF UpdatePowers
<1> HIDE DEF w, u
<1>4. \A i \in 1 .. n : Times(v[i], w[i]) \in Scalar  BY <1>2, ScalarTimes
<1>5. u \in [1 .. n -> Scalar] /\ \A i \in 1 .. n : u[i] = Times(v[i], w[i])  BY <1>3, <1>4
<1>6. 1 \in 1 .. n /\ 2 \in 1 .. n  OBVIOUS
<1> QED  BY <1>1, <1>5, <1>6 DEF Vector, u, w

\* mod.rs, contribute: no vector changes its length.
LEMMA ContributeFields ==
    ASSUME NEW srs \in Srs, HasTwoPowers(srs), NEW delta \in Secrets
    PROVE  Contribute(srs, delta) \in Srs /\ HasTwoPowers(Contribute(srs, delta))
<1>1. delta.tau \in Scalar /\ delta.alpha \in Scalar /\ delta.beta \in Scalar /\ 1 \in Scalar
  BY ScalarsAreNatural DEF Secrets
<1> DEFINE v1 == UpdatePowers(srs.tau_g1, delta.tau, 1)
           v2 == UpdatePowers(srs.tau_g2, delta.tau, 1)
           v3 == UpdatePowers(srs.alpha_tau_g1, delta.tau, delta.alpha)
           v4 == UpdatePowers(srs.beta_tau_g1, delta.tau, delta.beta)
           e == Times(srs.beta_g2, delta.beta)
<1>2. ASSUME NEW n \in Nat, n > 1, NEW v \in Vector(n), NEW t \in Scalar, NEW c \in Scalar
      PROVE  UpdatePowers(v, t, c) \in Seq(Scalar) /\ Len(UpdatePowers(v, t, c)) >= 2
  <2>1. UpdatePowers(v, t, c) \in Vector(n)  BY <1>2, UpdateFills
  <2> QED  BY <1>2, <2>1, VectorLength
<1>3. /\ v1 \in Seq(Scalar) /\ Len(v1) >= 2 /\ v2 \in Seq(Scalar) /\ Len(v2) >= 2
      /\ v3 \in Seq(Scalar) /\ Len(v3) >= 2 /\ v4 \in Seq(Scalar) /\ Len(v4) >= 2
  BY <1>1, <1>2, FullVectors, SizeIsEnough
<1>4. e \in Scalar  BY <1>1, SrsFields, ScalarTimes
<1>5. Contribute(srs, delta) = [tau_g1 |-> v1, tau_g2 |-> v2, alpha_tau_g1 |-> v3,
                                beta_tau_g1 |-> v4, beta_g2 |-> e]
  BY DEF Contribute
<1> HIDE DEF v1, v2, v3, v4, e
<1> QED  BY <1>3, <1>4, <1>5 DEF Srs, HasTwoPowers

-------------------------------------------------------------------------------
(* Faults *)

\* A fault leaves a vector of scalars, of whatever length.
LEMMA AlteredIsTyped ==
    ASSUME NEW v \in Seq(Scalar), Len(v) >= 2, NEW tau \in Scalar, NEW factors \in Seq(Scalar)
    PROVE  Altered(v, tau, factors) \in Seq(Scalar)
<1>1. PICK n \in Nat : n = Len(factors) /\ DOMAIN factors = 1 .. n  OBVIOUS
<1>2. PICK l \in Nat : l = Len(v) /\ DOMAIN v = 1 .. l /\ l >= 2  OBVIOUS
<1>3. ASSUME NEW i \in 1 .. n PROVE Times(factors[i], Point(v, tau, i)) \in Scalar
  <2>1. Point(v, tau, i) \in Scalar
    <3>1. CASE i \in DOMAIN v  BY <3>1 DEF Point
    <3>2. CASE i \notin DOMAIN v
      <4>1. 1 \in 1 .. l /\ i - 1 \in Nat  BY <1>2
      <4>2. v[1] \in Scalar /\ Powers(tau)[i - 1] \in Scalar  BY <1>2, <4>1, PowersStep
      <4> QED  BY <3>2, <4>2, ScalarTimes DEF Point
    <3> QED  BY <3>1, <3>2
  <2>2. factors[i] \in Scalar  BY <1>1
  <2> QED  BY <2>1, <2>2, ScalarTimes
<1>4. Altered(v, tau, factors) = [i \in 1 .. n |-> Times(factors[i], Point(v, tau, i))]
  BY <1>1 DEF Altered
<1> QED  BY <1>3, <1>4

\* A fault is in one part only.
LEMMA DamagedIsTyped ==
    ASSUME NEW srs \in Srs, HasTwoPowers(srs), NEW fault \in Faults
    PROVE  Damaged(srs, fault) \in Srs
<1>1. CASE fault.part = "none"  BY <1>1 DEF Damaged
<1>2. CASE fault.part = "beta_g2"
  <2>1. fault.factors[1] \in Scalar  BY <1>2 DEF Faults, Vectors
  <2>2. Times(fault.factors[1], srs.beta_g2) \in Scalar  BY <2>1, SrsFields, ScalarTimes
  <2>3. Damaged(srs, fault) = [srs EXCEPT !.beta_g2 = Times(fault.factors[1], srs.beta_g2)]
    BY <1>2 DEF Damaged
  <2> QED  BY <2>2, <2>3 DEF Srs
<1>3. CASE fault.part \in Vectors
  <2>1. fault.factors \in Seq(Scalar)  BY <1>3 DEF Faults, Vectors
  <2>2. PICK v : v = srs[fault.part]  OBVIOUS
  <2>3. v \in Seq(Scalar) /\ Len(v) >= 2  BY <1>3, <2>2, SrsFields DEF Vectors, HasTwoPowers
  <2>4. srs.tau_g2[2] \in Scalar  BY Places
  <2>5. PICK w \in Seq(Scalar) : w = Altered(v, srs.tau_g2[2], fault.factors)
    BY <2>1, <2>3, <2>4, AlteredIsTyped
  <2>6. Damaged(srs, fault) = [srs EXCEPT ![fault.part] = w]  BY <1>3, <2>2, <2>5 DEF Damaged, Vectors
  <2> QED  BY <1>3, <2>6 DEF Srs, Vectors
<1>4. fault.part \in Vectors \cup {"none", "beta_g2"}  BY DEF Faults
<1> QED  BY <1>1, <1>2, <1>3, <1>4

(***************************************************************************)
(* mod.rs, verify_contribution: whatever was computed wrongly, an SRS that *)
(* passes has two powers in each vector and one tau in both groups.        *)
(***************************************************************************)
LEMMA AcceptedIsSound ==
    ASSUME NEW after \in Srs, NEW before, NEW proof, VerifyContribution(before, after, proof)
    PROVE  Sound(after)
<1>1. HasTwoPowers(after) /\ SrsIsNonzero(after) /\ CrossChecks(after)  BY DEF VerifyContribution
<1>2. Times(after.tau_g1[2], 1) = Times(1, after.tau_g2[2])
  BY <1>1 DEF CrossChecks, Pairing, Generator
<1>3. after.tau_g1[2] = after.tau_g2[2]  BY <1>1, <1>2, Places, TimesUnit
<1> QED  BY <1>1, <1>3 DEF Sound

(***************************************************************************)
(* mod.rs, verify_consistency: of the sound SRSs it accepts those whose    *)
(* points are the powers of their secrets, however many, and no other.     *)
(***************************************************************************)
LEMMA VectorIsPowers ==
    ASSUME NEW n \in Nat, n > 1, NEW v \in Vector(n), NEW s \in Scalar, Geometric(v, s)
    PROVE  v = PowersOfScalar(s, v[1], n)
<1> DEFINE w == PowersOfScalar(s, v[1], n)
<1>1. v \in [1 .. n -> Scalar] /\ v \in Seq(Scalar) /\ Len(v) = n /\ v[1] \in Scalar
  <2>1. 1 \in 1 .. n  OBVIOUS
  <2> QED  BY <2>1, VectorLength DEF Vector
<1>2. \A i \in 1 .. n : v[i] = Times(v[1], Powers(s)[i - 1])  BY <1>1, GeometricIsPowers
<1>3. w \in [1 .. n -> Scalar] /\ \A i \in 1 .. n : w[i] = Times(v[1], Powers(s)[i - 1])
  BY <1>1, PowersAreTyped
<1> HIDE DEF w
<1>4. \A i \in 1 .. n : v[i] = w[i]  BY <1>2, <1>3
<1>5. v = w  BY <1>1, <1>3, <1>4
<1> QED  BY <1>5 DEF w

\* The generators come first.
LEMMA FirstIsGenerator ==
    ASSUME NEW n \in Nat, n > 1, NEW v \in Vector(n), NEW s \in Scalar \ {0},
           Geometric(v, s), v[2] = s
    PROVE  v[1] = 1
<1>1. Len(v) = n /\ 1 \in 1 .. n - 1 /\ 1 + 1 = 2  BY VectorLength
<1>2. Times(v[1], s) = Times(v[2], 1)  BY <1>1 DEF Geometric, Pairing, Generator
<1>3. 1 \in 1 .. n  OBVIOUS
<1>4. v[1] \in Scalar /\ 1 \in Scalar  BY <1>3, ScalarsAreNatural DEF Vector
<1>5. Times(s, v[1]) = Times(s, 1)  BY <1>2, <1>4, ScalarTimes
<1> QED  BY <1>4, <1>5, TimesCancels

\* An SRS that passes holds the powers of its secrets,
LEMMA ConsistencyMeansPowers ==
    ASSUME NEW srs, Sound(srs), VerifyConsistency(srs), NEW s \in Secrets,
           srs.tau_g1[2] = s.tau, srs.alpha_tau_g1[1] = s.alpha, srs.beta_g2 = s.beta
    PROVE  srs = PowersOfSecrets(s, SizeOf(srs))
<1>1. srs \in Srs /\ HasTwoPowers(srs) /\ srs.tau_g2[2] = s.tau  BY DEF Sound
<1>2. s.tau \in Scalar \ {0}  BY DEF Secrets, Sound, SrsIsNonzero
<1>3. /\ Geometric(srs.tau_g1, s.tau) /\ Geometric(srs.tau_g2, s.tau)
      /\ Geometric(srs.alpha_tau_g1, s.tau) /\ Geometric(srs.beta_tau_g1, s.tau)
  BY <1>1 DEF VerifyConsistency
<1>4. srs.beta_tau_g1[1] = s.beta
  <2>1. Times(srs.beta_tau_g1[1], 1) = Times(1, srs.beta_g2)
    BY DEF VerifyConsistency, Pairing, Generator
  <2> QED  BY <1>1, <2>1, Places, SrsFields, TimesUnit
<1>5. PICK size \in Sizes : size = SizeOf(srs)  BY <1>1, FullVectors
<1>6. /\ srs.tau_g1 \in Vector(size.tau_g1) /\ srs.tau_g2 \in Vector(size.tau_g2)
      /\ srs.alpha_tau_g1 \in Vector(size.alpha_tau_g1)
      /\ srs.beta_tau_g1 \in Vector(size.beta_tau_g1)
  BY <1>1, <1>5, FullVectors
<1>7. srs.tau_g1[1] = 1 /\ srs.tau_g2[1] = 1
  BY <1>1, <1>2, <1>3, <1>6, SizeIsEnough, FirstIsGenerator
<1>8. /\ srs.tau_g1 = PowersOfScalar(s.tau, 1, size.tau_g1)
      /\ srs.tau_g2 = PowersOfScalar(s.tau, 1, size.tau_g2)
      /\ srs.alpha_tau_g1 = PowersOfScalar(s.tau, s.alpha, size.alpha_tau_g1)
      /\ srs.beta_tau_g1 = PowersOfScalar(s.tau, s.beta, size.beta_tau_g1)
  BY <1>2, <1>3, <1>4, <1>6, <1>7, SizeIsEnough, VectorIsPowers
<1> QED  BY <1>1, <1>5, <1>8, SrsFields DEF PowersOfSecrets

\* and the powers of secrets pass.
LEMMA PowersAreConsistent ==
    ASSUME NEW s \in Secrets, NEW size \in Sizes, NEW srs, srs = PowersOfSecrets(s, size),
           SrsIsNonzero(srs)
    PROVE  VerifyConsistency(srs)
<1>1. /\ srs \in Srs /\ HasTwoPowers(srs)
      /\ srs.tau_g1[2] = s.tau /\ srs.tau_g2[2] = s.tau
      /\ srs.beta_tau_g1[1] = s.beta /\ srs.beta_g2 = s.beta
  BY PowersFields
<1>2. s.tau \in Scalar /\ s.alpha \in Scalar /\ s.beta \in Scalar /\ 1 \in Scalar
  BY ScalarsAreNatural DEF Secrets
<1>3. /\ Geometric(srs.tau_g1, s.tau) /\ Geometric(srs.tau_g2, s.tau)
      /\ Geometric(srs.alpha_tau_g1, s.tau) /\ Geometric(srs.beta_tau_g1, s.tau)
  BY <1>2, SizeIsEnough, PowersAreGeometric DEF PowersOfSecrets
<1>4. Len(srs.tau_g1) >= 2 /\ Len(srs.tau_g2) >= 2  BY <1>1 DEF HasTwoPowers
<1>5. /\ Pairing(srs.tau_g1[2], Generator) = Pairing(Generator, srs.tau_g2[2])
      /\ Pairing(srs.beta_tau_g1[1], Generator) = Pairing(Generator, srs.beta_g2)
  BY <1>1, <1>2, TimesUnit DEF Pairing, Generator
<1> QED  BY <1>1, <1>3, <1>4, <1>5 DEF VerifyConsistency

(***************************************************************************)
(* mod.rs, proof_matches: it fixes what each secret was multiplied by.     *)
(***************************************************************************)
Proofs ==
    [tau_proof : Scalar \X Scalar, alpha_proof : Scalar \X Scalar, beta_proof : Scalar \X Scalar]

\* The ratio of a proof is a scalar,
LEMMA RatioOfAPair ==
    ASSUME NEW p \in Scalar \X Scalar, p[1] # 0
    PROVE  Ratio(p) \in Scalar
<1>1. p = <<p[1], p[2]>> /\ p[1] \in Scalar \ {0} /\ p[2] \in Scalar  OBVIOUS
<1> QED  BY <1>1, RatioOfAProof

\* and is what the point compared was multiplied by.
LEMMA PairMoves ==
    ASSUME NEW p \in Scalar \X Scalar, p[1] # 0, NEW old \in Scalar, NEW new \in Scalar,
           Times(p[1], new) = Times(p[2], old)
    PROVE  new = Times(old, Ratio(p))
<1>1. p = <<p[1], p[2]>> /\ p[1] \in Scalar \ {0} /\ p[2] \in Scalar  OBVIOUS
<1> QED  BY <1>1, RatioMoves

\* So the three secrets are multiplied by the three ratios.
LEMMA SecretsMove ==
    ASSUME NEW old \in Srs, HasTwoPowers(old), NEW new \in Srs, HasTwoPowers(new),
           NEW proof \in Proofs, ProofIsNonzero(proof), ProofMatches(old, new, proof)
    PROVE  /\ new.tau_g2[2] = Times(old.tau_g2[2], Ratio(proof.tau_proof))
           /\ new.alpha_tau_g1[1] = Times(old.alpha_tau_g1[1], Ratio(proof.alpha_proof))
           /\ new.beta_g2 = Times(old.beta_g2, Ratio(proof.beta_proof))
<1>1. /\ proof.tau_proof \in Scalar \X Scalar /\ proof.tau_proof[1] # 0
      /\ proof.alpha_proof \in Scalar \X Scalar /\ proof.alpha_proof[1] # 0
      /\ proof.beta_proof \in Scalar \X Scalar /\ proof.beta_proof[1] # 0
  BY DEF Proofs, ProofIsNonzero
<1>2. /\ Times(proof.tau_proof[1], new.tau_g2[2]) = Times(proof.tau_proof[2], old.tau_g2[2])
      /\ Times(new.alpha_tau_g1[1], proof.alpha_proof[1])
           = Times(old.alpha_tau_g1[1], proof.alpha_proof[2])
      /\ Times(proof.beta_proof[1], new.beta_g2) = Times(proof.beta_proof[2], old.beta_g2)
  BY DEF ProofMatches, Pairing
<1>3. /\ proof.alpha_proof[1] \in Scalar /\ proof.alpha_proof[2] \in Scalar
      /\ old.alpha_tau_g1[1] \in Scalar /\ new.alpha_tau_g1[1] \in Scalar
      /\ old.tau_g2[2] \in Scalar /\ new.tau_g2[2] \in Scalar
      /\ old.beta_g2 \in Scalar /\ new.beta_g2 \in Scalar
  BY <1>1, Places, SrsFields
<1>4. Times(proof.alpha_proof[1], new.alpha_tau_g1[1])
        = Times(proof.alpha_proof[2], old.alpha_tau_g1[1])
  BY <1>2, <1>3, ScalarTimes
<1> QED  BY <1>1, <1>2, <1>3, <1>4, PairMoves

-------------------------------------------------------------------------------
(* The rounds *)

Bytes == Seq(Nat)

Directories ==
    [srs     : Bytes,
     state   : [round : Nat, srs_hash : Bytes, contribution_id : Nat \X Bytes],
     receipt : [before_srs_hash : Bytes, after_srs_hash : Bytes,
                contribution_id : Nat \X Bytes, proof : Proofs]]

\* The directory of a sound SRS as the tool writes it.
Holds(dir, round) ==
    /\ dir \in Directories
    /\ Sound(LoadSrs(dir)) /\ HashIsAnnounced(dir)
    /\ dir.state.round = round
    /\ dir.receipt.after_srs_hash = dir.state.srs_hash

ChainTypeOK ==
    /\ chain \in Seq(Directories)
    /\ work \in [Participants -> Directories \cup {Error}]

\* What participants hold is sound, whether or not it is ever accepted, and
\* no initial contribution.
WorkIsSound ==
    \A p \in Participants :
        work[p] # Error => Holds(work[p], work[p].state.round) /\ work[p].state.round > 0

\* Every round passes what upload.rs and init check, against its predecessor.
ChainIsLinked ==
    /\ \A n \in DOMAIN chain : Holds(chain[n], n - 1)
    /\ chain # << >> => VerifyInitialContribution(LoadSrs(chain[1]), chain[1].receipt.proof)
    /\ \A n \in 2 .. Len(chain) : VerifyContributionArtifacts(chain[n - 1], chain[n])

RoundsInv == ChainTypeOK /\ WorkIsSound /\ ChainIsLinked

\* A file is a sequence of numbers.
LEMMA ExportIsTyped ==
    ASSUME NEW srs \in Srs
    PROVE  ExportSrs(srs) \in Bytes
<1>1. /\ Counted(srs.tau_g1) \in Seq(Nat) /\ Counted(srs.tau_g2) \in Seq(Nat)
      /\ Counted(srs.alpha_tau_g1) \in Seq(Nat) /\ Counted(srs.beta_tau_g1) \in Seq(Nat)
      /\ <<srs.beta_g2>> \in Seq(Nat)
  BY SrsVectors, CountedIsASequence, OneElement
<1>2. Counted(srs.tau_g1) \o Counted(srs.tau_g2) \in Seq(Nat)  BY <1>1, ConcatProperties
<1>3. Counted(srs.tau_g1) \o Counted(srs.tau_g2) \o Counted(srs.alpha_tau_g1) \in Seq(Nat)
  BY <1>1, <1>2, ConcatProperties
<1>4. Counted(srs.tau_g1) \o Counted(srs.tau_g2) \o Counted(srs.alpha_tau_g1)
        \o Counted(srs.beta_tau_g1) \in Seq(Nat)
  BY <1>1, <1>3, ConcatProperties
<1>5. Counted(srs.tau_g1) \o Counted(srs.tau_g2) \o Counted(srs.alpha_tau_g1)
        \o Counted(srs.beta_tau_g1) \o <<srs.beta_g2>> \in Seq(Nat)
  BY <1>1, <1>4, ConcatProperties
<1> QED  BY <1>5 DEF ExportSrs, Bytes

\* What the tool writes of a sound SRS.
LEMMA DirectoryIsHeld ==
    ASSUME NEW srs, Sound(srs), NEW round \in Nat, NEW before \in Bytes, NEW proof \in Proofs
    PROVE  /\ Holds(StateDir(srs, round, before, proof), round)
           /\ StateDir(srs, round, before, proof) # Error
<1> DEFINE dir == StateDir(srs, round, before, proof)
<1>1. srs \in Srs  BY DEF Sound
<1>2. ExportSrs(srs) \in Bytes  BY <1>1, ExportIsTyped
<1>3. dir \in Directories  BY <1>2 DEF StateDir, Directories, HashSrs, ContributionId
<1>4. LoadSrs(dir) = srs /\ HashIsAnnounced(dir)  BY <1>1, DirectoryHolds
<1>5. dir.state.round = round /\ dir.receipt.after_srs_hash = dir.state.srs_hash  BY DEF StateDir
<1>6. dir # Error
  <2>1. "srs" \in DOMAIN dir /\ "srs" \notin DOMAIN Error  BY DEF StateDir, Error
  <2> QED  BY <2>1
<1> HIDE DEF dir
<1>7. Holds(dir, round) /\ dir # Error  BY <1>3, <1>4, <1>5, <1>6 DEF Holds
<1> QED  BY <1>7 DEF dir

\* A proof is three pairs.
LEMMA ProofIsTyped ==
    ASSUME NEW delta \in Secrets, NEW mask \in Scalar
    PROVE  ContributionProof(delta, mask) \in Proofs
<1>1. delta.tau \in Scalar /\ delta.alpha \in Scalar /\ delta.beta \in Scalar  BY DEF Secrets
<1>2. Times(delta.tau, mask) \in Scalar /\ Times(delta.alpha, mask) \in Scalar
      /\ Times(delta.beta, mask) \in Scalar
  BY <1>1, ScalarTimes
<1> QED  BY <1>2 DEF ContributionProof, Proofs

-------------------------------------------------------------------------------
(* Honest contributions *)

Nonzero(s) == s.tau # 0 /\ s.alpha # 0 /\ s.beta # 0

Combined(s, delta) ==
    [tau |-> Times(s.tau, delta.tau), alpha |-> Times(s.alpha, delta.alpha),
     beta |-> Times(s.beta, delta.beta)]

\* Products of secrets are secrets.
LEMMA CombinedIsSecret ==
    ASSUME NEW s \in Secrets, NEW delta \in Secrets, Nonzero(s), Nonzero(delta)
    PROVE  Combined(s, delta) \in Secrets /\ Nonzero(Combined(s, delta))
<1>1. /\ s.tau \in Scalar \ {0} /\ s.alpha \in Scalar \ {0} /\ s.beta \in Scalar \ {0}
      /\ delta.tau \in Scalar \ {0} /\ delta.alpha \in Scalar \ {0} /\ delta.beta \in Scalar \ {0}
  BY DEF Secrets, Nonzero
<1>2. /\ Times(s.tau, delta.tau) \in Scalar /\ Times(s.alpha, delta.alpha) \in Scalar
      /\ Times(s.beta, delta.beta) \in Scalar
  BY <1>1, ScalarTimes
<1>3. /\ Times(s.tau, delta.tau) # 0 /\ Times(s.alpha, delta.alpha) # 0
      /\ Times(s.beta, delta.beta) # 0
  BY <1>1, TimesNonzero
<1> QED  BY <1>2, <1>3 DEF Combined, Secrets, Nonzero

\* Powers updated with powers are the powers of the product.
LEMMA UpdateCombines ==
    ASSUME NEW n \in Nat, n > 1, NEW s \in Scalar, NEW t \in Scalar, NEW c \in Scalar, NEW d \in Scalar
    PROVE  UpdatePowers(PowersOfScalar(s, c, n), t, d) = PowersOfScalar(Times(s, t), Times(c, d), n)
<1> DEFINE v == PowersOfScalar(s, c, n)
           w == PowersOfScalar(t, d, n)
           u == UpdatePowers(v, t, d)
           z == PowersOfScalar(Times(s, t), Times(c, d), n)
<1>1. Times(s, t) \in Scalar /\ Times(c, d) \in Scalar  BY ScalarTimes
<1>2. v \in Vector(n)  BY PowersFill
<1>3. u \in Vector(n) /\ \A i \in 1 .. n : u[i] = Times(v[i], w[i])  BY <1>2, UpdateFills
<1>4. \A i \in 1 .. n : v[i] = Times(c, Powers(s)[i - 1])  BY PowersAreTyped
<1>5. \A i \in 1 .. n : w[i] = Times(d, Powers(t)[i - 1])  BY PowersAreTyped
<1>6. z \in [1 .. n -> Scalar] /\ \A i \in 1 .. n : z[i] = Times(Times(c, d), Powers(Times(s, t))[i - 1])
  BY <1>1, PowersAreTyped
<1> HIDE DEF u, v, w, z
<1>7. ASSUME NEW i \in 1 .. n PROVE u[i] = z[i]
  <2>1. PICK k \in Nat : k = i - 1  OBVIOUS
  <2>2. PICK a \in Scalar : a = Powers(s)[k]  BY PowersStep
  <2>3. PICK b \in Scalar : b = Powers(t)[k]  BY PowersStep
  <2>4. Powers(Times(s, t))[k] = Times(a, b)  BY <2>2, <2>3, PowersOfAProduct
  <2>5. Times(Times(c, a), Times(d, b)) = Times(Times(c, d), Times(a, b))  BY ScalarExchange
  <2>6. u[i] = Times(Times(c, a), Times(d, b))  BY <1>3, <1>4, <1>5, <2>1, <2>2, <2>3
  <2>7. z[i] = Times(Times(c, d), Times(a, b))  BY <1>6, <2>1, <2>4
  <2> QED  BY <2>5, <2>6, <2>7
<1>8. u \in [1 .. n -> Scalar]  BY <1>3 DEF Vector
<1>9. u = z  BY <1>6, <1>7, <1>8
<1> QED  BY <1>9 DEF u, v, w, z

\* mod.rs, contribute: the SRS of some secrets becomes that of the products.
LEMMA ContributeCombines ==
    ASSUME NEW s \in Secrets, NEW delta \in Secrets, NEW size \in Sizes
    PROVE  Contribute(PowersOfSecrets(s, size), delta) = PowersOfSecrets(Combined(s, delta), size)
<1>1. /\ s.tau \in Scalar /\ s.alpha \in Scalar /\ s.beta \in Scalar
      /\ delta.tau \in Scalar /\ delta.alpha \in Scalar /\ delta.beta \in Scalar
  BY DEF Secrets
<1>2. PICK one \in Scalar : one = 1 /\ Times(one, one) = one  BY ScalarsAreNatural, TimesUnit
<1>3. PICK t \in Scalar : t = Times(s.tau, delta.tau)  BY <1>1, ScalarTimes
<1>4. /\ UpdatePowers(PowersOfScalar(s.tau, one, size.tau_g1), delta.tau, one)
           = PowersOfScalar(t, Times(one, one), size.tau_g1)
      /\ UpdatePowers(PowersOfScalar(s.tau, one, size.tau_g2), delta.tau, one)
           = PowersOfScalar(t, Times(one, one), size.tau_g2)
  BY <1>1, <1>3, SizeIsEnough, UpdateCombines
<1>5. UpdatePowers(PowersOfScalar(s.tau, s.alpha, size.alpha_tau_g1), delta.tau, delta.alpha)
        = PowersOfScalar(t, Times(s.alpha, delta.alpha), size.alpha_tau_g1)
  BY <1>1, <1>3, SizeIsEnough, UpdateCombines
<1>6. UpdatePowers(PowersOfScalar(s.tau, s.beta, size.beta_tau_g1), delta.tau, delta.beta)
        = PowersOfScalar(t, Times(s.beta, delta.beta), size.beta_tau_g1)
  BY <1>1, <1>3, SizeIsEnough, UpdateCombines
<1> QED  BY <1>2, <1>3, <1>4, <1>5, <1>6 DEF Contribute, PowersOfSecrets, Combined

\* Both sides of the equations that proof_matches compares.
LEMMA SecretMatches ==
    ASSUME NEW old \in Scalar, NEW secret \in Scalar, NEW mask \in Scalar
    PROVE  /\ Times(mask, Times(old, secret)) = Times(Times(secret, mask), old)
           /\ Times(Times(old, secret), mask) = Times(old, Times(secret, mask))
BY ScalarTimes, ScalarAssociates

(***************************************************************************)
(* mod.rs, contribute and verify_contribution: over the powers of any      *)
(* nonzero secrets, however many in each vector, a contribution with       *)
(* nonzero secrets and a nonzero mask passes its check, is the SRS of the  *)
(* products, and its receipt proves the contributed secrets.               *)
(***************************************************************************)
THEOREM HonestContributionIsAccepted ==
    ASSUME NEW s \in Secrets, NEW delta \in Secrets, NEW mask \in Scalar, NEW size \in Sizes,
           Nonzero(s), Nonzero(delta), mask # 0
    PROVE  LET before == PowersOfSecrets(s, size)
               after  == Contribute(before, delta)
               proof  == ContributionProof(delta, mask)
           IN  /\ after = PowersOfSecrets(Combined(s, delta), size)
               /\ VerifyContribution(before, after, proof)
               /\ Ratio(proof.tau_proof) = delta.tau
               /\ Ratio(proof.alpha_proof) = delta.alpha
               /\ Ratio(proof.beta_proof) = delta.beta
<1>1. PICK t \in Secrets : t = Combined(s, delta) /\ Nonzero(t)  BY CombinedIsSecret
<1>2. PICK old \in Srs : old = PowersOfSecrets(s, size)  BY PowersFields
<1>3. PICK new \in Srs : new = PowersOfSecrets(t, size)  BY PowersFields
<1>4. Contribute(old, delta) = new  BY <1>1, <1>2, <1>3, ContributeCombines
<1>5. /\ old.tau_g2[2] = s.tau /\ old.alpha_tau_g1[1] = s.alpha /\ old.beta_g2 = s.beta
  BY <1>2, PowersFields
<1>6. /\ new.tau_g1[2] = t.tau /\ new.tau_g2[2] = t.tau /\ new.alpha_tau_g1[1] = t.alpha
      /\ new.beta_tau_g1[1] = t.beta /\ new.beta_g2 = t.beta
  BY <1>3, PowersFields
<1>7. /\ t.tau = Times(s.tau, delta.tau) /\ t.alpha = Times(s.alpha, delta.alpha)
      /\ t.beta = Times(s.beta, delta.beta)
  BY <1>1 DEF Combined
<1>8. /\ s.tau \in Scalar /\ s.alpha \in Scalar /\ s.beta \in Scalar
      /\ delta.tau \in Scalar \ {0} /\ delta.alpha \in Scalar \ {0} /\ delta.beta \in Scalar \ {0}
      /\ t.tau \in Scalar /\ t.alpha \in Scalar /\ t.beta \in Scalar /\ mask \in Scalar \ {0}
  BY DEF Secrets, Nonzero
<1> DEFINE proof == ContributionProof(delta, mask)
<1>9. SrsIsNonzero(new)  BY <1>1, <1>6 DEF SrsIsNonzero, Nonzero
<1>10. HasTwoPowers(new)  BY <1>3, PowersFields
<1>11. ProofIsNonzero(proof)
  <2>1. Times(delta.tau, mask) # 0 /\ Times(delta.alpha, mask) # 0 /\ Times(delta.beta, mask) # 0
    BY <1>8, TimesNonzero
  <2> QED  BY <2>1 DEF ContributionProof, ProofIsNonzero
<1>12. ProofMatches(old, new, proof)
  <2>1. Times(mask, t.tau) = Times(Times(delta.tau, mask), s.tau)  BY <1>7, <1>8, SecretMatches
  <2>2. Times(t.alpha, mask) = Times(s.alpha, Times(delta.alpha, mask))  BY <1>7, <1>8, SecretMatches
  <2>3. Times(mask, t.beta) = Times(Times(delta.beta, mask), s.beta)  BY <1>7, <1>8, SecretMatches
  <2> QED  BY <1>5, <1>6, <2>1, <2>2, <2>3 DEF ProofMatches, Pairing, ContributionProof
<1>13. CrossChecks(new)
  <2>1. VerifyConsistency(new)  BY <1>1, <1>3, <1>9, PowersAreConsistent
  <2>2. Len(new.alpha_tau_g1) \in Nat /\ Len(new.beta_tau_g1) \in Nat
    BY SrsFields, SequenceIsVector
  <2>3. 1 \in 1 .. Len(new.alpha_tau_g1) - 1 /\ 1 \in 1 .. Len(new.beta_tau_g1) - 1
    BY <1>10, <2>2 DEF HasTwoPowers
  <2>4. /\ Pairing(new.alpha_tau_g1[1], new.tau_g2[2]) = Pairing(new.alpha_tau_g1[1 + 1], Generator)
        /\ Pairing(new.beta_tau_g1[1], new.tau_g2[2]) = Pairing(new.beta_tau_g1[1 + 1], Generator)
    BY <2>1, <2>2, <2>3 DEF VerifyConsistency, Geometric
  <2> QED  BY <2>1, <2>4 DEF CrossChecks, VerifyConsistency
<1>14. /\ Ratio(proof.tau_proof) = delta.tau /\ Ratio(proof.alpha_proof) = delta.alpha
       /\ Ratio(proof.beta_proof) = delta.beta
  BY <1>8, RatioOfASecret DEF ContributionProof
<1> HIDE DEF proof
<1>15. VerifyContribution(old, new, proof)
  BY <1>9, <1>10, <1>11, <1>12, <1>13 DEF VerifyContribution
<1> QED  BY <1>1, <1>2, <1>3, <1>4, <1>15, <1>14 DEF proof

-------------------------------------------------------------------------------
(* The products of what the receipts prove *)

Fields == {"tau_proof", "alpha_proof", "beta_proof"}

\* What the invariant says of one round,
LEMMA RoundIsHeld ==
    ASSUME RoundsInv, NEW n \in DOMAIN chain
    PROVE  /\ n \in 1 .. Len(chain)
           /\ chain[n] \in Directories
           /\ Sound(LoadSrs(chain[n])) /\ LoadSrs(chain[n]) \in Srs
           /\ HashIsAnnounced(chain[n])
           /\ chain[n].state.round = n - 1
           /\ chain[n].receipt.after_srs_hash = chain[n].state.srs_hash
           /\ chain[n].receipt.proof \in Proofs
<1>1. n \in 1 .. Len(chain) /\ Holds(chain[n], n - 1)  BY DEF RoundsInv, ChainTypeOK, ChainIsLinked
<1>2. chain[n] \in Directories /\ Sound(LoadSrs(chain[n]))  BY <1>1 DEF Holds
<1>3. chain[n].receipt.proof \in Proofs  BY <1>2 DEF Directories
<1> QED  BY <1>1, <1>2, <1>3 DEF Holds, Sound

\* of a round and the one before,
LEMMA RoundFollows ==
    ASSUME RoundsInv, NEW n \in 2 .. Len(chain)
    PROVE  /\ n \in DOMAIN chain /\ n - 1 \in DOMAIN chain
           /\ ArtifactsMatch(chain[n - 1], chain[n])
           /\ VerifyContribution(LoadSrs(chain[n - 1]), LoadSrs(chain[n]), chain[n].receipt.proof)
<1>1. PICK l \in Nat : l = Len(chain) /\ DOMAIN chain = 1 .. l  BY DEF RoundsInv, ChainTypeOK
<1>2. n \in 1 .. l /\ n - 1 \in 1 .. l  BY <1>1
<1>3. VerifyContributionArtifacts(chain[n - 1], chain[n])  BY DEF RoundsInv, ChainIsLinked
<1> QED  BY <1>1, <1>2, <1>3 DEF VerifyContributionArtifacts

\* and of the first.
LEMMA FirstRound ==
    ASSUME RoundsInv, 1 \in DOMAIN chain
    PROVE  VerifyInitialContribution(LoadSrs(chain[1]), chain[1].receipt.proof)
<1>1. chain # << >>
  <2>1. Len(chain) \in Nat /\ 1 \in 1 .. Len(chain)  BY DEF RoundsInv, ChainTypeOK
  <2> QED  BY <2>1
<1> QED  BY <1>1 DEF RoundsInv, ChainIsLinked

\* Every receipt has a ratio.
LEMMA RatioIsTyped ==
    ASSUME RoundsInv, NEW n \in DOMAIN chain, NEW field \in Fields
    PROVE  Ratio(chain[n].receipt.proof[field]) \in Scalar
<1> DEFINE proof == chain[n].receipt.proof
<1>1. proof \in Proofs /\ n \in 1 .. Len(chain)  BY RoundIsHeld
<1>2. ProofIsNonzero(proof)
  <2>1. CASE n = 1  BY <2>1, FirstRound DEF VerifyInitialContribution
  <2>2. CASE n # 1
    <3>1. n \in 2 .. Len(chain)
      <4>1. Len(chain) \in Nat  BY DEF RoundsInv, ChainTypeOK
      <4> QED  BY <1>1, <2>2, <4>1
    <3> QED  BY <3>1, RoundFollows DEF VerifyContribution
  <2> QED  BY <2>1, <2>2
<1> HIDE DEF proof
<1>3. proof[field] \in Scalar \X Scalar /\ proof[field][1] # 0
  BY <1>1, <1>2 DEF Proofs, Fields, ProofIsNonzero
<1>4. Ratio(proof[field]) \in Scalar  BY <1>3, RatioOfAPair
<1> QED  BY <1>4 DEF proof

\* The product of the ratios gains one with each round.
LEMMA ProductStep ==
    ASSUME RoundsInv, NEW field \in Fields
    PROVE  /\ Product(field, 0) = 1
           /\ \A n \in 0 .. Len(chain) : Product(field, n) \in Scalar
           /\ \A n \in 1 .. Len(chain) :
                 Product(field, n) = Times(Product(field, n - 1), Ratio(chain[n].receipt.proof[field]))
<1>1. PICK l \in Nat : l = Len(chain) /\ DOMAIN chain = 1 .. l  BY DEF RoundsInv, ChainTypeOK
<1> DEFINE r(i) == Ratio(chain[i].receipt.proof[field])
           v(n) == Ratios(field, n)
<1>2. \A i \in 1 .. l : r(i) \in Scalar  BY <1>1, RatioIsTyped
<1>3. \A n \in 0 .. l : v(n) = [i \in 1 .. n |-> r(i)]  BY DEF Ratios
<1> HIDE DEF r, v
<1>4. ASSUME NEW n \in 0 .. l
      PROVE  v(n) \in Seq(Scalar) /\ Len(v(n)) = n /\ \A i \in 1 .. n : v(n)[i] = r(i)
  <2>1. \A i \in 1 .. n : r(i) \in Scalar  BY <1>2
  <2>2. n \in Nat /\ v(n) = [i \in 1 .. n |-> r(i)]  BY <1>3
  <2>3. v(n) \in [1 .. n -> Scalar]  BY <2>1, <2>2
  <2>4. v(n) \in Seq(Scalar) /\ Len(v(n)) = n  BY <2>2, <2>3
  <2> QED  BY <2>2, <2>4
<1>5. \A n \in 0 .. l : Product(field, n) = Running(v(n))[n]  BY DEF Product, v
<1>6. ASSUME NEW n \in 0 .. l PROVE Product(field, n) \in Scalar
  <2>1. n \in 0 .. Len(v(n))  BY <1>4
  <2> QED  BY <1>4, <1>5, <2>1, RunningStep
<1>7. Product(field, 0) = 1
  <2>1. 0 \in 0 .. l  OBVIOUS
  <2> QED  BY <1>4, <1>5, <2>1, RunningStep
<1>8. ASSUME NEW n \in 1 .. l PROVE Product(field, n) = Times(Product(field, n - 1), r(n))
  <2>1. n \in 0 .. l /\ n - 1 \in 0 .. l /\ n - 1 \in Nat /\ n \in 1 .. n /\ n - 1 <= n
    OBVIOUS
  <2>2. Running(v(n))[n] = Times(Running(v(n))[n - 1], v(n)[n])
    <3>1. v(n) \in Seq(Scalar) /\ n \in 1 .. Len(v(n))  BY <1>4, <2>1
    <3> QED  BY <3>1, RunningStep
  <2>3. Running(v(n))[n - 1] = Running(v(n - 1))[n - 1]
    <3>1. PICK a \in Seq(Scalar) : a = v(n)  BY <1>4, <2>1
    <3>2. PICK b \in Seq(Scalar) : b = v(n - 1)  BY <1>4, <2>1
    <3>3. PICK m \in Nat : m = n - 1  BY <2>1
    <3>4. m <= Len(a) /\ m <= Len(b)  BY <1>4, <2>1, <3>1, <3>2, <3>3
    <3>5. \A i \in 1 .. m : i \in 1 .. n /\ i \in 1 .. n - 1  BY <3>3
    <3>6. \A i \in 1 .. m : a[i] = b[i]  BY <1>4, <2>1, <3>1, <3>2, <3>5
    <3>7. Running(a)[m] = Running(b)[m]  BY <3>4, <3>6, RunningAgrees
    <3> QED  BY <3>1, <3>2, <3>3, <3>7
  <2>4. v(n)[n] = r(n)  BY <1>4, <2>1
  <2> QED  BY <1>5, <2>1, <2>2, <2>3, <2>4
<1> QED  BY <1>1, <1>6, <1>7, <1>8 DEF r

(***************************************************************************)
(* What SecretsFollowReceipts says of one round.                           *)
(***************************************************************************)
SecretsFollow(n) ==
    /\ LoadSrs(chain[n]).tau_g1[2] = Product("tau_proof", n)
    /\ LoadSrs(chain[n]).tau_g2[2] = Product("tau_proof", n)
    /\ LoadSrs(chain[n]).alpha_tau_g1[1] = Product("alpha_proof", n)
    /\ LoadSrs(chain[n]).beta_g2 = Product("beta_proof", n)

\* The first round: the generators times what its receipt proves.
LEMMA FirstSecrets ==
    ASSUME RoundsInv, 1 \in DOMAIN chain
    PROVE  SecretsFollow(1)
<1> DEFINE srs == LoadSrs(chain[1])
           proof == chain[1].receipt.proof
<1>1. Sound(srs) /\ srs \in Srs /\ proof \in Proofs /\ 1 \in 1 .. Len(chain)  BY RoundIsHeld
<1>2. PICK one : one = [tau |-> 1, alpha |-> 1, beta |-> 1]  OBVIOUS
<1>3. one \in Secrets /\ one.tau = 1 /\ one.alpha = 1 /\ one.beta = 1
  BY <1>2, ScalarsAreNatural DEF Secrets
<1>4. PICK old \in Srs : old = Initialize(one) /\ HasTwoPowers(old)  BY <1>3, InitializeFields
<1>5. old.tau_g2[2] = 1 /\ old.alpha_tau_g1[1] = 1 /\ old.beta_g2 = 1  BY <1>3, <1>4, InitializeFields
<1>6. ProofIsNonzero(proof) /\ ProofMatches(old, srs, proof)
  BY <1>2, <1>4, FirstRound DEF VerifyInitialContribution
<1>7. \A field \in Fields :
         Product(field, 1) = Times(1, Ratio(proof[field]))
  <2>1. SUFFICES ASSUME NEW field \in Fields PROVE Product(field, 1) = Times(1, Ratio(proof[field]))
    OBVIOUS
  <2>2. Product(field, 0) = 1 /\ Product(field, 1) = Times(Product(field, 1 - 1), Ratio(proof[field]))
    BY <1>1, ProductStep
  <2> QED  BY <2>2
<1> HIDE DEF srs, proof
<1>8. /\ srs.tau_g2[2] = Times(1, Ratio(proof.tau_proof))
      /\ srs.alpha_tau_g1[1] = Times(1, Ratio(proof.alpha_proof))
      /\ srs.beta_g2 = Times(1, Ratio(proof.beta_proof))
  BY <1>1, <1>4, <1>5, <1>6, SecretsMove DEF Sound
<1>9. srs.tau_g1[2] = srs.tau_g2[2]  BY <1>1 DEF Sound
<1> QED  BY <1>7, <1>8, <1>9 DEF SecretsFollow, Fields, srs, proof

\* Every other round: its predecessor times what its receipt proves.
LEMMA NextSecrets ==
    ASSUME RoundsInv, NEW n \in 2 .. Len(chain), SecretsFollow(n - 1)
    PROVE  SecretsFollow(n)
<1> DEFINE old == LoadSrs(chain[n - 1])
           new == LoadSrs(chain[n])
           proof == chain[n].receipt.proof
<1>1. n \in DOMAIN chain /\ n - 1 \in DOMAIN chain  BY RoundFollows
<1>2. old \in Srs /\ new \in Srs /\ Sound(old) /\ Sound(new) /\ proof \in Proofs /\ n \in 1 .. Len(chain)
  BY <1>1, RoundIsHeld
<1>3. ProofIsNonzero(proof) /\ ProofMatches(old, new, proof)  BY RoundFollows DEF VerifyContribution
<1>4. \A field \in Fields : Product(field, n) = Times(Product(field, n - 1), Ratio(proof[field]))
  BY <1>2, ProductStep
<1>5. /\ old.tau_g2[2] = Product("tau_proof", n - 1)
      /\ old.alpha_tau_g1[1] = Product("alpha_proof", n - 1)
      /\ old.beta_g2 = Product("beta_proof", n - 1)
  BY DEF SecretsFollow
<1> HIDE DEF old, new, proof
<1>6. /\ new.tau_g2[2] = Times(old.tau_g2[2], Ratio(proof.tau_proof))
      /\ new.alpha_tau_g1[1] = Times(old.alpha_tau_g1[1], Ratio(proof.alpha_proof))
      /\ new.beta_g2 = Times(old.beta_g2, Ratio(proof.beta_proof))
  BY <1>2, <1>3, SecretsMove DEF Sound
<1>7. new.tau_g1[2] = new.tau_g2[2]  BY <1>2 DEF Sound
<1> QED  BY <1>4, <1>5, <1>6, <1>7 DEF SecretsFollow, Fields, new, proof

\* By induction over the rounds,
LEMMA SecretsFollowEverywhere ==
    ASSUME RoundsInv
    PROVE  \A n \in DOMAIN chain : SecretsFollow(n)
<1>1. PICK l \in Nat : l = Len(chain) /\ DOMAIN chain = 1 .. l  BY DEF RoundsInv, ChainTypeOK
<1> DEFINE P == {n \in Nat : n + 1 <= l => SecretsFollow(n + 1)}
<1>2. 0 \in P
  <2>1. SUFFICES ASSUME 1 <= l PROVE SecretsFollow(1)  OBVIOUS
  <2>2. 1 \in DOMAIN chain  BY <1>1, <2>1
  <2> QED  BY <2>2, FirstSecrets
<1>3. ASSUME NEW n \in Nat, n \in P PROVE n + 1 \in P
  <2>1. SUFFICES ASSUME (n + 1) + 1 <= l PROVE SecretsFollow((n + 1) + 1)  OBVIOUS
  <2>2. PICK m \in 2 .. l : m = (n + 1) + 1  BY <2>1
  <2>3. m - 1 = n + 1 /\ n + 1 <= l  BY <2>1, <2>2
  <2>4. SecretsFollow(m - 1)  BY <1>3, <2>3
  <2>5. SecretsFollow(m)  BY <1>1, <2>4, NextSecrets
  <2> QED  BY <2>2, <2>5
<1> HIDE DEF P
<1>4. \A n \in Nat : n \in P  BY <1>2, <1>3, SetInduction
<1>5. ASSUME NEW n \in 1 .. l PROVE SecretsFollow(n)
  <2>1. n - 1 \in Nat /\ (n - 1) + 1 = n /\ (n - 1) + 1 <= l  OBVIOUS
  <2> QED  BY <1>4, <2>1 DEF P
<1> QED  BY <1>1, <1>5

\* which is the property.
LEMMA SecretsFollowFromInv ==
    ASSUME RoundsInv
    PROVE  SecretsFollowReceipts
<1>1. SUFFICES ASSUME NEW n \in DOMAIN chain
               PROVE  /\ LoadSrs(chain[n]).tau_g1[2] = Contributed(n).tau
                      /\ LoadSrs(chain[n]).tau_g2[2] = Contributed(n).tau
                      /\ LoadSrs(chain[n]).alpha_tau_g1[1] = Contributed(n).alpha
                      /\ LoadSrs(chain[n]).beta_g2 = Contributed(n).beta
  BY DEF SecretsFollowReceipts
<1>2. SecretsFollow(n)  BY SecretsFollowEverywhere
<1> QED  BY <1>2 DEF SecretsFollow, Contributed

-------------------------------------------------------------------------------
(* The verdicts *)

LEMMA ConsistencyIsExact ==
    ASSUME RoundsInv, NEW n \in DOMAIN chain
    PROVE  VerifyConsistency(LoadSrs(chain[n])) <=> WellFormed(n)
<1>1. PICK srs : srs = LoadSrs(chain[n])  OBVIOUS
<1>2. PICK s : s = Contributed(n)  OBVIOUS
<1>3. Sound(srs) /\ srs \in Srs /\ n \in 1 .. Len(chain)  BY <1>1, RoundIsHeld
<1>4. s \in Secrets
  <2>1. Len(chain) \in Nat  BY DEF RoundsInv, ChainTypeOK
  <2>2. n \in 0 .. Len(chain)  BY <1>3, <2>1
  <2>3. Product("tau_proof", n) \in Scalar /\ Product("alpha_proof", n) \in Scalar
        /\ Product("beta_proof", n) \in Scalar
    BY <2>2, ProductStep DEF Fields
  <2> QED  BY <1>2, <2>3 DEF Contributed, Secrets
<1>5. srs.tau_g1[2] = s.tau /\ srs.alpha_tau_g1[1] = s.alpha /\ srs.beta_g2 = s.beta
  BY <1>1, <1>2, SecretsFollowEverywhere DEF SecretsFollow, Contributed
<1>6. ASSUME VerifyConsistency(srs) PROVE srs = PowersOfSecrets(s, SizeOf(srs))
  BY <1>3, <1>4, <1>5, <1>6, ConsistencyMeansPowers
<1>7. ASSUME srs = PowersOfSecrets(s, SizeOf(srs)) PROVE VerifyConsistency(srs)
  <2>1. PICK size \in Sizes : size = SizeOf(srs)  BY <1>3, FullVectors DEF Sound
  <2> QED  BY <1>3, <1>4, <1>7, <2>1, PowersAreConsistent DEF Sound
<1> QED  BY <1>1, <1>2, <1>6, <1>7 DEF WellFormed

\* verify-state,
LEMMA StateVerdict ==
    ASSUME RoundsInv, NEW n \in DOMAIN chain
    PROVE  VerifyState(chain[n]) <=> WellFormed(n)
<1>1. /\ HashIsAnnounced(chain[n]) /\ chain[n].receipt.after_srs_hash = chain[n].state.srs_hash
      /\ chain[n].state.round = n - 1 /\ n \in 1 .. Len(chain)
  BY RoundIsHeld
<1>2. chain[n].state.round = 0 => VerifyInitialContribution(LoadSrs(chain[n]), chain[n].receipt.proof)
  <2>1. SUFFICES ASSUME n - 1 = 0
                 PROVE  VerifyInitialContribution(LoadSrs(chain[n]), chain[n].receipt.proof)
    BY <1>1
  <2>2. n = 1  BY <1>1, <2>1
  <2> QED  BY <2>2, FirstRound
<1> QED  BY <1>1, <1>2, ConsistencyIsExact DEF VerifyState

\* phase2-summary,
LEMMA SummaryVerdict ==
    ASSUME RoundsInv, NEW n \in DOMAIN chain
    PROVE  Phase2Summary(chain[n]) # Error <=> WellFormed(n)
<1> DEFINE summary == [round |-> chain[n].state.round, phase1_srs_hash |-> chain[n].state.srs_hash,
                       phase1_contribution_id |-> chain[n].state.contribution_id]
<1>1. HashIsAnnounced(chain[n])  BY RoundIsHeld
<1>2. summary # Error
  <2>1. "round" \in DOMAIN summary /\ "round" \notin DOMAIN Error  BY DEF Error
  <2> QED  BY <2>1
<1>3. Phase2Summary(chain[n]) = IF HashIsAnnounced(chain[n]) /\ VerifyConsistency(LoadSrs(chain[n]))
                                THEN summary ELSE Error
  BY DEF Phase2Summary
<1> HIDE DEF summary
<1> QED  BY <1>1, <1>2, <1>3, ConsistencyIsExact

\* the browser's two checks,
LEMMA BrowserVerdict ==
    ASSUME RoundsInv, NEW n \in DOMAIN chain
    PROVE  IF n = 1 THEN VerifyStateJs(chain[n]) <=> WellFormed(n)
           ELSE VerifyContributionJs(chain[n - 1], chain[n])
<1>1. CASE n = 1
  <2>1. HashIsAnnounced(chain[n])  BY RoundIsHeld
  <2>2. VerifyInitialContribution(LoadSrs(chain[n]), chain[n].receipt.proof)  BY <1>1, FirstRound
  <2> QED  BY <1>1, <2>1, <2>2, ConsistencyIsExact DEF VerifyStateJs
<1>2. CASE n # 1
  <2>1. n \in 2 .. Len(chain)
    <3>1. n \in 1 .. Len(chain) /\ Len(chain) \in Nat  BY RoundIsHeld DEF RoundsInv, ChainTypeOK
    <3> QED  BY <1>2, <3>1
  <2>2. /\ ArtifactsMatch(chain[n - 1], chain[n])
        /\ VerifyContribution(LoadSrs(chain[n - 1]), LoadSrs(chain[n]), chain[n].receipt.proof)
    BY <2>1, RoundFollows
  <2>3. /\ chain[n].state.round = chain[n - 1].state.round + 1
        /\ chain[n].receipt.before_srs_hash = HashSrs(LoadSrs(chain[n - 1]))
    BY <2>2 DEF ArtifactsMatch, HashIsAnnounced
  <2> QED  BY <1>2, <2>2, <2>3 DEF VerifyContributionJs, ReceiptNamesBefore
<1> QED  BY <1>1, <1>2

\* and the check of a whole transcript.
LEMMA TranscriptVerdict ==
    ASSUME RoundsInv, chain # << >>
    PROVE  VerifyTranscript(Transcript, LoadSrs(HeadRound)) <=> \A n \in DOMAIN chain : WellFormed(n)
<1>1. PICK l \in Nat : l = Len(chain) /\ DOMAIN chain = 1 .. l /\ l > 0
  BY DEF RoundsInv, ChainTypeOK
<1> DEFINE entry(n) == [index |-> n - 1, srs_hash |-> chain[n].state.srs_hash,
                        srs |-> LoadSrs(chain[n]), proof |-> chain[n].receipt.proof]
           t == Transcript
<1>2. t = [n \in 1 .. l |-> entry(n)]  BY <1>1 DEF Transcript
<1> HIDE DEF t
<1>3. Len(t) = l /\ \A n \in 1 .. l : t[n] = entry(n)
  <2> HIDE DEF entry
  <2> QED  BY <1>2
<1>4. \A n \in 1 .. l : /\ t[n].index = n - 1 /\ t[n].srs_hash = chain[n].state.srs_hash
                        /\ t[n].srs = LoadSrs(chain[n]) /\ t[n].proof = chain[n].receipt.proof
  BY <1>3
<1> HIDE DEF entry
<1>5. \A n \in 1 .. l : chain[n].state.srs_hash = HashSrs(LoadSrs(chain[n]))
  BY <1>1, RoundIsHeld DEF HashIsAnnounced
<1>6. 1 \in 1 .. l /\ l \in 1 .. l  BY <1>1
<1>7. VerifyInitialContribution(t[1].srs, t[1].proof)  BY <1>1, <1>4, <1>6, FirstRound
<1>8. \A n \in 2 .. l : VerifyContribution(t[n - 1].srs, t[n].srs, t[n].proof)
  <2>1. SUFFICES ASSUME NEW n \in 2 .. l PROVE VerifyContribution(t[n - 1].srs, t[n].srs, t[n].proof)
    OBVIOUS
  <2>2. n \in 1 .. l /\ n - 1 \in 1 .. l  OBVIOUS
  <2> QED  BY <1>1, <1>4, <2>2, RoundFollows
<1>9. HashSrs(t[l].srs) = HashSrs(LoadSrs(HeadRound))  BY <1>1, <1>4, <1>6 DEF HeadRound
<1>10. VerifyTranscript(t, LoadSrs(HeadRound)) <=> \A n \in 1 .. l : VerifyConsistency(t[n].srs)
  BY <1>1, <1>3, <1>4, <1>5, <1>7, <1>8, <1>9 DEF VerifyTranscript
<1>11. (\A n \in 1 .. l : VerifyConsistency(t[n].srs)) <=> \A n \in DOMAIN chain : WellFormed(n)
  BY <1>1, <1>4, ConsistencyIsExact
<1> QED  BY <1>10, <1>11 DEF t

LEMMA VerdictsFromInv ==
    ASSUME RoundsInv
    PROVE  VerdictsAreExact
BY StateVerdict, SummaryVerdict, BrowserVerdict, TranscriptVerdict DEF VerdictsAreExact

-------------------------------------------------------------------------------
(* The steps *)

LEMMA RoundsInitially == ChainInit => RoundsInv
<1> SUFFICES ASSUME ChainInit PROVE RoundsInv  OBVIOUS
<1>1. chain = << >> /\ work = [p \in Participants |-> Error]  BY DEF ChainInit
<1>2. chain \in Seq(Directories) /\ Len(chain) = 0 /\ DOMAIN chain = 1 .. 0  BY <1>1
<1>3. ChainTypeOK  BY <1>1, <1>2 DEF ChainTypeOK
<1>4. WorkIsSound  BY <1>1 DEF WorkIsSound
<1>5. ChainIsLinked  BY <1>1, <1>2 DEF ChainIsLinked
<1> QED  BY <1>3, <1>4, <1>5 DEF RoundsInv

\* The seed is the powers of its secrets,
LEMMA SeedKeepsInv ==
    ASSUME RoundsInv, NEW s \in SecretChoices, NEW m \in MaskChoices, Seed(s, m)
    PROVE  RoundsInv'
<1>1. s \in Secrets /\ m \in Scalar  BY ChainAssumption
<1> DEFINE srs == Initialize(s)
           proof == ContributionProof(s, m)
           dir == StateDir(srs, 0, << >>, proof)
<1>2. VerifyInitialContribution(srs, proof) /\ chain' = <<dir>> /\ work' = work
  BY DEF Seed, InitState
<1>3. Sound(srs)
  BY <1>1, <1>2, InitializeFields DEF Sound, VerifyInitialContribution
<1>4. proof \in Proofs  BY <1>1, ProofIsTyped
<1>5. << >> \in Bytes /\ 0 \in Nat  BY EmptySeq DEF Bytes
<1>6. Holds(dir, 0)  BY <1>3, <1>4, <1>5, DirectoryIsHeld
<1>7. LoadSrs(dir) = srs /\ dir.receipt.proof = proof
  BY <1>3, DirectoryHolds DEF Sound, StateDir
<1> HIDE DEF srs, proof, dir
<1>8. dir \in Directories  BY <1>6 DEF Holds
<1>9. chain' \in Seq(Directories) /\ Len(chain') = 1 /\ chain'[1] = dir /\ DOMAIN chain' = 1 .. 1
  BY <1>2, <1>8
<1>10. ChainTypeOK'  BY <1>2, <1>9 DEF RoundsInv, ChainTypeOK
<1>11. WorkIsSound'  BY <1>2 DEF RoundsInv, WorkIsSound
<1>12. ChainIsLinked'
  <2>1. \A n \in DOMAIN chain' : Holds(chain'[n], n - 1)  BY <1>6, <1>9
  <2>2. VerifyInitialContribution(LoadSrs(chain'[1]), chain'[1].receipt.proof)  BY <1>2, <1>7, <1>9
  <2>3. 2 .. Len(chain') = {}  BY <1>9
  <2> QED  BY <2>1, <2>2, <2>3 DEF ChainIsLinked
<1> QED  BY <1>10, <1>11, <1>12 DEF RoundsInv

\* a computed contribution is sound if it passes, whatever went wrong in it,
LEMMA WorkKeepsInv ==
    ASSUME RoundsInv, NEW p \in Participants, NEW s \in SecretChoices, NEW m \in MaskChoices,
           NEW f \in FaultChoices, Work(p, s, m, f)
    PROVE  RoundsInv'
<1>1. s \in Secrets /\ m \in Scalar /\ f \in Faults  BY ChainAssumption
<1>2. chain' = chain /\ work' = [work EXCEPT ![p] = ContributeState(HeadRound, s, m, f)]
      /\ chain # << >>
  BY DEF Work
<1> DEFINE dir == HeadRound
           before == LoadSrs(dir)
           after == Damaged(Contribute(before, s), f)
           proof == ContributionProof(s, m)
           made == ContributeState(dir, s, m, f)
           new == StateDir(after, dir.state.round + 1, dir.state.srs_hash, proof)
<1>3. Holds(dir, dir.state.round)
  <2>1. Len(chain) \in DOMAIN chain
    <3>1. PICK l \in Nat : l = Len(chain) /\ DOMAIN chain = 1 .. l /\ l > 0
      BY <1>2 DEF RoundsInv, ChainTypeOK
    <3> QED  BY <3>1
  <2>2. Holds(chain[Len(chain)], Len(chain) - 1)  BY <2>1 DEF RoundsInv, ChainIsLinked
  <2> QED  BY <2>2 DEF Holds, HeadRound
<1>4. dir \in Directories /\ Sound(before)  BY <1>3 DEF Holds
<1>5. dir.state.round + 1 \in Nat /\ dir.state.srs_hash \in Bytes  BY <1>4 DEF Directories
<1>6. proof \in Proofs  BY <1>1, ProofIsTyped
<1>7. made # Error =>
         Holds(made, made.state.round) /\ made.state.round > 0 /\ made \in Directories
  <2>1. SUFFICES ASSUME made # Error
                 PROVE  Holds(made, made.state.round) /\ made.state.round > 0 /\ made \in Directories
    OBVIOUS
  <2>2. made = new /\ VerifyContribution(before, after, proof)  BY <2>1 DEF ContributeState
  <2>3. Sound(after)
    <3>1. before \in Srs /\ HasTwoPowers(before)  BY <1>4 DEF Sound
    <3>2. PICK c \in Srs : c = Contribute(before, s) /\ HasTwoPowers(c)
      BY <1>1, <3>1, ContributeFields
    <3>3. after \in Srs  BY <1>1, <3>2, DamagedIsTyped
    <3> QED  BY <2>2, <3>3, AcceptedIsSound
  <2>4. Holds(new, dir.state.round + 1)  BY <1>5, <1>6, <2>3, DirectoryIsHeld
  <2>5. dir.state.round + 1 > 0  BY <1>4 DEF Directories
  <2> HIDE DEF new, made
  <2> QED  BY <2>2, <2>4, <2>5 DEF Holds
<1> HIDE DEF made, dir
<1>8. work' = [work EXCEPT ![p] = made]  BY <1>2 DEF made, dir
<1>9. ChainTypeOK'
  <2>1. made \in Directories \cup {Error}  BY <1>7
  <2> QED  BY <1>2, <1>8, <2>1 DEF RoundsInv, ChainTypeOK
<1>10. WorkIsSound'
  <2>1. SUFFICES ASSUME NEW q \in Participants, work'[q] # Error
                 PROVE  Holds(work'[q], work'[q].state.round) /\ work'[q].state.round > 0
    BY DEF WorkIsSound
  <2>2. work'[q] = IF q = p THEN made ELSE work[q]  BY <1>8 DEF RoundsInv, ChainTypeOK
  <2>3. CASE q = p  BY <1>7, <2>1, <2>2, <2>3
  <2>4. CASE q # p  BY <2>1, <2>2, <2>4 DEF RoundsInv, WorkIsSound
  <2> QED  BY <2>3, <2>4
<1>11. ChainIsLinked'  BY <1>2 DEF RoundsInv, ChainIsLinked
<1> QED  BY <1>9, <1>10, <1>11 DEF RoundsInv

\* and an upload is checked against the last round.
LEMMA UploadKeepsInv ==
    ASSUME RoundsInv, NEW p \in Participants, Upload(p)
    PROVE  RoundsInv'
<1>1. PICK dir : dir = work[p]  OBVIOUS
<1>2. PICK l \in Nat : l = Len(chain) /\ DOMAIN chain = 1 .. l  BY DEF RoundsInv, ChainTypeOK
<1>3. /\ dir # Error /\ dir.state.round = l /\ VerifyContributionArtifacts(chain[l], dir)
      /\ chain' = Append(chain, dir) /\ work' = work
  BY <1>1, <1>2 DEF Upload, HeadRound
<1>4. Holds(dir, l) /\ dir \in Directories  BY <1>1, <1>3 DEF RoundsInv, WorkIsSound, Holds
<1>5. /\ chain' \in Seq(Directories) /\ Len(chain') = l + 1 /\ DOMAIN chain' = 1 .. l + 1
      /\ \A n \in 1 .. l : chain'[n] = chain[n]
      /\ chain'[l + 1] = dir
  <2>1. chain \in Seq(Directories)  BY DEF RoundsInv, ChainTypeOK
  <2> QED  BY <1>2, <1>3, <1>4, <2>1, AppendProperties
<1>6. l > 0  BY <1>1, <1>3 DEF RoundsInv, WorkIsSound
<1>7. ChainTypeOK'  BY <1>3, <1>5 DEF RoundsInv, ChainTypeOK
<1>8. WorkIsSound'  BY <1>3 DEF RoundsInv, WorkIsSound
<1>9. ChainIsLinked'
  <2>1. ASSUME NEW n \in 1 .. l + 1 PROVE Holds(chain'[n], n - 1)
    <3>1. CASE n = l + 1  BY <1>4, <1>5, <3>1
    <3>2. CASE n # l + 1
      <4>1. n \in 1 .. l  BY <3>2
      <4> QED  BY <1>2, <1>5, <4>1 DEF RoundsInv, ChainIsLinked
    <3> QED  BY <3>1, <3>2
  <2>2. VerifyInitialContribution(LoadSrs(chain'[1]), chain'[1].receipt.proof)
    <3>1. 1 \in 1 .. l  BY <1>6
    <3> QED  BY <1>2, <1>5, <3>1, FirstRound
  <2>3. ASSUME NEW n \in 2 .. l + 1 PROVE VerifyContributionArtifacts(chain'[n - 1], chain'[n])
    <3>1. n - 1 \in 1 .. l  OBVIOUS
    <3>2. CASE n = l + 1
      <4>1. n - 1 = l  BY <3>2
      <4> QED  BY <1>3, <1>5, <3>1, <3>2, <4>1
    <3>3. CASE n # l + 1
      <4>1. n \in 1 .. l /\ n \in 2 .. l  BY <3>3
      <4> QED  BY <1>2, <1>5, <3>1, <4>1 DEF RoundsInv, ChainIsLinked
    <3> QED  BY <3>2, <3>3
  <2> QED  BY <1>5, <2>1, <2>2, <2>3 DEF ChainIsLinked
<1> QED  BY <1>7, <1>8, <1>9 DEF RoundsInv

(***************************************************************************)
(* The contents of phase 1: every round is a sound SRS, in a directory that *)
(* agrees with itself, and was checked against the round before it; what a *)
(* participant holds is sound before anyone else has checked it.           *)
(***************************************************************************)
THEOREM RoundsInvariant == ChainSpec => []RoundsInv
<1>1. ChainInit => RoundsInv  BY RoundsInitially
<1>2. RoundsInv /\ [ChainNext]_chainVars => RoundsInv'
  <2> SUFFICES ASSUME RoundsInv, [ChainNext]_chainVars PROVE RoundsInv'  OBVIOUS
  <2>1. ASSUME NEW s \in SecretChoices, NEW m \in MaskChoices, Seed(s, m) PROVE RoundsInv'
    BY <2>1, SeedKeepsInv
  <2>2. ASSUME NEW p \in Participants, NEW s \in SecretChoices, NEW m \in MaskChoices,
               NEW f \in FaultChoices, Work(p, s, m, f)
        PROVE  RoundsInv'
    BY <2>2, WorkKeepsInv
  <2>3. ASSUME NEW p \in Participants, Upload(p) PROVE RoundsInv'
    BY <2>3, UploadKeepsInv
  <2>4. CASE UNCHANGED chainVars
    BY <2>4 DEF chainVars, RoundsInv, ChainTypeOK, WorkIsSound, ChainIsLinked
  <2> QED  BY <2>1, <2>2, <2>3, <2>4 DEF ChainNext
<1> QED  BY <1>1, <1>2, PTL DEF ChainSpec

(***************************************************************************)
(* mod.rs, verify_contribution and upload.rs: for every prime order, degree, *)
(* number of participants and rounds and every fault, the secrets in each  *)
(* accepted round are the products of what the receipts prove.             *)
(***************************************************************************)
THEOREM SecretsAlwaysFollowReceipts == ChainSpec => []SecretsFollowReceipts
<1>1. RoundsInv => SecretsFollowReceipts  BY SecretsFollowFromInv
<1> QED  BY <1>1, RoundsInvariant, PTL

(***************************************************************************)
(* mod.rs, verify_consistency: verify-state, the freeze's summary, the     *)
(* browser's verify-state and the check of a transcript accept an accepted *)
(* round, of whatever size and with whatever points, just when its points  *)
(* are the powers of the contributed secrets.                              *)
(***************************************************************************)
THEOREM VerdictsAreAlwaysExact == ChainSpec => []VerdictsAreExact
<1>1. RoundsInv => VerdictsAreExact  BY VerdictsFromInv
<1> QED  BY <1>1, RoundsInvariant, PTL
===============================================================================

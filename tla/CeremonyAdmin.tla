---------------------------- MODULE CeremonyAdmin ----------------------------
(***************************************************************************)
(* The coordinator's administration: requests signed as Nostr events       *)
(* (ceremony-coordinator/src/auth.rs) that freeze phase 1, announce the    *)
(* beacon and record the rounds of phase 2 (handlers/phase2.rs), and the   *)
(* tables nip98_replay, ceremony_state and phase2_rounds (store.rs).       *)
(*                                                                         *)
(* A request is a task and every SQL statement or call to Blossom a step.  *)
(* A signed event can be sent any number of times: its sender retries, or  *)
(* a proxy does.  The handlers take no lock.                               *)
(***************************************************************************)
EXTENDS Integers

CONSTANTS
    Requests,       \* requests served at the same time
    Events,         \* ids of signed events
    Admins,         \* config.admin_pubkeys
    Others,         \* pubkeys that are not admins
    Heights,        \* block heights of the beacon
    Hashes,         \* block hashes
    Rounds,         \* phase 2 rounds of one tier
    Zkeys,          \* zkey files; a file and its SHA-256 have one name
    Null,           \* SQL NULL, a missing JSON field
    MaxAge,         \* MAX_AGE_SECS
    MaxTime         \* bound: the last value of the clock

ASSUME AdminAssumption ==
    /\ {MaxAge, MaxTime} \subseteq Nat
    /\ Admins \cap Others = {}
    /\ Null \notin Heights \cup Hashes \cup Zkeys \cup Nat
    /\ Null \notin [zkey : Zkeys, blob : Zkeys \cup {Null}, at : Nat, via : {"publish", "upload"}]

VARIABLES
    now,        \* now_unix()
    signed,     \* the signed events, by id; Null before
    seen,       \* nip98_replay: seen_at by event id, Null when absent
    state,      \* ceremony_state, the row with id = 1
    rounds2,    \* phase2_rounds of one tier, by round; Null when absent
    blobs,      \* what Blossom stores
    task,       \* the requests being served
    effects     \* history: how many times each event has taken effect

adminVars == <<now, signed, seen, state, rounds2, blobs, task, effects>>

-------------------------------------------------------------------------------
(* Data *)

OrNull(S) == S \cup {Null}

Time == Nat

FreezeRequest == [height : OrNull(Heights)]
BeaconRequest == [height : Heights, hash : OrNull(Hashes)]
RoundRequest  == [round : Rounds, zkey : Zkeys, blob : OrNull(Zkeys)]
UploadRequest == [round : Rounds, zkey : Zkeys, file : Zkeys]

Bodies == [freeze |-> FreezeRequest, beacon |-> BeaconRequest,
           publish |-> RoundRequest, upload |-> UploadRequest]

Op == {"freeze", "beacon", "publish", "upload"}

\* What the payload tag names; the tag of an upload is not looked at.
Payload(o) == IF o = "upload" THEN {Null} ELSE Bodies[o]

\* bound: stamps up to one MaxAge after the last value of the clock.
Stamp == 0 .. MaxTime + MaxAge

EventOf(o) == [op : {o}, pubkey : Admins \cup Others, at : Stamp, payload : Payload(o)]

Event == UNION {EventOf(o) : o \in Op}

CeremonyState == [frozen : BOOLEAN, frozenAt : OrNull(Time), frozenBy : OrNull(Admins),
                  height : OrNull(Heights), hash : OrNull(Hashes), appliedAt : OrNull(Time)]

\* `via` is the handler that wrote the row last; the table has no such column.
Phase2Round == [zkey : Zkeys, blob : OrNull(Zkeys), at : Time, via : {"publish", "upload"}]

Idle == [pc |-> "idle"]

Pc == {"mark", "act", "beacon", "insert"}

TaskOf(o) == [pc : Pc, id : Events, op : {o}, pubkey : Admins \cup Others, body : Bodies[o]]

Task == UNION {TaskOf(o) : o \in Op}

AdminInit ==
    /\ now = 0
    /\ signed = [e \in Events |-> Null]
    /\ seen = [e \in Events |-> Null]
    /\ state = [frozen |-> FALSE, frozenAt |-> Null, frozenBy |-> Null,
                height |-> Null, hash |-> Null, appliedAt |-> Null]
    /\ rounds2 = [r \in Rounds |-> Null]
    /\ blobs = {}
    /\ task = [t \in Requests |-> Idle]
    /\ effects = [e \in Events |-> 0]

At(t, pc) == task[t].pc = pc

Goto(t, pc) == task' = [task EXCEPT ![t] = [@ EXCEPT !.pc = pc]]
Done(t)     == task' = [task EXCEPT ![t] = Idle]

\* The first statement of a handler takes effect.
Effect(t) == effects' = [effects EXCEPT ![task[t].id] = @ + 1]

-------------------------------------------------------------------------------
(* Signing and sending.  A client's clock may differ from the server's. *)

Sign(e, event) ==
    /\ signed[e] = Null
    /\ event.at - now \in -MaxAge .. MaxAge
    /\ signed' = [signed EXCEPT ![e] = event]
    /\ UNCHANGED <<now, seen, state, rounds2, blobs, task, effects>>

\* verify_nip98 up to the replay table; an event that fails changes nothing.
Fresh(event) == now - event.at \in -MaxAge .. MaxAge

EmptyBody == [height |-> Null]

PayloadMatches(event, body) ==
    \/ event.op = "upload"
    \/ event.op = "freeze" /\ body = EmptyBody
    \/ body = event.payload

Arrive(t, e, body) ==
    /\ task[t] = Idle
    /\ signed[e] # Null
    /\ body \in Bodies[signed[e].op]
    /\ Fresh(signed[e]) /\ PayloadMatches(signed[e], body)
    /\ task' = [task EXCEPT ![t] = [pc |-> "mark", id |-> e, op |-> signed[e].op,
                                    pubkey |-> signed[e].pubkey, body |-> body]]
    /\ UNCHANGED <<now, signed, seen, state, rounds2, blobs, effects>>

IsAdmin(pubkey) == pubkey \in Admins

\* Mutant: an id counts as new again when an event signed when it came is stale.
MarkSeenForAnAge(t) ==
    LET e == task[t].id
        fresh == seen[e] = Null \/ seen[e] < now - MaxAge
    IN  /\ At(t, "mark")
        /\ seen' = [seen EXCEPT ![e] = IF fresh THEN now ELSE @]
        /\ IF fresh /\ IsAdmin(task[t].pubkey) THEN Goto(t, "act") ELSE Done(t)
        /\ UNCHANGED <<now, signed, state, rounds2, blobs, effects>>

\* INSERT OR IGNORE tells whether the id is new.  Only then comes is_admin.
MarkSeen(t) ==
    LET e == task[t].id
    IN  /\ At(t, "mark")
        /\ seen' = [seen EXCEPT ![e] = IF @ = Null THEN now ELSE @]
        /\ IF seen[e] = Null /\ IsAdmin(task[t].pubkey) THEN Goto(t, "act") ELSE Done(t)
        /\ UNCHANGED <<now, signed, state, rounds2, blobs, effects>>

-------------------------------------------------------------------------------
(* What the handlers write *)

FreezePhase1(t) ==
    LET body == task[t].body
    IN  /\ At(t, "act") /\ task[t].op = "freeze"
        /\ state' = [state EXCEPT !.frozen = TRUE, !.frozenAt = now, !.frozenBy = task[t].pubkey]
        /\ Effect(t)
        /\ IF body.height # Null THEN Goto(t, "beacon") ELSE Done(t)
        /\ UNCHANGED <<now, signed, seen, rounds2, blobs>>

WithBeacon(height, hash) ==
    [state EXCEPT !.height = height, !.hash = hash, !.appliedAt = IF hash = Null THEN Null ELSE now]

\* A freeze with a height announces it, and drops the hash there was.
FreezeBeacon(t) ==
    /\ At(t, "beacon")
    /\ state' = WithBeacon(task[t].body.height, Null)
    /\ Done(t)
    /\ UNCHANGED <<now, signed, seen, rounds2, blobs, effects>>

SetBeacon(t) ==
    /\ At(t, "act") /\ task[t].op = "beacon"
    /\ state' = WithBeacon(task[t].body.height, task[t].body.hash)
    /\ Effect(t) /\ Done(t)
    /\ UNCHANGED <<now, signed, seen, rounds2, blobs>>

\* INSERT ... ON CONFLICT DO UPDATE.
\* Mutant: a record without a blob clears the one there is.
UpsertedClearing(r, zkey, blob, via) ==
    [zkey |-> zkey, blob |-> blob, via |-> via,
     at |-> IF rounds2[r] = Null THEN now ELSE rounds2[r].at]

Upserted(r, zkey, blob, via) ==
    LET old == rounds2[r]
    IN  [zkey |-> zkey,
         blob |-> IF blob = Null /\ old # Null THEN old.blob ELSE blob,
         at   |-> IF old = Null THEN now ELSE old.at,
         via  |-> via]

PublishRound(t) ==
    LET body == task[t].body
    IN  /\ At(t, "act") /\ task[t].op = "publish"
        /\ rounds2' = [rounds2 EXCEPT ![body.round] =
                          Upserted(body.round, body.zkey, body.blob, "publish")]
        /\ Effect(t) /\ Done(t)
        /\ UNCHANGED <<now, signed, seen, state, blobs>>

UploadMatches(body) == body.zkey = body.file

PutZkey(t) ==
    LET body == task[t].body
    IN  /\ At(t, "act") /\ task[t].op = "upload"
        /\ IF UploadMatches(body)
           THEN blobs' = blobs \cup {body.file} /\ Goto(t, "insert")
           ELSE blobs' = blobs /\ Done(t)
        /\ UNCHANGED <<now, signed, seen, state, rounds2, effects>>

RecordUpload(t) ==
    LET body == task[t].body
    IN  /\ At(t, "insert")
        /\ rounds2' = [rounds2 EXCEPT ![body.round] =
                          Upserted(body.round, body.zkey, body.file, "upload")]
        /\ Effect(t) /\ Done(t)
        /\ UNCHANGED <<now, signed, seen, state, blobs>>

\* A statement or the Blossom call fails: 500 or 502, and the event is used up.
FailRequest(t) ==
    /\ task[t] # Idle
    /\ Done(t)
    /\ UNCHANGED <<now, signed, seen, state, rounds2, blobs, effects>>

-------------------------------------------------------------------------------
(* Crashes and time.  cleanup_replay is called by nobody. *)

\* Mutant: seen ids live in the process.
RestartForgetting ==
    /\ \E t \in Requests : task[t] # Idle
    /\ task' = [t \in Requests |-> Idle]
    /\ seen' = [e \in Events |-> Null]
    /\ UNCHANGED <<now, signed, state, rounds2, blobs, effects>>

AdminRestart ==
    /\ \E t \in Requests : task[t] # Idle
    /\ task' = [t \in Requests |-> Idle]
    /\ UNCHANGED <<now, signed, seen, state, rounds2, blobs, effects>>

AdminTick ==
    /\ now < MaxTime
    /\ now' = now + 1
    /\ UNCHANGED <<signed, seen, state, rounds2, blobs, task, effects>>

RequestStep(t) ==
    \/ \E e \in Events : signed[e] # Null /\ \E body \in Bodies[signed[e].op] : Arrive(t, e, body)
    \/ MarkSeen(t)
    \/ FreezePhase1(t) \/ FreezeBeacon(t) \/ SetBeacon(t)
    \/ PublishRound(t)
    \/ PutZkey(t) \/ RecordUpload(t)
    \/ FailRequest(t)

AdminNext ==
    \/ \E e \in Events, o \in Op : \E event \in EventOf(o) : Sign(e, event)
    \/ \E t \in Requests : RequestStep(t)
    \/ AdminRestart
    \/ AdminTick

AdminSpec == AdminInit /\ [][AdminNext]_adminVars

-------------------------------------------------------------------------------
(* Properties *)

(***************************************************************************)
(* The type of the administration's tables and of the requests under way.  *)
(***************************************************************************)
AdminTypeOK ==
    /\ now \in Time
    /\ signed \in [Events -> Event \cup {Null}]
    /\ seen \in [Events -> OrNull(Time)]
    /\ state \in CeremonyState
    /\ rounds2 \in [Rounds -> Phase2Round \cup {Null}]
    /\ blobs \subseteq Zkeys
    /\ task \in [Requests -> Task \cup {Idle}]
    /\ effects \in [Events -> Nat]

(***************************************************************************)
(* auth.rs, verify_nip98: a signed event takes effect at most once, however*)
(* often it is sent, whatever the requests that carry it do at the same    *)
(* time, and across restarts.                                              *)
(***************************************************************************)
AppliedOnce == \A e \in Events : effects[e] <= 1

(***************************************************************************)
(* phase2.rs, upload_round: the zkey of a round that was last uploaded can *)
(* be downloaded, and is the file whose hash the round announces.          *)
(***************************************************************************)
UploadedZkeyIsStored ==
    \A r \in Rounds :
        (rounds2[r] # Null /\ rounds2[r].via = "upload")
            => rounds2[r].blob = rounds2[r].zkey /\ rounds2[r].blob \in blobs

(***************************************************************************)
(* phase2.rs, insert_phase2_round: a round once recorded stays recorded    *)
(* under its first date, and never loses the blob it names.                *)
(***************************************************************************)
RoundKeepsItsBlob ==
    [][\A r \in Rounds : rounds2[r] # Null =>
          /\ rounds2'[r] # Null /\ rounds2'[r].at = rounds2[r].at
          /\ rounds2[r].blob # Null => rounds2'[r].blob # Null]_adminVars
===============================================================================

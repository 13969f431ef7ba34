-------------------------------- MODULE Relayer --------------------------------
(***************************************************************************)
(* The transaction relayer (relayer/src): one HTTP endpoint that checks a  *)
(* token, a rate limit and the request, writes the proof and the public    *)
(* inputs to files, and runs the `stellar` command on them.  The names of  *)
(* the files hold the process id and nothing else, so all requests of a    *)
(* process share them, and one request can run while another writes.       *)
(***************************************************************************)
EXTENDS Naturals, FiniteSets

CONSTANTS
    Slots,          \* requests served at the same time
    Clients,        \* IP addresses
    Requested,      \* the requests that clients send
    AuthTokens,     \* config.auth_tokens; empty: no token is needed
    ContractId,     \* config.contract_id
    Missing,        \* a field or a header that is not there
    Malformed,      \* a field that is there and cannot be decoded
    MaxPerMinute,   \* RELAYER_RATE_LIMIT
    Window,         \* 60 seconds
    MaxClock,       \* bound: the last value of the clock
    MaxServed,      \* bound: requests
    MaxRelayerRestarts  \* bound: restarts of the process

ASSUME RelayerAssumption ==
    /\ {MaxPerMinute, Window, MaxClock, MaxServed} \subseteq Nat \ {0}
    /\ MaxRelayerRestarts \in Nat

VARIABLES
    clock,
    buckets,    \* RateLimiter.buckets
    file,       \* the temporary files, by kind
    serving,    \* what each slot does
    served, relayerRestarts

relayerVars == <<clock, buckets, file, serving, served, relayerRestarts>>

-------------------------------------------------------------------------------
(* validation.rs *)

ReadOnly == {"verify_membership", "get_state", "get_state_v2", "get_admin_root", "get_history"}

Submitting == {"create_group", "create_group_v2", "create_oligarchy_group", "update_commitment",
               "consume_membership_proof", "deactivate_group"}

ProofFunctions == Submitting \cup {"verify_membership"}

AllowedFunctions == Submitting \cup ReadOnly

Authorized(r) == AuthTokens = {} \/ r.token \in AuthTokens

\* A proof that is not there passes here.
Validated(r) ==
    /\ r.contract = ContractId
    /\ r.function \in AllowedFunctions
    /\ r.function \in ProofFunctions => r.proof # Malformed

Bucket(client) ==
    LET old == buckets[client]
    IN  IF old = Missing \/ clock - old.start >= Window
        THEN [start |-> clock, count |-> 0] ELSE old

Counted(client) == [Bucket(client) EXCEPT !.count = @ + 1]

WithinLimit(client) == Counted(client).count <= MaxPerMinute

-------------------------------------------------------------------------------
(* handler.rs: what each function sends, in this order: plain arguments,   *)
(* the proof, the public inputs.                                           *)

\* field_value: the first spelling that is there decides.
FieldValue(payload, keys) ==
    IF payload[keys[1]] # Missing THEN payload[keys[1]] ELSE payload[keys[2]]

GroupId(r) == FieldValue(r.group, <<"group_id", "groupID">>)

ArgumentsPresent(r) == GroupId(r) \notin {Missing, Malformed} /\ r.rest # Missing

\* The file of a function's public inputs.
InputsFile(function) == IF function = "update_commitment" THEN "update_inputs" ELSE "inputs"

Files == {"proof", "inputs", "update_inputs"}

Torn == "torn"      \* fs::write has truncated the file and not written it yet

Decoded == AllowedFunctions

Free == [pc |-> "free"]

InService(t) == serving[t].pc \notin {"free", "answered"}

RelayerInit ==
    /\ clock = 0
    /\ buckets = [c \in Clients |-> Missing]
    /\ file = [f \in Files |-> Missing]
    /\ serving = [t \in Slots |-> Free]
    /\ served = 0 /\ relayerRestarts = 0

Is(t, pc) == serving[t].pc = pc

Goes(t, pc) == serving' = [serving EXCEPT ![t].pc = pc]

\* What is left of a request: its answer, and what the command did.
Answered(r, status, ran, landed) ==
    [pc |-> "answered", function |-> r.function, status |-> status, ran |-> ran, landed |-> landed]

Answer(t, status) ==
    serving' = [serving EXCEPT ![t] = Answered(@.request, status, @.ran, @.landed)]

Elsewhere == UNCHANGED <<clock, buckets, served, relayerRestarts>>

-------------------------------------------------------------------------------
(* handle_invoke *)

Entered(r, alone) ==
    [pc |-> "arguments", request |-> r, alone |-> alone,
     proof |-> Missing, inputs |-> Missing, landed |-> FALSE, ran |-> FALSE]

Refuse(t, r, status) == serving' = [serving EXCEPT ![t] = Answered(r, status, FALSE, FALSE)]

\* A request in service is no longer alone when another enters.
Enter(t, r) ==
    serving' =
        [u \in Slots |->
            IF u = t THEN Entered(r, \A v \in Slots \ {t} : ~InService(v))
            ELSE IF InService(u) THEN [serving[u] EXCEPT !.alone = FALSE] ELSE serving[u]]

\* The checks in their order: a request without a token is not counted, one
\* that is not valid is.
HandleInvoke(t, client, r) ==
    /\ ~InService(t) /\ served < MaxServed
    /\ served' = served + 1
    /\ IF ~Authorized(r)
       THEN Refuse(t, r, 401) /\ UNCHANGED buckets
       ELSE /\ buckets' = [buckets EXCEPT ![client] = Counted(client)]
            /\ IF ~WithinLimit(client) THEN Refuse(t, r, 429)
               ELSE IF Validated(r) THEN Enter(t, r) ELSE Refuse(t, r, 400)
    /\ UNCHANGED <<clock, file, relayerRestarts>>

\* add_hex_arg, add_int_arg: nothing has been written when one of them fails.
Arguments(t) ==
    LET r == serving[t].request
    IN  /\ Is(t, "arguments")
        /\ IF ~ArgumentsPresent(r) THEN Answer(t, 502)
           ELSE Goes(t, IF r.function \in ProofFunctions THEN "proof" ELSE "send")
        /\ Elsewhere /\ UNCHANGED file

Truncate(f) == file' = [file EXCEPT ![f] = Torn]

OpenProof(t) ==
    /\ Is(t, "proof")
    /\ IF serving[t].request.proof \in {Missing, Malformed}
       THEN Answer(t, 502) /\ UNCHANGED file
       ELSE Truncate("proof") /\ Goes(t, "write_proof")
    /\ Elsewhere

WriteProof(t) ==
    /\ Is(t, "write_proof")
    /\ file' = [file EXCEPT !["proof"] = serving[t].request.proof]
    /\ Goes(t, "inputs")
    /\ Elsewhere

\* A request without public inputs fails when its proof is written already.
OpenInputs(t) ==
    LET r == serving[t].request
    IN  /\ Is(t, "inputs")
        /\ IF r.inputs \in {Missing, Malformed}
           THEN Answer(t, 502) /\ UNCHANGED file
           ELSE Truncate(InputsFile(r.function)) /\ Goes(t, "write_inputs")
        /\ Elsewhere

\* A defect: every function writes to the one file, whichever it reads.
WriteInputsToOne(t) ==
    /\ Is(t, "write_inputs")
    /\ file' = [file EXCEPT !["inputs"] = serving[t].request.inputs]
    /\ Goes(t, "read_proof")
    /\ Elsewhere

WriteInputs(t) ==
    LET r == serving[t].request
    IN  /\ Is(t, "write_inputs")
        /\ file' = [file EXCEPT ![InputsFile(r.function)] = r.inputs]
        /\ Goes(t, "read_proof")
        /\ Elsewhere

-------------------------------------------------------------------------------
(* The command, which reads the files when it comes to them.               *)

ReadProof(t) ==
    /\ Is(t, "read_proof")
    /\ serving' = [serving EXCEPT ![t].pc = "read_inputs", ![t].proof = file["proof"]]
    /\ Elsewhere /\ UNCHANGED file

ReadInputs(t) ==
    /\ Is(t, "read_inputs")
    /\ serving' = [serving EXCEPT ![t].pc = "send",
                      ![t].inputs = file[InputsFile(serving[t].request.function)]]
    /\ Elsewhere /\ UNCHANGED file

Readable(t) == Torn \notin {serving[t].proof, serving[t].inputs}

\* Exit status 0; only then has a transaction surely landed.
Succeeds(t) ==
    /\ Is(t, "send") /\ Readable(t)
    /\ serving' = [serving EXCEPT ![t].pc = "output", ![t].ran = TRUE,
                      ![t].landed = serving[t].request.function \in Submitting]
    /\ Elsewhere /\ UNCHANGED file

\* Refused by the contract or unreadable, or landed with the answer lost.
Fails(t, landed) ==
    /\ Is(t, "send")
    /\ landed => Readable(t) /\ serving[t].request.function \in Submitting
    /\ serving' = [serving EXCEPT ![t] = Answered(@.request, 502, FALSE, landed)]
    /\ Elsewhere /\ UNCHANGED file

\* success_response; the output of a read may not be what it expects.
Respond(t, asExpected) ==
    LET f == serving[t].request.function
    IN  /\ Is(t, "output")
        /\ asExpected \/ f \in ReadOnly
        /\ Answer(t, IF f \in Decoded /\ asExpected THEN 200 ELSE 502)
        /\ Elsewhere /\ UNCHANGED file

-------------------------------------------------------------------------------

\* The files stay, and a process in a container gets the same id again.
RelayerRestart ==
    /\ relayerRestarts < MaxRelayerRestarts
    /\ relayerRestarts' = relayerRestarts + 1
    /\ buckets' = [c \in Clients |-> Missing]
    /\ serving' = [t \in Slots |-> Free]
    /\ UNCHANGED <<clock, file, served>>

ClockTicks ==
    /\ clock < MaxClock
    /\ clock' = clock + 1
    /\ UNCHANGED <<buckets, file, serving, served, relayerRestarts>>

ServeStep(t) ==
    \/ \E c \in Clients, r \in Requested : HandleInvoke(t, c, r)
    \/ Arguments(t)
    \/ OpenProof(t) \/ WriteProof(t) \/ OpenInputs(t) \/ WriteInputs(t)
    \/ ReadProof(t) \/ ReadInputs(t)
    \/ Succeeds(t) \/ \E landed \in BOOLEAN : Fails(t, landed)
    \/ \E asExpected \in BOOLEAN : Respond(t, asExpected)

RelayerNext == (\E t \in Slots : ServeStep(t)) \/ RelayerRestart \/ ClockTicks

RelayerSpec == RelayerInit /\ [][RelayerNext]_relayerVars

-------------------------------------------------------------------------------
(* Properties *)

(***************************************************************************)
(* handler.rs, add_proof_arg and add_*_public_inputs_arg: whatever earlier *)
(* requests or an earlier process left in the files, and wherever they     *)
(* failed, a request that no other one overlaps is sent with the proof and *)
(* the public inputs it came with.                                         *)
(***************************************************************************)
AloneIsSentAsItCame ==
    \A t \in Slots :
        (Is(t, "send") /\ serving[t].alone /\ serving[t].request.function \in ProofFunctions)
            => /\ serving[t].proof = serving[t].request.proof
               /\ serving[t].inputs = serving[t].request.inputs

===============================================================================

----------------------------- MODULE PushGateways -----------------------------
(***************************************************************************)
(* How the push notification relay gets a notification to a device: the    *)
(* keys it makes at its first start and reads at every other one           *)
(* (pn-relay/src/crypto.rs, main.rs), registrations sealed to its public   *)
(* key (handler.rs), rows encrypted at rest, and the three gateways with   *)
(* their credentials and answers (apns.rs, fcm.rs, unified_push.rs).       *)
(* Which events lead to a push is PushWatcher's; here any may.             *)
(*                                                                         *)
(* Encryption is [under, text]: who has the key has the text, nobody else. *)
(* Time is counted in ticks, and a credential by the ticks it has left.    *)
(***************************************************************************)
EXTENDS Naturals

CONSTANTS
    Subs,           \* subscription ids
    BodyOf,         \* what is sent to register each: [platform, token, keyLength]
    Short,          \* a key file that is not 32 bytes long
    NoFile, NoEntry, NoPush,
    Undeciphered,   \* what decrypting with the wrong key gives
    JwtRefresh,     \* ticks for which a JWT is used again: 50 minutes
    JwtLife,        \* ticks for which Apple takes it: an hour
    FcmMargin,      \* ticks by which an access token is given up early: 5 minutes
    FcmLives,       \* what expires_in may say
    Prompt,         \* ticks within which a request counts as promptly decided
    MaxDelay,       \* bound: ticks that a request may take to be decided
    MaxRuns,        \* bound: starts of the process
    MaxFailures     \* bound: failures of the network or a gateway

ASSUME GatewaysAssumption ==
    /\ JwtRefresh \in Nat \ {0} /\ JwtLife \in Nat /\ FcmMargin \in Nat /\ FcmLives \subseteq Nat
    /\ MaxDelay \in Nat /\ MaxRuns \in Nat /\ MaxFailures \in Nat

\* The relay sets no timeout, so a request may take longer than any margin: this
\* says of which ones something is promised.
ASSUME PromptAssumption ==
    /\ Prompt \in Nat
    /\ JwtRefresh + Prompt <= JwtLife
    /\ 2 * Prompt <= FcmMargin
    /\ \A life \in FcmLives : life > 2 * Prompt

\* What stands for nothing, or for a failure, is told apart from what there is.
ASSUME NamesAreDistinct ==
    /\ NoFile \notin Nat /\ Short \notin Nat /\ NoFile # Short
    /\ Undeciphered \notin Subs /\ \A s \in Subs : BodyOf[s].token # Undeciphered

VARIABLES
    files,      \* the two key files
    process,    \* how far it has started, the keys it has loaded and its clients
    runs,
    known,      \* public keys of the relay that devices have fetched
    table,      \* the table of subscriptions
    live,       \* subscriptions whose token the gateway still knows
    jwt, access,    \* cached credentials for APNs and for FCM
    push,       \* the push that the watcher is waiting for
    failures,
    outcome     \* history: how the last push ended, when nothing failed, until the next

store == <<files, table>>
gatewayVars == <<files, process, runs, known, table, live, jwt, access, push, failures, outcome>>

Platforms == {"ios", "android-fcm", "android-up"}

-------------------------------------------------------------------------------
(* The cryptography, and the addresses that are posted to.                 *)

EncryptForStorage(text, key) == [under |-> key, text |-> text]

DecryptFromStorage(stored, key) == IF stored.under = key THEN stored.text ELSE Undeciphered

EncryptNotification(key, eventId, isLarge) == [under |-> key, aad |-> eventId, large |-> isLarge]

\* An envelope with every field of the right length that was sealed to this key.
DecryptRegistrationEnvelope(envelope, secret) ==
    IF envelope.wellFormed /\ envelope.sealedTo = secret THEN envelope.body ELSE Undeciphered

ValidateEndpointUrl(url) == url.scheme \in {"http", "https"} /\ url.host = "public"

-------------------------------------------------------------------------------
(* The process.                                                            *)

NoOutcome == [result |-> "none"]

\* For how long it is used, and is valid, and whether it was issued promptly.
NoCredential == [left |-> 0, valid |-> 0, prompt |-> TRUE]
Stopped ==
    [at |-> "down", writing |-> FALSE, keypair |-> NoFile, storage |-> NoFile, clients |-> {}]

Start ==
    /\ process.at = "down" /\ runs < MaxRuns
    /\ runs' = runs + 1
    /\ process' = [Stopped EXCEPT !.at = "keypair"]
    /\ UNCHANGED <<store, known, live, jwt, access, push, failures, outcome>>

\* A client is not made when its gateway is not configured or its file of
\* credentials cannot be read.
ApnsClients == {{}, {"ios"}}
FcmClients  == {{}, {"android-fcm"}}

\* The key is in memory: main goes on to the other one, and then to the server
\* and the watcher with the clients that could be made.
Proceed(file, key) ==
    IF file = "keypair"
    THEN process' = [process EXCEPT !.keypair = key, !.at = "storage", !.writing = FALSE]
    ELSE \E apns \in ApnsClients, fcm \in FcmClients :
            process' = [process EXCEPT !.storage = key, !.at = "up", !.writing = FALSE,
                                       !.clients = apns \cup fcm]

LoadKey(file) ==
    /\ process.at = file /\ ~process.writing /\ files[file] # NoFile
    /\ IF files[file] = Short THEN process' = Stopped ELSE Proceed(file, files[file])
    /\ UNCHANGED <<store, runs, known, live, jwt, access, push, failures, outcome>>

\* fs::write opens the file and then writes it.
CreateKeyFile(file) ==
    /\ process.at = file /\ ~process.writing /\ files[file] = NoFile
    /\ files' = [files EXCEPT ![file] = Short]
    /\ process' = [process EXCEPT !.writing = TRUE]
    /\ UNCHANGED <<runs, known, table, live, jwt, access, push, failures, outcome>>

WriteKeyFile(file) ==
    /\ process.at = file /\ process.writing
    /\ files' = [files EXCEPT ![file] = runs]
    /\ Proceed(file, runs)
    /\ UNCHANGED <<runs, known, table, live, jwt, access, push, failures, outcome>>

Crash ==
    /\ process.at # "down"
    /\ process' = Stopped
    /\ jwt' = NoCredential /\ access' = NoCredential /\ push' = NoPush
    /\ UNCHANGED <<store, runs, known, live, failures, outcome>>

-------------------------------------------------------------------------------
(* Registrations.                                                          *)

HandleInfo ==
    /\ process.at = "up"
    /\ known' = known \cup {process.keypair}
    /\ UNCHANGED <<store, process, runs, live, jwt, access, push, failures, outcome>>

Envelopes(s) ==
    [version : {1, 2}, scheme : {"x25519-aes-256-gcm-v1"}, wellFormed : BOOLEAN,
     sealedTo : known, body : {BodyOf[s]}]

\* Everything that is not as it should be is refused and changes nothing.
HandleSubscription(s, envelope) ==
    LET body == DecryptRegistrationEnvelope(envelope, process.keypair) IN
    /\ process.at = "up"
    /\ envelope.version = 1 /\ envelope.scheme = "x25519-aes-256-gcm-v1"
    /\ body # Undeciphered
    /\ body.platform \in Platforms
    /\ body.platform = "android-up" => ValidateEndpointUrl(body.token)
    /\ body.keyLength = 32
    /\ table' = [table EXCEPT ![s] =
                   [platform |-> body.platform,
                    token    |-> EncryptForStorage(body.token, process.storage),
                    key      |-> EncryptForStorage(s, process.storage)]]
    /\ live' = live \cup {s}
    /\ UNCHANGED <<files, process, runs, known, jwt, access, push, failures, outcome>>

TokenLapses(s) ==
    /\ table[s] # NoEntry
    /\ live' = live \ {s}
    /\ UNCHANGED <<store, process, runs, known, jwt, access, push, failures, outcome>>

-------------------------------------------------------------------------------
(* A push: what the watcher does for one row, up to its first await.       *)

\* Content that does not fit is left for the device to fetch.
BuildPayload(encrypted, eventId) ==
    IF encrypted.large THEN [fetch |-> TRUE, eventId |-> eventId]
    ELSE [fetch |-> FALSE, eventId |-> eventId, enc |-> encrypted]

\* A UnifiedPush body is the sealed bytes and nothing else.
BuildUpPayload(encrypted) == [fetch |-> FALSE, enc |-> encrypted]

\* Mutant: the JWT is kept for as long as Apple takes it.
GenerateJwtForAnHour ==
    IF jwt.left > 0 THEN jwt ELSE [left |-> JwtLife, valid |-> JwtLife, prompt |-> TRUE]

GenerateJwt ==
    IF jwt.left > 0 THEN jwt ELSE [left |-> JwtRefresh, valid |-> JwtLife, prompt |-> TRUE]

Posted(job, credential) ==
    [job |-> job, stage |-> "posted", waited |-> 0, credential |-> credential]

\* What the device makes of a payload with the key it registered: it opens it
\* for the event id that came along, or is told to fetch the event.  Nothing is
\* said of UnifiedPush, whose body has no event id.
CanBeRead(s, payload) ==
    payload.fetch \/ (payload.enc.under = s /\ payload.enc.aad = payload.eventId)

\* The push ends, and the row goes with a token that is gone.
End(job, result, lived, failed, late) ==
    /\ outcome' = IF failed THEN NoOutcome
                  ELSE [result |-> result, platform |-> job.platform, lived |-> lived, late |-> late,
                        readable |-> job.platform = "android-up" \/ CanBeRead(job.sub, job.payload)]
    /\ table' = IF result = "gone" THEN [table EXCEPT ![job.sub] = NoEntry] ELSE table
    /\ push' = NoPush

Job(s, eventId, isLarge) ==
    LET key       == DecryptFromStorage(table[s].key, process.storage)
        encrypted == EncryptNotification(key, eventId, isLarge)
    IN  [sub |-> s, platform |-> table[s].platform,
         token |-> DecryptFromStorage(table[s].token, process.storage), key |-> key,
         payload |-> IF table[s].platform = "android-up" THEN BuildUpPayload(encrypted)
                     ELSE BuildPayload(encrypted, eventId)]

\* A row that the storage key does not open is passed over.
SkipRow(job) ==
    /\ Undeciphered \in {job.key, job.token}
    /\ End(job, "skipped", TRUE, FALSE, FALSE)
    /\ UNCHANGED <<jwt, access>>

SendApns(job) ==
    /\ Undeciphered \notin {job.key, job.token}
    /\ job.platform = "ios" /\ "ios" \in process.clients
    /\ jwt' = GenerateJwt
    /\ push' = Posted(job, jwt') /\ outcome' = NoOutcome
    /\ UNCHANGED <<table, access>>

\* send_push of fcm.rs: with the access token it has, or after asking for one.
SendFcm(job) ==
    /\ Undeciphered \notin {job.key, job.token}
    /\ job.platform = "android-fcm" /\ "android-fcm" \in process.clients
    /\ push' = IF access.left > 0 THEN Posted(job, access)
               ELSE [job |-> job, stage |-> "exchange", waited |-> 0, credential |-> NoCredential]
    /\ outcome' = NoOutcome
    /\ UNCHANGED <<table, jwt, access>>

SendUnifiedPush(job) ==
    /\ Undeciphered \notin {job.key, job.token}
    /\ job.platform = "android-up"
    /\ IF ValidateEndpointUrl(job.token)
       THEN push' = Posted(job, NoCredential) /\ outcome' = NoOutcome /\ UNCHANGED table
       ELSE End(job, "error", job.sub \in live, FALSE, FALSE)
    /\ UNCHANGED <<jwt, access>>

Dispatch(s, eventId, isLarge) ==
    /\ process.at = "up" /\ push = NoPush /\ table[s] # NoEntry
    /\ LET job == Job(s, eventId, isLarge) IN
        SkipRow(job) \/ SendApns(job) \/ SendFcm(job) \/ SendUnifiedPush(job)
    /\ UNCHANGED <<files, process, runs, known, live, failures>>

-------------------------------------------------------------------------------
(* The gateways.                                                           *)

InStage(stage) == push # NoPush /\ push.stage = stage

ExchangeIssues(life) ==
    /\ InStage("exchange")
    /\ push' = [push EXCEPT !.stage = "exchanged",
                                !.credential = [left |-> life, valid |-> life, prompt |-> TRUE]]
    /\ UNCHANGED <<store, process, runs, known, live, jwt, access, failures, outcome>>

\* The relay counts the life from the answer, the gateway from when it issued.
LessMargin(credential, waited) ==
    [left   |-> IF credential.left > FcmMargin THEN credential.left - FcmMargin ELSE 0,
     valid  |-> credential.valid,
     prompt |-> waited <= Prompt]

ExchangeAnswered ==
    /\ InStage("exchanged")
    /\ access' = LessMargin(push.credential, push.waited)
    /\ push' = Posted(push.job, access')
    /\ UNCHANGED <<store, process, runs, known, live, jwt, failures, outcome>>

\* A status, and whether the body has UNREGISTERED or NOT_FOUND in it.
Says(statuses, unregistered) == [status : statuses, unregistered : {unregistered}]

\* What a gateway says by what it knows of the credential and the token.
Answers(platform, isValid, lives) ==
    CASE platform = "ios" ->
           IF ~isValid THEN Says({403}, FALSE)
           ELSE IF lives THEN Says({200}, FALSE) ELSE Says({400, 410}, FALSE)
      [] platform = "android-fcm" ->
           IF ~isValid THEN Says({401}, FALSE)
           ELSE IF lives THEN Says({200}, FALSE) ELSE Says({400, 404}, TRUE)
      [] platform = "android-up" ->
           IF lives THEN Says({200, 202}, FALSE) ELSE Says({404, 410}, FALSE)

\* It was given longer than a request that something is promised of.
Late == push.waited > Prompt \/ ~push.credential.prompt

Answering(answer, failed) ==
    push' = [job |-> push.job, stage |-> "answered", answer |-> answer,
             lived |-> push.job.sub \in live, failed |-> failed, late |-> Late]

GatewayDecides ==
    /\ InStage("posted")
    /\ \E answer \in Answers(push.job.platform, push.credential.valid > 0, push.job.sub \in live) :
          Answering(answer, FALSE)
    /\ UNCHANGED <<store, process, runs, known, live, jwt, access, failures, outcome>>

Unreliable == failures < MaxFailures /\ failures' = failures + 1

\* A failure of the gateway's own, or something on the way that answers for it,
\* says what it likes of a token it knows nothing about.
GatewayErrs ==
    /\ InStage("posted")
    /\ Unreliable
    /\ \E answer \in [status : {404, 410, 500}, unregistered : BOOLEAN] : Answering(answer, TRUE)
    /\ UNCHANGED <<store, process, runs, known, live, jwt, access, outcome>>

\* The match at the end of each send_push.
ApnsResult(answer) ==
    CASE answer.status = 200 -> "success"
      [] answer.status = 410 -> "gone"
      [] OTHER               -> "error"

FcmResult(answer) ==
    CASE answer.status = 200 -> "success"
      [] answer.status = 404 \/ (answer.status # 200 /\ answer.unregistered) -> "gone"
      [] OTHER -> "error"

UpResult(answer) ==
    CASE answer.status \in 200..299   -> "success"
      [] answer.status \in {404, 410} -> "gone"
      [] OTHER                        -> "error"

ResultOf(platform, answer) ==
    CASE platform = "ios"         -> ApnsResult(answer)
      [] platform = "android-fcm" -> FcmResult(answer)
      [] platform = "android-up"  -> UpResult(answer)

PushAnswered ==
    /\ InStage("answered")
    /\ End(push.job, ResultOf(push.job.platform, push.answer), push.lived, push.failed, push.late)
    /\ UNCHANGED <<files, process, runs, known, live, jwt, access, failures>>

\* The network loses a request or an answer, or an access token is refused: the
\* push is given up.
PushFailsToArrive ==
    /\ push # NoPush
    /\ Unreliable
    /\ End(push.job, "error", TRUE, TRUE, FALSE)
    /\ UNCHANGED <<files, process, runs, known, live, jwt, access>>

Aged(credential) ==
    [left   |-> IF credential.left > 0 THEN credential.left - 1 ELSE 0,
     valid  |-> IF credential.valid > 0 THEN credential.valid - 1 ELSE 0,
     prompt |-> credential.prompt]

\* An answer may be as late as it likes, and a request too, up to the bound.
Tick ==
    /\ process.at = "up"
    /\ jwt' = Aged(jwt) /\ access' = Aged(access)
    /\ IF push = NoPush \/ InStage("answered") THEN push' = push
       ELSE /\ push.waited < MaxDelay
            /\ push' = [push EXCEPT !.waited = @ + 1, !.credential.valid = Aged(push.credential).valid]
    /\ UNCHANGED <<store, process, runs, known, live, failures, outcome>>

-------------------------------------------------------------------------------

GatewaysInit ==
    /\ files = [file \in {"keypair", "storage"} |-> NoFile]
    /\ process = Stopped
    /\ runs = 0
    /\ known = {}
    /\ table = [s \in Subs |-> NoEntry]
    /\ live = Subs
    /\ jwt = NoCredential /\ access = NoCredential
    /\ push = NoPush
    /\ failures = 0
    /\ outcome = NoOutcome

GatewaysNext ==
    \/ Start \/ Crash \/ Tick
    \/ \E file \in {"keypair", "storage"} :
          LoadKey(file) \/ CreateKeyFile(file) \/ WriteKeyFile(file)
    \/ HandleInfo
    \/ \E s \in Subs : TokenLapses(s) \/ \E envelope \in Envelopes(s) : HandleSubscription(s, envelope)
    \/ \E s \in Subs, eventId \in {"e"}, isLarge \in BOOLEAN : Dispatch(s, eventId, isLarge)
    \/ \E life \in FcmLives : ExchangeIssues(life)
    \/ ExchangeAnswered \/ GatewayDecides \/ GatewayErrs
    \/ PushAnswered \/ PushFailsToArrive

GatewaysSpec == GatewaysInit /\ [][GatewaysNext]_gatewayVars

-------------------------------------------------------------------------------

\* How a push ends, when neither the network nor the gateway fails, is decided by
\* the device's token and nothing the relay keeps: with a token that lives it
\* succeeds and, through Apple or Google, brings something that the device can read;
\* only a dead token's row is given up; and an error is one of Apple's about a dead
\* token, or came of a request that was not prompt.  It is never a credential that
\* was cached too long, a key that was lost at a restart, a row that no longer opens
\* or an address that is refused after it was registered.
PushesReachTheDevice ==
    outcome # NoOutcome =>
        CASE outcome.result = "success" -> outcome.lived /\ outcome.readable
          [] outcome.result = "gone"    -> ~outcome.lived
          [] outcome.result = "error"   -> outcome.late \/ (outcome.platform = "ios" /\ ~outcome.lived)
          [] outcome.result = "skipped" -> FALSE
===============================================================================

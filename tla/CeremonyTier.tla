----------------------------- MODULE CeremonyTier -----------------------------
(***************************************************************************)
(* One tier of the ceremony coordinator (ceremony-coordinator/src): the    *)
(* `signups` and `rounds` tables, the handlers that sign up, claim the     *)
(* slot, withdraw and upload a contribution, the background reaper and the *)
(* seed process.                                                           *)
(*                                                                         *)
(* A request is a task.  Every SQL statement and every await point is a    *)
(* step of its own, so that tasks, the reaper, the clock, a restart and    *)
(* the seed process (which takes no lock) interleave as they do in the     *)
(* running program.  The tier's async mutex (queue.rs) is held exactly     *)
(* while a handler is past its lock().await: it is a guard value, released *)
(* whichever way the handler ends.                                         *)
(***************************************************************************)
EXTENDS Integers, FiniteSets, CeremonySrs

CONSTANTS
    Tasks,          \* requests served at the same time
    SlotChoices,    \* values CEREMONY_SLOT_DEADLINE_SECS is started with
    IdleSecs,       \* CEREMONY_QUEUE_IDLE_SECS
    MaxSignups,     \* bound: rows of `signups`
    MaxRound,       \* bound: round numbers in uploads
    Horizon,        \* bound: requests and the seed come up to this time
    MaxTime         \* bound: the last value of the clock

ASSUME ConfigAssumption ==
    /\ SlotChoices \subseteq Nat \ {0}
    /\ IdleSecs \in Nat
    /\ {MaxSignups, MaxRound, Horizon, MaxTime} \subseteq Nat

VARIABLES
    now,        \* now_unix()
    slotSecs,   \* config.slot_deadline_secs, read from the environment
    signups,    \* the rows of `signups`; a row's id is its index
    rounds,     \* the rows of `rounds`, by round number
    op,         \* what each task is doing, with the handler's locals
    reaper      \* where the reaper's pass over this tier stands

vars == <<now, slotSecs, signups, rounds, op, reaper>>

Null == -1

-------------------------------------------------------------------------------
(* Data *)

\* SignupStatus; no handler sets Skipped.
Status == {"queued", "claimed", "committed", "expired", "withdrawn"}

Time == Nat
OrNull(S) == S \cup {Null}

Signup == [pk : Pubkeys, joined : Time, status : Status,
           claimedAt : OrNull(Time), deadline : OrNull(Time)]

Srs == Seq(Participants)

\* `ev` is nostr_event_id: a round's event is named after the round.
Round == [srs : Srs, pk : OrNull(Participants), at : Time,
          ev : OrNull(Nat), prevEv : OrNull(Nat)]

\* The round number of an upload's state.txt, the before_srs_hash and the
\* participant of its receipt.  Its SRS is Contribute(before, pk).
Upload == [round : 1..MaxRound, before : Srs, pk : Participants]

Idle == [pc |-> "idle"]

ContributePcs == {"verify", "insert", "flip", "publish"}

Op == {Idle}
        \cup [pc : {"signup"}, pk : Pubkeys, joined : Time]
        \cup [pc : {"claimCheck", "claimWrite", "withdraw"}, id : Nat]
        \cup [pc : {"body"}]
        \cup [pc : ContributePcs, up : Upload, prev : Round]

Off == [pc |-> "off"]

Pass == {Off} \cup [pc : {"stale", "head", "expire"}, at : Time,
                    stale : SUBSET Nat, lastEnd : Time, head : OrNull(Nat)]

-------------------------------------------------------------------------------
(* The mutex and the queries *)

Holds(t) == op[t].pc \notin {"idle", "signup"}

\* Mutant: handlers and reaper no longer exclude each other.
NoMutex == TRUE

LockFree == reaper = Off /\ \A t \in Tasks : ~Holds(t)

\* A request can arrive at t.
Arrives(t) == op[t] = Idle /\ now <= Horizon

\* t is past its lock().await, at pc.
At(t, pc) == op[t].pc = pc

Goto(t, o) == op' = [op EXCEPT ![t] = o]
Finish(t)  == Goto(t, Idle)

RowsWith(status) == {i \in DOMAIN signups : signups[i].status = status}

\* ORDER BY joined_at ASC, through an index that ends in the rowid.
\* Mutant: the later row wins a tie.
QueuedBeforeLateTie(i, j) ==
    \/ signups[i].joined < signups[j].joined
    \/ signups[i].joined = signups[j].joined /\ i >= j

QueuedBefore(i, j) ==
    \/ signups[i].joined < signups[j].joined
    \/ signups[i].joined = signups[j].joined /\ i <= j

IsHead(i) ==
    /\ i \in RowsWith("queued")
    /\ \A j \in RowsWith("queued") : QueuedBefore(i, j)

\* ORDER BY slot_claimed_at DESC LIMIT 1
IsCurrentClaim(i) ==
    /\ i \in RowsWith("claimed")
    /\ \A j \in RowsWith("claimed") : signups[j].claimedAt <= signups[i].claimedAt

SetStatus(i, from, to) ==
    signups' = IF signups[i].status \in from
               THEN [signups EXCEPT ![i].status = to]
               ELSE signups

-------------------------------------------------------------------------------
(* Initial state: an empty database, nothing in flight. *)

Init ==
    /\ now = 0
    /\ slotSecs \in SlotChoices
    /\ signups = << >>
    /\ rounds = [r \in {} |-> Null]
    /\ op = [t \in Tasks |-> Idle]
    /\ reaper = Off

-------------------------------------------------------------------------------
(* POST /signup: takes no lock, and reads the clock before the INSERT gets *)
(* the database's write lock.                                              *)

SignupStamp(t, p) ==
    /\ Arrives(t)
    /\ Goto(t, [pc |-> "signup", pk |-> p, joined |-> now])
    /\ UNCHANGED <<now, slotSecs, signups, rounds, reaper>>

SignupInsert(t) ==
    /\ At(t, "signup")
    /\ Len(signups) < MaxSignups
    \* UNIQUE(pubkey, tier, joined_at)
    /\ \A i \in DOMAIN signups :
          <<signups[i].pk, signups[i].joined>> # <<op[t].pk, op[t].joined>>
    /\ signups' = Append(signups,
                    [pk |-> op[t].pk, joined |-> op[t].joined, status |-> "queued",
                     claimedAt |-> Null, deadline |-> Null])
    /\ Finish(t)
    /\ UNCHANGED <<now, slotSecs, rounds, reaper>>

-------------------------------------------------------------------------------
(* POST /claim *)

ClaimLock(t, p) ==
    /\ Arrives(t)
    /\ LockFree
    /\ \E i \in DOMAIN signups :
          /\ IsHead(i)
          /\ signups[i].pk = p
          /\ Goto(t, [pc |-> "claimCheck", id |-> i])
    /\ UNCHANGED <<now, slotSecs, signups, rounds, reaper>>

\* The slot is free: the current claim's deadline is not ahead.
SlotIsFree ==
    \/ RowsWith("claimed") = {}
    \/ \E c \in DOMAIN signups : IsCurrentClaim(c) /\ signups[c].deadline <= now

ClaimCheck(t) ==
    /\ At(t, "claimCheck")
    /\ SlotIsFree
    /\ Goto(t, [op[t] EXCEPT !.pc = "claimWrite"])
    /\ UNCHANGED <<now, slotSecs, signups, rounds, reaper>>

\* The row is flipped before head_round is read: on a tier without round 0 the
\* caller is answered 503 and the row stays claimed.
ClaimWrite(t) ==
    /\ At(t, "claimWrite")
    /\ LET i == op[t].id IN
          signups' = IF signups[i].status = "queued"
                     THEN [signups EXCEPT ![i].status = "claimed",
                                          ![i].claimedAt = now,
                                          ![i].deadline = now + slotSecs]
                     ELSE signups
    /\ Finish(t)
    /\ UNCHANGED <<now, slotSecs, rounds, reaper>>

-------------------------------------------------------------------------------
(* POST /withdraw *)

ActiveRows(p) ==
    {i \in RowsWith("queued") \cup RowsWith("claimed") : signups[i].pk = p}

WithdrawLock(t, p) ==
    /\ Arrives(t)
    /\ LockFree
    /\ \E i \in ActiveRows(p) :
          /\ \A j \in ActiveRows(p) : signups[j].joined <= signups[i].joined
          /\ Goto(t, [pc |-> "withdraw", id |-> i])
    /\ UNCHANGED <<now, slotSecs, signups, rounds, reaper>>

\* The UPDATE names the id only, whatever the status is by now.
WithdrawWrite(t) ==
    /\ At(t, "withdraw")
    /\ SetStatus(op[t].id, Status, "withdrawn")
    /\ Finish(t)
    /\ UNCHANGED <<now, slotSecs, rounds, reaper>>

-------------------------------------------------------------------------------
(* POST /contribute: the lock is taken before the body is read; neither    *)
(* the caller nor the slot is checked.                                     *)

ContributeLock(t) ==
    /\ Arrives(t)
    /\ LockFree
    /\ Goto(t, [pc |-> "body"])
    /\ UNCHANGED <<now, slotSecs, signups, rounds, reaper>>

\* The body arrives.  Participants derive their SRS from some published
\* round, not always the head, and the same files may be sent twice.
ReadBody(t) ==
    /\ At(t, "body")
    /\ \E r \in 1..MaxRound, base \in DOMAIN rounds, p \in Participants :
          /\ r - 1 \in DOMAIN rounds
          /\ Goto(t, [pc   |-> "verify",
                      up   |-> [round |-> r, before |-> rounds[base].srs, pk |-> p],
                      prev |-> rounds[r - 1]])
    /\ UNCHANGED <<now, slotSecs, signups, rounds, reaper>>

\* ceremony_tool verify-contribution on the previous round's blobs.
VerifiesAgainst(up, prev) == up.before = prev.srs

VerifyUpload(t) ==
    /\ At(t, "verify")
    /\ VerifiesAgainst(op[t].up, op[t].prev)
    /\ Goto(t, [op[t] EXCEPT !.pc = "insert"])
    /\ UNCHANGED <<now, slotSecs, signups, rounds, reaper>>

\* Mutant: INSERT OR REPLACE, as phase 2 rounds are written.
RoundReplaceable(r) == r \in Nat

\* PRIMARY KEY (tier, round)
RoundUnused(r) == r \notin DOMAIN rounds

AddRound(r, row) ==
    rounds' = [q \in DOMAIN rounds \cup {r} |-> IF q = r THEN row ELSE rounds[q]]

InsertRound(t) ==
    /\ At(t, "insert")
    /\ LET up == op[t].up IN
          /\ RoundUnused(up.round)
          /\ AddRound(up.round,
                [srs |-> Contribute(up.before, up.pk), pk |-> up.pk, at |-> now,
                 ev |-> Null, prevEv |-> op[t].prev.ev])
    /\ Goto(t, [op[t] EXCEPT !.pc = "flip"])
    /\ UNCHANGED <<now, slotSecs, signups, reaper>>

\* Mutants: the UPDATE's condition without its test of the status, or of the pubkey.
FlipsAnyStatus(i, p) == signups[i].pk = p
\* Every claimed row of the receipt's participant, live or overdue.
Flips(i, p) == signups[i].status = "claimed" /\ signups[i].pk = p

FlipCommitted(t) ==
    /\ At(t, "flip")
    /\ signups' = [i \in DOMAIN signups |->
                     IF Flips(i, op[t].up.pk)
                     THEN [signups[i] EXCEPT !.status = "committed"]
                     ELSE signups[i]]
    /\ Goto(t, [op[t] EXCEPT !.pc = "publish"])
    /\ UNCHANGED <<now, slotSecs, rounds, reaper>>

\* Best effort: with no signing key there is no event and the column stays NULL.
PublishRound(t) ==
    /\ At(t, "publish")
    /\ LET r == op[t].up.round IN
          \/ rounds' = [rounds EXCEPT ![r].ev = r]
          \/ rounds' = rounds
    /\ Finish(t)
    /\ UNCHANGED <<now, slotSecs, signups, reaper>>

-------------------------------------------------------------------------------
(* A handler ends early: an error reply, a failed SQL statement, the       *)
(* caller's disconnect while the handler awaits.  What was written stays   *)
(* written, and the mutex's guard is dropped.                              *)

Fail(t) ==
    /\ op[t] # Idle
    /\ Finish(t)
    /\ UNCHANGED <<now, slotSecs, signups, rounds, reaper>>

-------------------------------------------------------------------------------
(* The seed process: no lock; the primary key keeps a second seed out. *)

Seed ==
    /\ now <= Horizon
    /\ RoundUnused(0)
    /\ \E e \in {0, Null} :
          AddRound(0, [srs |-> Genesis, pk |-> NoPubkey, at |-> now,
                       ev |-> e, prevEv |-> Null])
    /\ UNCHANGED <<now, slotSecs, signups, op, reaper>>

-------------------------------------------------------------------------------
(* The reaper's pass over this tier.  The clock is read once, at its start. *)

ReapStart ==
    /\ LockFree
    /\ reaper' = [pc |-> "stale", at |-> now, lastEnd |-> 0, head |-> Null,
                  stale |-> {i \in RowsWith("claimed") : signups[i].deadline < now}]
    /\ UNCHANGED <<now, slotSecs, signups, rounds, op>>

\* Mutant: the reaper's UPDATE tests the status of the other case.
ReapStaleWrongStatus ==
    /\ reaper.pc = "stale"
    /\ \E i \in reaper.stale :
          /\ SetStatus(i, {"queued"}, "expired")
          /\ reaper' = [reaper EXCEPT !.stale = @ \ {i}]
    /\ UNCHANGED <<now, slotSecs, rounds, op>>

ReapStale ==
    /\ reaper.pc = "stale"
    /\ \E i \in reaper.stale :
          /\ SetStatus(i, {"claimed"}, "expired")
          /\ reaper' = [reaper EXCEPT
                          !.stale = @ \ {i},
                          !.lastEnd = IF signups[i].deadline > @
                                      THEN signups[i].deadline ELSE @]
    /\ UNCHANGED <<now, slotSecs, rounds, op>>

\* A live claim ends the pass: the head is not what blocks the queue.
ClaimLiveAt(time) ==
    \E i \in RowsWith("claimed") : signups[i].deadline > time

\* Mutant: MAX(created_at) without COALESCE is NULL on a tier with no round.
IdleSinceNoCoalesce(i) ==
    /\ DOMAIN rounds # {}
    /\ signups[i].joined + IdleSecs < reaper.at
    /\ \A r \in DOMAIN rounds : rounds[r].at + IdleSecs < reaper.at
    /\ reaper.lastEnd + IdleSecs < reaper.at

\* became_head_at + idle_secs < now, became_head_at being the latest of the
\* head's joined_at, every round's created_at and last_claim_end.
IdleSince(i) ==
    /\ signups[i].joined + IdleSecs < reaper.at
    /\ \A r \in DOMAIN rounds : rounds[r].at + IdleSecs < reaper.at
    /\ reaper.lastEnd + IdleSecs < reaper.at

HeadIsIdle(i) == IsHead(i) /\ ~ClaimLiveAt(reaper.at) /\ IdleSince(i)

ReapHead ==
    /\ reaper.pc = "stale" /\ reaper.stale = {}
    /\ \/ \E i \in DOMAIN signups :
             /\ HeadIsIdle(i)
             /\ reaper' = [reaper EXCEPT !.pc = "expire", !.head = i]
       \/ /\ \A i \in DOMAIN signups : ~HeadIsIdle(i)
          /\ reaper' = Off
    /\ UNCHANGED <<now, slotSecs, signups, rounds, op>>

ReapExpire ==
    /\ reaper.pc = "expire"
    /\ SetStatus(reaper.head, {"queued"}, "expired")
    /\ reaper' = Off
    /\ UNCHANGED <<now, slotSecs, rounds, op>>

\* A failed SQL statement ends the pass; what it has expired stays expired.
ReapFail ==
    /\ reaper # Off
    /\ reaper' = Off
    /\ UNCHANGED <<now, slotSecs, signups, rounds, op>>

-------------------------------------------------------------------------------
(* The coordinator dies and is started again, perhaps with another slot    *)
(* length: the database survives, every task and the reaper's locals do    *)
(* not.                                                                    *)

Restart ==
    /\ slotSecs' \in SlotChoices
    /\ op' = [t \in Tasks |-> Idle]
    /\ reaper' = Off
    /\ UNCHANGED <<now, signups, rounds>>

\* The clock never goes back.  Past the horizon it only moves when no request
\* is in flight (a bound: it keeps rounds from being dated arbitrarily late).
Tick ==
    /\ now < MaxTime
    /\ now < Horizon \/ \A t \in Tasks : op[t] = Idle
    /\ now' = now + 1
    /\ UNCHANGED <<slotSecs, signups, rounds, op, reaper>>

-------------------------------------------------------------------------------

Arrival(t) ==
    \/ \E p \in Pubkeys : SignupStamp(t, p) \/ ClaimLock(t, p) \/ WithdrawLock(t, p)
    \/ ContributeLock(t)

Progress(t) ==
    \/ SignupInsert(t)
    \/ ClaimCheck(t)
    \/ ClaimWrite(t)
    \/ WithdrawWrite(t)
    \/ ReadBody(t)
    \/ VerifyUpload(t)
    \/ InsertRound(t)
    \/ FlipCommitted(t)
    \/ PublishRound(t)

Reap == ReapStart \/ ReapStale \/ ReapHead \/ ReapExpire \/ ReapFail

Next ==
    \/ \E t \in Tasks : Arrival(t) \/ Progress(t) \/ Fail(t)
    \/ Seed
    \/ Reap
    \/ Restart
    \/ Tick

Spec == Init /\ [][Next]_vars

(***************************************************************************)
(* Fairness.  The reaper is woken by an interval timer and waits for the   *)
(* mutex in FIFO order, so it gets the mutex if the mutex keeps becoming   *)
(* free; neither SQL errors nor restarts hit the same statement of it for  *)
(* ever (strong fairness).  A handler's task keeps being polled.  What is  *)
(* not the program's own doing is the arrival of a request body: FairSpec  *)
(* assumes that every caller finishes its body or disconnects.             *)
(***************************************************************************)
ReaperFairness ==
    /\ SF_vars(ReapStart)
    /\ SF_vars(ReapStale)
    /\ SF_vars(ReapHead)
    /\ SF_vars(ReapExpire)
    /\ SF_vars(Tick)

FairSpec ==
    /\ Spec /\ ReaperFairness
    /\ \A t \in Tasks : WF_vars(Progress(t) \/ Fail(t))

-------------------------------------------------------------------------------
(* Type invariant: the tables, the locals and the clock keep their types,  *)
(* and the rows a pass is about to expire exist.                           *)

TypeOK ==
    /\ now \in Time
    /\ slotSecs \in SlotChoices
    /\ signups \in Seq(Signup)
    /\ DOMAIN rounds \subseteq 0..MaxRound
    /\ \A r \in DOMAIN rounds : rounds[r] \in Round
    /\ op \in [Tasks -> Op]
    /\ reaper \in Pass
    /\ reaper # Off => reaper.stale \subseteq DOMAIN signups

(***************************************************************************)
(* Two participants never hold the slot at once (queue.rs:3-5, "so we      *)
(* never double-assign a slot during races"), whatever interleaves with    *)
(* the claims and although current_claim looks at one row only.            *)
(***************************************************************************)
LiveClaims == {i \in RowsWith("claimed") : signups[i].deadline > now}

AtMostOneLiveClaim == \A i, j \in LiveClaims : i = j

(***************************************************************************)
(* Why: handlers and reaper exclude each other; the periods [claimedAt,    *)
(* deadline) of the claimed rows never overlap; and while a handler is     *)
(* between its check of the slot and its UPDATE (slot.rs:56-79), no        *)
(* claimed row's deadline is ahead.                                        *)
(***************************************************************************)
MutexInv ==
    /\ \A t, u \in Tasks : Holds(t) /\ Holds(u) => t = u
    /\ reaper # Off => \A t \in Tasks : ~Holds(t)

ClaimsOrdered ==
    /\ \A i \in RowsWith("claimed") :
          /\ signups[i].claimedAt \in Time /\ signups[i].deadline \in Time
          /\ signups[i].claimedAt <= now
          /\ signups[i].claimedAt < signups[i].deadline
    /\ \A i, j \in RowsWith("claimed") :
          \/ i = j
          \/ signups[i].deadline <= signups[j].claimedAt
          \/ signups[j].deadline <= signups[i].claimedAt

CheckHolds ==
    \A t \in Tasks : At(t, "claimWrite") =>
        \A i \in RowsWith("claimed") : signups[i].deadline <= now

SlotInv == MutexInv /\ ClaimsOrdered /\ CheckHolds

(***************************************************************************)
(* Each round's prev_nostr_event_id is the event its predecessor was       *)
(* published under, NULL if it was not: the predecessor's row is never     *)
(* read before its publication is settled, nor does the event change once  *)
(* a successor refers to it (upload.rs:176-199, 245-260).                  *)
(***************************************************************************)
EventChain ==
    \A r \in DOMAIN rounds \ {0} :
        r - 1 \in DOMAIN rounds /\ rounds[r].prevEv = rounds[r - 1].ev

(***************************************************************************)
(* The queue is first in, first out (docs/ceremony-web-ui-design.md:436):  *)
(* a claim never overtakes a row that was in the table before the claimed  *)
(* one and joined no later, whatever signs up while the claim is served.   *)
(***************************************************************************)
Turns(i, from, to) ==
    i \in DOMAIN signups /\ signups[i].status = from /\ signups'[i].status = to

FifoClaim ==
    [][\A i \in DOMAIN signups : Turns(i, "queued", "claimed") =>
          \A j \in RowsWith("queued") :
              j < i => signups[j].joined > signups[i].joined]_vars

(***************************************************************************)
(* The signup state machine: queued, then claimed, then one final status,  *)
(* or out of the queue; a final status is never left, although withdraw's  *)
(* UPDATE does not look at the status it replaces (withdraw.rs:66-70).     *)
(***************************************************************************)
Successors == [queued    |-> {"claimed", "expired", "withdrawn"},
               claimed   |-> {"committed", "expired", "withdrawn"},
               committed |-> {}, expired |-> {}, withdrawn |-> {}]

StatusLifecycle ==
    [][\A i \in DOMAIN signups :
          \/ signups'[i].status = signups[i].status
          \/ signups'[i].status \in Successors[signups[i].status]]_vars

(***************************************************************************)
(* The rounds table implements the append-only chain of CeremonyTranscript *)
(* (upload.rs:83-141, 176-199; ceremony_tool.rs:175-235).                  *)
(***************************************************************************)
Transcript == INSTANCE CeremonyTranscript
                 WITH chain <- [r \in DOMAIN rounds |-> rounds[r].srs]

ImplementsTranscript == Transcript!ChainSpec

(***************************************************************************)
(* Why: round numbers have no gap, and the round an upload was verified    *)
(* against (upload.rs:83-141) is still there, with the same SRS, when the  *)
(* upload's own round is inserted.                                         *)
(***************************************************************************)
GapFree ==
    DOMAIN rounds = {} \/ \E head \in DOMAIN rounds : DOMAIN rounds = 0..head

PrevIsPublished ==
    \A t \in Tasks : op[t].pc \in ContributePcs =>
        /\ op[t].up.round - 1 \in DOMAIN rounds
        /\ op[t].prev.srs = rounds[op[t].up.round - 1].srs
        /\ op[t].pc # "verify" => op[t].up.before = op[t].prev.srs

ChainInv == GapFree /\ PrevIsPublished

(***************************************************************************)
(* Every claim ends (reaper.rs:5-9), and everyone who queues gets out of   *)
(* the queue: claimed, withdrawn or expired (reaper.rs:11-18).             *)
(***************************************************************************)
Is(i, status) == i \in DOMAIN signups /\ signups[i].status = status

ClaimEnds   == \A i \in 1..MaxSignups : Is(i, "claimed") ~> ~Is(i, "claimed")
QueueDrains == \A i \in 1..MaxSignups : Is(i, "queued") ~> ~Is(i, "queued")
===============================================================================

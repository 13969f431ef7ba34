-------------------------- MODULE CeremonyTierProofs --------------------------
(***************************************************************************)
(* Proofs about CeremonyTier, for every number of participants, tasks,     *)
(* signups and rounds and every value of the clock's bounds.               *)
(***************************************************************************)
EXTENDS CeremonyTier, TLAPS

(***************************************************************************)
(* Setting the status of a row, whether or not the row exists, gives a     *)
(* table of the same length whose rows are still signups.                  *)
(***************************************************************************)
LEMMA SetStatusType ==
    ASSUME NEW i, NEW from, NEW to \in Status,
           signups \in Seq(Signup), SetStatus(i, from, to)
    PROVE  /\ signups' \in Seq(Signup)
           /\ DOMAIN signups' = DOMAIN signups
           /\ Len(signups') = Len(signups)
<1>1. CASE signups' = signups
  BY <1>1
<1>2. CASE signups' = [signups EXCEPT ![i].status = to]
  <2>1. DOMAIN signups' = 1..Len(signups) /\ DOMAIN signups = 1..Len(signups)
    BY <1>2
  <2>2. ASSUME NEW j \in 1..Len(signups) PROVE signups'[j] \in Signup
    <3>1. signups[j] \in Signup
      OBVIOUS
    <3>. QED BY <1>2, <3>1 DEF Signup
  <2>3. signups' \in [1..Len(signups) -> Signup]
    BY <1>2, <2>1, <2>2
  <2>. QED BY <2>1, <2>3
<1>. QED BY <1>1, <1>2 DEF SetStatus

(***************************************************************************)
(* A step of a task ends in a known state of that task.                    *)
(***************************************************************************)
LEMMA GotoType ==
    ASSUME NEW t \in Tasks, NEW o \in Op, op \in [Tasks -> Op], Goto(t, o)
    PROVE  op' \in [Tasks -> Op]
BY DEF Goto

LEMMA IdleType == Idle \in Op /\ Off \in Pass
BY DEF Idle, Op, Off, Pass

(***************************************************************************)
(* Adding a round keeps the rounds well typed.                             *)
(***************************************************************************)
LEMMA AddRoundType ==
    ASSUME NEW r \in 0..MaxRound, NEW row \in Round, AddRound(r, row),
           DOMAIN rounds \subseteq 0..MaxRound,
           \A q \in DOMAIN rounds : rounds[q] \in Round
    PROVE  /\ DOMAIN rounds' \subseteq 0..MaxRound
           /\ \A q \in DOMAIN rounds' : rounds'[q] \in Round
BY DEF AddRound

LEMMA TypeInit == Init => TypeOK
BY ConfigAssumption, IdleType DEF Init, TypeOK, Time

(***************************************************************************)
(* Every step keeps the types.  One step per action.                       *)
(***************************************************************************)
LEMMA TypeStep == TypeOK /\ [Next]_vars => TypeOK'
<1>. SUFFICES ASSUME TypeOK, [Next]_vars PROVE TypeOK'
  OBVIOUS
<1>. USE ConfigAssumption
<1>1. ASSUME NEW t \in Tasks, NEW p \in Pubkeys, SignupStamp(t, p) PROVE TypeOK'
  <2>1. [pc |-> "signup", pk |-> p, joined |-> now] \in Op
    BY DEF Op, TypeOK
  <2>. QED BY <1>1, <2>1, GotoType DEF TypeOK, SignupStamp
<1>2. ASSUME NEW t \in Tasks, NEW p \in Pubkeys, ClaimLock(t, p) PROVE TypeOK'
  <2>1. PICK i \in DOMAIN signups : Goto(t, [pc |-> "claimCheck", id |-> i])
    BY <1>2 DEF ClaimLock
  <2>2. [pc |-> "claimCheck", id |-> i] \in Op
    BY DEF Op, TypeOK
  <2>. QED BY <1>2, <2>1, <2>2, GotoType DEF TypeOK, ClaimLock
<1>3. ASSUME NEW t \in Tasks, NEW p \in Pubkeys, WithdrawLock(t, p) PROVE TypeOK'
  <2>1. PICK i \in ActiveRows(p) : Goto(t, [pc |-> "withdraw", id |-> i])
    BY <1>3 DEF WithdrawLock
  <2>2. [pc |-> "withdraw", id |-> i] \in Op
    BY DEF Op, TypeOK, ActiveRows, RowsWith
  <2>. QED BY <1>3, <2>1, <2>2, GotoType DEF TypeOK, WithdrawLock
<1>4. ASSUME NEW t \in Tasks, ContributeLock(t) PROVE TypeOK'
  <2>1. [pc |-> "body"] \in Op
    BY DEF Op
  <2>. QED BY <1>4, <2>1, GotoType DEF TypeOK, ContributeLock
<1>5. ASSUME NEW t \in Tasks, SignupInsert(t) PROVE TypeOK'
  <2>1. op[t].pk \in Pubkeys /\ op[t].joined \in Time
    BY <1>5 DEF SignupInsert, At, TypeOK, Op, Idle, ContributePcs
  <2>2. [pk |-> op[t].pk, joined |-> op[t].joined, status |-> "queued",
         claimedAt |-> Null, deadline |-> Null] \in Signup
    BY <2>1 DEF Signup, Status, OrNull
  <2>. QED BY <1>5, <2>2, GotoType, IdleType DEF TypeOK, SignupInsert, Finish
<1>6. ASSUME NEW t \in Tasks, ClaimCheck(t) PROVE TypeOK'
  <2>1. [op[t] EXCEPT !.pc = "claimWrite"] \in Op
    BY <1>6 DEF ClaimCheck, At, TypeOK, Op, Idle, ContributePcs
  <2>. QED BY <1>6, <2>1, GotoType DEF TypeOK, ClaimCheck
<1>7. ASSUME NEW t \in Tasks, ClaimWrite(t) PROVE TypeOK'
  <2>1. now \in Time /\ now + slotSecs \in Time
    BY DEF TypeOK, Time
  <2>2. signups' \in Seq(Signup)
    <3>. DEFINE i == op[t].id
    <3>1. CASE signups' = signups
      BY <3>1 DEF TypeOK
    <3>2. CASE signups' = [signups EXCEPT ![i].status = "claimed",
                                          ![i].claimedAt = now,
                                          ![i].deadline = now + slotSecs]
      <4>1. DOMAIN signups' = 1..Len(signups)
        BY <3>2 DEF TypeOK
      <4>2. ASSUME NEW j \in 1..Len(signups) PROVE signups'[j] \in Signup
        <5>1. signups[j] \in Signup
          BY DEF TypeOK
        <5>2. CASE j # i
          BY <3>2, <5>1, <5>2, <4>1
        <5>3. CASE j = i
          <6>1. signups'[j] = [signups[j] EXCEPT !.status = "claimed",
                                                 !.claimedAt = now,
                                                 !.deadline = now + slotSecs]
            BY <3>2, <5>3, <4>1
          <6>. QED BY <6>1, <5>1, <2>1 DEF Signup, Status, OrNull
        <5>. QED BY <5>2, <5>3
      <4>3. signups' \in [1..Len(signups) -> Signup]
        BY <3>2, <4>1, <4>2
      <4>. QED BY <4>3 DEF TypeOK
    <3>. QED BY <1>7, <3>1, <3>2 DEF ClaimWrite
  <2>. QED BY <1>7, <2>2, GotoType, IdleType DEF TypeOK, ClaimWrite, Finish
<1>8. ASSUME NEW t \in Tasks, WithdrawWrite(t) PROVE TypeOK'
  <2>1. signups' \in Seq(Signup) /\ DOMAIN signups' = DOMAIN signups
    BY <1>8, SetStatusType DEF WithdrawWrite, TypeOK, Status
  <2>. QED BY <1>8, <2>1, GotoType, IdleType DEF TypeOK, WithdrawWrite, Finish
<1>9. ASSUME NEW t \in Tasks, ReadBody(t) PROVE TypeOK'
  <2>1. PICK r \in 1..MaxRound, base \in DOMAIN rounds, p \in Participants :
           /\ r - 1 \in DOMAIN rounds
           /\ Goto(t, [pc   |-> "verify",
                       up   |-> [round |-> r, before |-> rounds[base].srs, pk |-> p],
                       prev |-> rounds[r - 1]])
    BY <1>9 DEF ReadBody
  <2>2. rounds[base].srs \in Srs /\ rounds[r - 1] \in Round
    BY <2>1 DEF TypeOK, Round
  <2>3. [pc   |-> "verify",
         up   |-> [round |-> r, before |-> rounds[base].srs, pk |-> p],
         prev |-> rounds[r - 1]] \in Op
    BY <2>2 DEF Op, Upload, ContributePcs
  <2>. QED BY <1>9, <2>1, <2>3, GotoType DEF TypeOK, ReadBody
<1>10. ASSUME NEW t \in Tasks, op[t] \in [pc : ContributePcs, up : Upload, prev : Round],
              NEW pc \in ContributePcs
       PROVE  [op[t] EXCEPT !.pc = pc] \in Op
  BY <1>10 DEF Op
<1>11. ASSUME NEW t \in Tasks, op[t].pc \in ContributePcs
       PROVE  op[t] \in [pc : ContributePcs, up : Upload, prev : Round]
  BY <1>11 DEF TypeOK, Op, Idle, ContributePcs
<1>12. ASSUME NEW t \in Tasks, VerifyUpload(t) PROVE TypeOK'
  <2>1. [op[t] EXCEPT !.pc = "insert"] \in Op
    BY <1>12, <1>10, <1>11 DEF VerifyUpload, At, ContributePcs
  <2>. QED BY <1>12, <2>1, GotoType DEF TypeOK, VerifyUpload
<1>13. ASSUME NEW t \in Tasks, InsertRound(t) PROVE TypeOK'
  <2>. DEFINE row == [srs |-> Contribute(op[t].up.before, op[t].up.pk),
                      pk |-> op[t].up.pk, at |-> now, ev |-> Null,
                      prevEv |-> op[t].prev.ev]
  <2>1. [op[t] EXCEPT !.pc = "flip"] \in Op
    BY <1>13, <1>10, <1>11 DEF InsertRound, At, ContributePcs
  <2>2. op[t].up \in Upload /\ op[t].prev \in Round
    BY <1>13, <1>11 DEF InsertRound, At, ContributePcs
  <2>3. row \in Round
    BY <2>2 DEF Round, Upload, Srs, Contribute, OrNull, TypeOK
  <2>4. op[t].up.round \in 0..MaxRound
    BY <2>2 DEF Upload
  <2>5. AddRound(op[t].up.round, row)
    BY <1>13 DEF InsertRound
  <2>. HIDE DEF row
  <2>6. /\ DOMAIN rounds' \subseteq 0..MaxRound
        /\ \A q \in DOMAIN rounds' : rounds'[q] \in Round
    BY <2>3, <2>4, <2>5, AddRoundType DEF TypeOK
  <2>. QED BY <1>13, <2>1, <2>6, GotoType DEF TypeOK, InsertRound
<1>14. ASSUME NEW t \in Tasks, FlipCommitted(t) PROVE TypeOK'
  <2>1. [op[t] EXCEPT !.pc = "publish"] \in Op
    BY <1>14, <1>10, <1>11 DEF FlipCommitted, At, ContributePcs
  <2>2. signups' \in Seq(Signup)
    <3>1. DOMAIN signups = 1..Len(signups) /\ \A j \in DOMAIN signups : signups[j] \in Signup
      BY DEF TypeOK
    <3>2. signups' \in [1..Len(signups) -> Signup]
      BY <1>14, <3>1 DEF FlipCommitted, Signup, Status
    <3>. QED BY <3>2 DEF TypeOK
  <2>. QED BY <1>14, <2>1, <2>2, GotoType DEF TypeOK, FlipCommitted
<1>15. ASSUME NEW t \in Tasks, PublishRound(t) PROVE TypeOK'
  <2>1. op[t].up.round \in Nat
    BY <1>15, <1>11 DEF PublishRound, At, ContributePcs, Upload
  <2>2. /\ DOMAIN rounds' = DOMAIN rounds
        /\ \A q \in DOMAIN rounds' : rounds'[q] \in Round
    <3>1. CASE rounds' = rounds
      BY <3>1 DEF TypeOK
    <3>2. CASE rounds' = [rounds EXCEPT ![op[t].up.round].ev = op[t].up.round]
      BY <3>2, <2>1 DEF TypeOK, Round, OrNull
    <3>. QED BY <1>15, <3>1, <3>2 DEF PublishRound
  <2>. QED BY <1>15, <2>2, GotoType, IdleType DEF TypeOK, PublishRound, Finish
<1>16. ASSUME NEW t \in Tasks, Fail(t) PROVE TypeOK'
  BY <1>16, GotoType, IdleType DEF TypeOK, Fail, Finish
<1>17. ASSUME Seed PROVE TypeOK'
  <2>1. PICK e \in {0, Null} :
           AddRound(0, [srs |-> Genesis, pk |-> NoPubkey, at |-> now,
                        ev |-> e, prevEv |-> Null])
    BY <1>17 DEF Seed
  <2>2. [srs |-> Genesis, pk |-> NoPubkey, at |-> now, ev |-> e, prevEv |-> Null] \in Round
    BY DEF Round, Srs, Genesis, Participants, OrNull, TypeOK
  <2>3. 0 \in 0..MaxRound
    OBVIOUS
  <2>4. /\ DOMAIN rounds' \subseteq 0..MaxRound
        /\ \A q \in DOMAIN rounds' : rounds'[q] \in Round
    BY <2>1, <2>2, <2>3, AddRoundType DEF TypeOK
  <2>. QED BY <1>17, <2>4 DEF TypeOK, Seed
<1>18. CASE ReapStart
  <2>. DEFINE stale == {i \in RowsWith("claimed") : signups[i].deadline < now}
  <2>1. stale \subseteq DOMAIN signups /\ stale \in SUBSET Nat
    BY DEF RowsWith, TypeOK
  <2>2. reaper' \in Pass /\ reaper'.stale = stale
    BY <1>18, <2>1 DEF TypeOK, ReapStart, Pass, OrNull, Time
  <2>. HIDE DEF stale
  <2>. QED BY <1>18, <2>1, <2>2 DEF TypeOK, ReapStart
<1>19. CASE ReapStale
  <2>1. PICK i \in reaper.stale :
           /\ SetStatus(i, {"claimed"}, "expired")
           /\ reaper' = [reaper EXCEPT
                          !.stale = @ \ {i},
                          !.lastEnd = IF signups[i].deadline > @
                                      THEN signups[i].deadline ELSE @]
    BY <1>19 DEF ReapStale
  <2>2. signups' \in Seq(Signup) /\ DOMAIN signups' = DOMAIN signups
    BY <2>1, SetStatusType DEF TypeOK, Status
  <2>3. reaper' \in Pass /\ reaper'.stale \subseteq DOMAIN signups
    <3>1. reaper \in [pc : {"stale", "head", "expire"}, at : Time,
                      stale : SUBSET Nat, lastEnd : Time, head : OrNull(Nat)]
      BY <1>19 DEF ReapStale, TypeOK, Pass, Off
    <3>2. (IF signups[i].deadline > reaper.lastEnd
           THEN signups[i].deadline ELSE reaper.lastEnd) \in Time
      <4>1. reaper # Off /\ i \in DOMAIN signups
        BY <1>19, <2>1 DEF ReapStale, TypeOK, Off
      <4>2. signups[i] \in Signup
        BY <4>1 DEF TypeOK
      <4>. QED BY <3>1, <4>2 DEF Signup, OrNull, Time, Null
    <3>3. reaper.stale \subseteq DOMAIN signups
      BY <1>19 DEF ReapStale, TypeOK, Off
    <3>. QED BY <2>1, <3>1, <3>2, <3>3 DEF Pass
  <2>. QED BY <1>19, <2>2, <2>3 DEF TypeOK, ReapStale
<1>20. CASE ReapHead
  <2>1. ASSUME NEW i \in DOMAIN signups, reaper.pc = "stale"
        PROVE  [reaper EXCEPT !.pc = "expire", !.head = i] \in Pass
    <3>1. i \in Nat
      BY DEF TypeOK
    <3>2. reaper \in [pc : {"stale", "head", "expire"}, at : Time,
                      stale : SUBSET Nat, lastEnd : Time, head : OrNull(Nat)]
      BY <2>1 DEF TypeOK, Pass, Off
    <3>. QED BY <3>1, <3>2 DEF Pass, OrNull
  <2>2. reaper' \in Pass
    BY <1>20, <2>1, IdleType DEF ReapHead
  <2>3. reaper' # Off => reaper'.stale = {}
    <3>1. SUFFICES ASSUME reaper' # Off PROVE reaper'.stale = {}
      OBVIOUS
    <3>2. PICK i \in DOMAIN signups : reaper' = [reaper EXCEPT !.pc = "expire", !.head = i]
      BY <1>20, <3>1 DEF ReapHead
    <3>3. reaper.pc = "stale" /\ reaper.stale = {}
      BY <1>20 DEF ReapHead
    <3>4. reaper \in [pc : {"stale", "head", "expire"}, at : Time,
                      stale : SUBSET Nat, lastEnd : Time, head : OrNull(Nat)]
      BY <3>3 DEF TypeOK, Pass, Off
    <3>. QED BY <3>2, <3>3, <3>4
  <2>. QED BY <1>20, <2>2, <2>3 DEF TypeOK, ReapHead
<1>21. CASE ReapExpire
  <2>1. signups' \in Seq(Signup)
    BY <1>21, SetStatusType DEF ReapExpire, TypeOK, Status
  <2>. QED BY <1>21, <2>1, IdleType DEF TypeOK, ReapExpire
<1>22. CASE ReapFail
  BY <1>22, IdleType DEF TypeOK, ReapFail
<1>23. CASE Restart
  BY <1>23, IdleType DEF TypeOK, Restart
<1>24. CASE Tick
  BY <1>24 DEF TypeOK, Tick, Time
<1>25. CASE UNCHANGED vars
  BY <1>25 DEF TypeOK, vars
<1>. QED BY <1>1, <1>2, <1>3, <1>4, <1>5, <1>6, <1>7, <1>8, <1>9, <1>12, <1>13,
            <1>14, <1>15, <1>16, <1>17, <1>18, <1>19, <1>20, <1>21, <1>22, <1>23,
            <1>24, <1>25 DEF Next, Arrival, Progress, Reap

(***************************************************************************)
(* The tables, the locals and the clock keep their types in every          *)
(* behaviour of the coordinator.                                           *)
(***************************************************************************)
THEOREM TypeCorrect == Spec => []TypeOK
BY TypeInit, TypeStep, PTL DEF Spec

-------------------------------------------------------------------------------
(* The slot is never held twice.                                           *)

(***************************************************************************)
(* A task that takes the mutex found it free, and every other step keeps   *)
(* or drops what its task holds: the mutex excludes.                       *)
(***************************************************************************)
LEMMA MutexKept ==
    ASSUME NEW t \in Tasks, NEW o, op \in [Tasks -> Op], Goto(t, o), MutexInv,
           reaper' = reaper,
           Holds(t) \/ LockFree \/ o.pc \in {"idle", "signup"}
    PROVE  MutexInv'
BY DEF Goto, MutexInv, Holds, LockFree

(***************************************************************************)
(* No claimed row appears or changes, no task newly passes the check of    *)
(* the slot, and the clock does not go back.                               *)
(***************************************************************************)
ClaimsShrink ==
    /\ \A i \in RowsWith("claimed")' :
          /\ i \in RowsWith("claimed")
          /\ signups'[i].claimedAt = signups[i].claimedAt
          /\ signups'[i].deadline = signups[i].deadline
    /\ now' >= now

ChecksShrink == \A t \in Tasks : At(t, "claimWrite")' => At(t, "claimWrite")

LEMMA ShrinkKeeps ==
    ASSUME TypeOK, TypeOK', ClaimsOrdered, CheckHolds, ClaimsShrink, ChecksShrink
    PROVE  ClaimsOrdered' /\ CheckHolds'
<1>0. now \in Nat /\ now' \in Nat
  BY DEF TypeOK, Time
<1>1. ClaimsOrdered'
  BY <1>0 DEF ClaimsOrdered, ClaimsShrink, Time
<1>2. CheckHolds'
  <2>. SUFFICES ASSUME NEW t \in Tasks, At(t, "claimWrite")',
                       NEW i \in RowsWith("claimed")'
                PROVE  signups'[i].deadline <= now'
    BY DEF CheckHolds
  <2>1. i \in RowsWith("claimed") /\ signups'[i].deadline = signups[i].deadline
    BY DEF ClaimsShrink
  <2>2. signups[i].deadline <= now
    BY <2>1 DEF ChecksShrink, CheckHolds
  <2>3. signups[i].deadline \in Nat
    BY <2>1 DEF ClaimsOrdered, Time
  <2>. QED BY <2>1, <2>2, <2>3 DEF ClaimsShrink, TypeOK, Time
<1>. QED BY <1>1, <1>2

(***************************************************************************)
(* Setting a status other than `claimed` only takes claimed rows away.     *)
(***************************************************************************)
LEMMA SetStatusShrinks ==
    ASSUME NEW i, NEW from, NEW to \in Status \ {"claimed"},
           TypeOK, SetStatus(i, from, to), now' = now
    PROVE  ClaimsShrink
<1>1. signups \in Seq(Signup)
  BY DEF TypeOK
<1>2. DOMAIN signups' = DOMAIN signups
  BY <1>1, SetStatusType DEF Status
<1>3. ASSUME NEW j \in RowsWith("claimed")' PROVE signups'[j] = signups[j]
  BY <1>1, <1>2, <1>3 DEF SetStatus, RowsWith, Status
<1>. QED BY <1>2, <1>3 DEF ClaimsShrink, RowsWith, TypeOK, Time

LEMMA SlotInit == Init => SlotInv
<1>. SUFFICES ASSUME Init PROVE SlotInv
  OBVIOUS
<1>1. RowsWith("claimed") = {}
  BY DEF Init, RowsWith
<1>2. MutexInv
  BY DEF Init, MutexInv, Holds, Idle, Off
<1>3. ClaimsOrdered
  BY <1>1 DEF ClaimsOrdered
<1>4. CheckHolds
  BY <1>1 DEF CheckHolds
<1>. QED BY <1>2, <1>3, <1>4 DEF SlotInv

(***************************************************************************)
(* Every step keeps SlotInv.  ClaimCheck and ClaimWrite are where the slot *)
(* changes hands; everything else only lets claims go.                     *)
(***************************************************************************)
LEMMA SlotStep == TypeOK /\ TypeOK' /\ SlotInv /\ [Next]_vars => SlotInv'
<1>. SUFFICES ASSUME TypeOK, TypeOK', SlotInv, [Next]_vars PROVE SlotInv'
  OBVIOUS
<1>. USE ConfigAssumption
<1>0. /\ op \in [Tasks -> Op] /\ now \in Nat /\ now' \in Nat /\ slotSecs \in Nat \ {0}
      /\ MutexInv /\ ClaimsOrdered /\ CheckHolds
  BY DEF TypeOK, Time, SlotInv
\* Steps that change neither a claim nor the mutex's holder for the worse.
<1>1. ASSUME MutexInv', ClaimsShrink, ChecksShrink PROVE SlotInv'
  BY <1>0, <1>1, ShrinkKeeps DEF SlotInv
<1>2. ASSUME UNCHANGED <<now, signups>> PROVE ClaimsShrink
  BY <1>0, <1>2 DEF ClaimsShrink, RowsWith
<1>3. ASSUME NEW t \in Tasks, NEW o, Goto(t, o), o.pc # "claimWrite" PROVE ChecksShrink
  BY <1>0, <1>3 DEF Goto, ChecksShrink, At
<1>4. Idle.pc = "idle"
  BY DEF Idle
<1>5. ASSUME NEW t \in Tasks, NEW p \in Pubkeys, SignupStamp(t, p) PROVE SlotInv'
  BY <1>5, <1>0, <1>1, <1>2, <1>3, MutexKept DEF SignupStamp
<1>6. ASSUME NEW t \in Tasks, NEW p \in Pubkeys, ClaimLock(t, p) PROVE SlotInv'
  <2>1. PICK i \in DOMAIN signups : Goto(t, [pc |-> "claimCheck", id |-> i])
    BY <1>6 DEF ClaimLock
  <2>. QED BY <1>6, <2>1, <1>0, <1>1, <1>2, <1>3, MutexKept DEF ClaimLock
<1>7. ASSUME NEW t \in Tasks, NEW p \in Pubkeys, WithdrawLock(t, p) PROVE SlotInv'
  <2>1. PICK i \in ActiveRows(p) : Goto(t, [pc |-> "withdraw", id |-> i])
    BY <1>7 DEF WithdrawLock
  <2>. QED BY <1>7, <2>1, <1>0, <1>1, <1>2, <1>3, MutexKept DEF WithdrawLock
<1>8. ASSUME NEW t \in Tasks, ContributeLock(t) PROVE SlotInv'
  BY <1>8, <1>0, <1>1, <1>2, <1>3, MutexKept DEF ContributeLock
<1>9. ASSUME NEW t \in Tasks, SignupInsert(t) PROVE SlotInv'
  <2>1. MutexInv' /\ ChecksShrink
    BY <1>9, <1>0, <1>3, <1>4, MutexKept DEF SignupInsert, Finish
  <2>2. ClaimsShrink
    <3>1. \A i \in DOMAIN signups' :
             \/ i \in DOMAIN signups /\ signups'[i] = signups[i]
             \/ signups'[i].status = "queued"
      BY <1>9 DEF SignupInsert, TypeOK
    <3>. QED BY <1>9, <3>1, <1>0 DEF SignupInsert, ClaimsShrink, RowsWith
  <2>. QED BY <2>1, <2>2, <1>1
<1>10. ASSUME NEW t \in Tasks, ClaimCheck(t) PROVE SlotInv'
  <2>1. Goto(t, [op[t] EXCEPT !.pc = "claimWrite"]) /\ Holds(t) /\ UNCHANGED <<now, signups, reaper>>
    BY <1>10 DEF ClaimCheck, At, Holds
  <2>2. MutexInv'
    BY <2>1, <1>0, MutexKept
  <2>3. ClaimsOrdered'
    BY <2>1, <1>0 DEF ClaimsOrdered, RowsWith
  <2>4. ASSUME NEW i \in RowsWith("claimed") PROVE signups[i].deadline <= now
    <3>1. PICK c \in RowsWith("claimed") : IsCurrentClaim(c) /\ signups[c].deadline <= now
      BY <1>10 DEF ClaimCheck, SlotIsFree, IsCurrentClaim
    <3>2. signups[i].claimedAt <= signups[c].claimedAt
      BY <3>1 DEF IsCurrentClaim
    <3>. QED BY <3>1, <3>2, <1>0 DEF ClaimsOrdered, Time
  <2>5. CheckHolds'
    BY <2>1, <2>4 DEF CheckHolds, RowsWith
  <2>. QED BY <2>2, <2>3, <2>5 DEF SlotInv
<1>11. ASSUME NEW t \in Tasks, ClaimWrite(t) PROVE SlotInv'
  <2>1. /\ MutexInv' /\ ChecksShrink /\ Holds(t) /\ ~At(t, "claimWrite")'
        /\ now' = now
    BY <1>11, <1>0, <1>3, <1>4, MutexKept DEF ClaimWrite, Finish, At, Holds, Goto
  <2>2. CASE signups' = signups
    BY <1>11, <2>1, <2>2, <1>1, <1>2 DEF ClaimWrite
  <2>. DEFINE i == op[t].id
  <2>3. CASE /\ signups[i].status = "queued"
             /\ signups' = [signups EXCEPT ![i].status = "claimed",
                                           ![i].claimedAt = now,
                                           ![i].deadline = now + slotSecs]
    <3>1. \A j \in RowsWith("claimed") : signups[j].deadline <= now
      BY <1>11, <1>0 DEF ClaimWrite, CheckHolds
    <3>2. ASSUME NEW j \in RowsWith("claimed")'
          PROVE  \/ j \in RowsWith("claimed") /\ j # i /\ signups'[j] = signups[j]
                 \/ /\ j = i /\ signups'[j].claimedAt = now
                    /\ signups'[j].deadline = now + slotSecs
      <4>1. DOMAIN signups' = DOMAIN signups
        BY <2>3
      <4>2. CASE j # i
        BY <2>3, <4>1, <4>2 DEF RowsWith
      <4>3. CASE j = i
        <5>1. signups[i] \in Signup
          BY <4>1, <4>3 DEF RowsWith, TypeOK
        <5>. QED BY <2>3, <4>1, <4>3, <5>1 DEF RowsWith, Signup
      <4>. QED BY <4>2, <4>3
    <3>. HIDE DEF i
    <3>3. ClaimsOrdered'
      BY <3>1, <3>2, <1>0, <2>1 DEF ClaimsOrdered, Time
    <3>4. \A u \in Tasks : ~At(u, "claimWrite")'
      BY <1>0, <2>1 DEF ChecksShrink, MutexInv, At, Holds
    <3>. QED BY <2>1, <3>3, <3>4 DEF SlotInv, CheckHolds
  <2>. QED BY <1>11, <2>2, <2>3 DEF ClaimWrite
<1>12. ASSUME NEW t \in Tasks, WithdrawWrite(t) PROVE SlotInv'
  <2>1. MutexInv' /\ ChecksShrink
    BY <1>12, <1>0, <1>3, <1>4, MutexKept DEF WithdrawWrite, Finish
  <2>2. ClaimsShrink
    BY <1>12, SetStatusShrinks DEF WithdrawWrite, Status
  <2>. QED BY <2>1, <2>2, <1>1
<1>13. ASSUME NEW t \in Tasks, ReadBody(t) PROVE SlotInv'
  <2>1. PICK o : Goto(t, o) /\ o.pc = "verify"
    BY <1>13 DEF ReadBody
  <2>2. Holds(t) /\ UNCHANGED <<now, signups, reaper>>
    BY <1>13 DEF ReadBody, At, Holds
  <2>. QED BY <2>1, <2>2, <1>0, <1>1, <1>2, <1>3, MutexKept
<1>14. ASSUME NEW t \in Tasks, NEW pc \in ContributePcs, Holds(t),
              op[t] \in [pc : ContributePcs, up : Upload, prev : Round],
              Goto(t, [op[t] EXCEPT !.pc = pc]), UNCHANGED reaper
       PROVE  MutexInv' /\ ChecksShrink
  <2>1. [op[t] EXCEPT !.pc = pc].pc # "claimWrite"
    BY <1>14 DEF ContributePcs
  <2>. QED BY <1>14, <2>1, <1>0, <1>3, MutexKept
<1>15. ASSUME NEW t \in Tasks, op[t].pc \in ContributePcs
       PROVE  Holds(t) /\ op[t] \in [pc : ContributePcs, up : Upload, prev : Round]
  BY <1>15 DEF TypeOK, Op, Idle, ContributePcs, Holds
<1>16. ASSUME NEW t \in Tasks, VerifyUpload(t) PROVE SlotInv'
  BY <1>16, <1>14, <1>15, <1>1, <1>2 DEF VerifyUpload, At, ContributePcs
<1>17. ASSUME NEW t \in Tasks, InsertRound(t) PROVE SlotInv'
  BY <1>17, <1>14, <1>15, <1>1, <1>2 DEF InsertRound, At, ContributePcs
<1>18. ASSUME NEW t \in Tasks, FlipCommitted(t) PROVE SlotInv'
  <2>1. MutexInv' /\ ChecksShrink
    BY <1>18, <1>14, <1>15 DEF FlipCommitted, At, ContributePcs
  <2>2. ASSUME NEW i \in RowsWith("claimed")' PROVE i \in DOMAIN signups /\ signups'[i] = signups[i]
    <3>1. i \in DOMAIN signups /\ signups[i] \in Signup
      BY <1>18 DEF FlipCommitted, RowsWith, TypeOK
    <3>. QED BY <1>18, <3>1 DEF FlipCommitted, RowsWith, Signup
  <2>3. ClaimsShrink
    BY <1>18, <2>2, <1>0 DEF FlipCommitted, ClaimsShrink, RowsWith
  <2>. QED BY <2>1, <2>3, <1>1
<1>19. ASSUME NEW t \in Tasks, PublishRound(t) PROVE SlotInv'
  BY <1>19, <1>0, <1>1, <1>2, <1>3, <1>4, MutexKept DEF PublishRound, Finish
<1>20. ASSUME NEW t \in Tasks, Fail(t) PROVE SlotInv'
  BY <1>20, <1>0, <1>1, <1>2, <1>3, <1>4, MutexKept DEF Fail, Finish
\* The seed, the reaper, a restart and the clock.
<1>21. ASSUME UNCHANGED op PROVE ChecksShrink
  BY <1>21 DEF ChecksShrink, At
<1>22. ASSUME UNCHANGED op, reaper' = Off \/ reaper # Off \/ UNCHANGED reaper
       PROVE  MutexInv'
  BY <1>22, <1>0 DEF MutexInv, Holds
<1>23. CASE Seed
  BY <1>23, <1>1, <1>2, <1>21, <1>22 DEF Seed
<1>24. CASE ReapStart
  <2>1. MutexInv'
    BY <1>24, <1>0 DEF ReapStart, MutexInv, LockFree, Holds
  <2>. QED BY <1>24, <2>1, <1>1, <1>2, <1>21 DEF ReapStart
<1>25. CASE ReapStale
  <2>1. ClaimsShrink
    BY <1>25, SetStatusShrinks DEF ReapStale, Status
  <2>2. reaper # Off
    BY <1>25 DEF ReapStale, Off
  <2>. QED BY <1>25, <2>1, <2>2, <1>1, <1>21, <1>22 DEF ReapStale
<1>26. CASE ReapHead
  <2>1. reaper # Off
    <3>1. reaper.pc = "stale"
      BY <1>26 DEF ReapHead
    <3>. QED BY <3>1 DEF Off
  <2>2. UNCHANGED <<now, signups, op>>
    BY <1>26 DEF ReapHead
  <2>. QED BY <2>1, <2>2, <1>1, <1>2, <1>21, <1>22
<1>27. CASE ReapExpire
  <2>1. ClaimsShrink
    BY <1>27, SetStatusShrinks DEF ReapExpire, Status
  <2>. QED BY <1>27, <2>1, <1>1, <1>21, <1>22 DEF ReapExpire
<1>28. CASE ReapFail
  BY <1>28, <1>1, <1>2, <1>21, <1>22 DEF ReapFail
<1>29. CASE Restart
  <2>1. \A t \in Tasks : op'[t].pc = "idle"
    BY <1>29, <1>4 DEF Restart
  <2>2. MutexInv' /\ ChecksShrink
    BY <1>29, <2>1 DEF Restart, MutexInv, ChecksShrink, Holds, At
  <2>. QED BY <1>29, <2>2, <1>1, <1>2 DEF Restart
<1>30. CASE Tick
  <2>1. ClaimsShrink
    BY <1>30, <1>0 DEF Tick, ClaimsShrink, RowsWith
  <2>. QED BY <1>30, <2>1, <1>1, <1>21, <1>22 DEF Tick
<1>31. CASE UNCHANGED vars
  BY <1>31, <1>1, <1>2, <1>21, <1>22 DEF vars
<1>. QED BY <1>5, <1>6, <1>7, <1>8, <1>9, <1>10, <1>11, <1>12, <1>13, <1>16, <1>17,
            <1>18, <1>19, <1>20, <1>23, <1>24, <1>25, <1>26, <1>27, <1>28, <1>29,
            <1>30, <1>31 DEF Next, Arrival, Progress, Reap

(***************************************************************************)
(* Two live claims would have overlapping periods.                         *)
(***************************************************************************)
LEMMA SlotImplies == TypeOK /\ SlotInv => AtMostOneLiveClaim
<1>. SUFFICES ASSUME TypeOK, SlotInv, NEW i \in LiveClaims, NEW j \in LiveClaims, i # j
              PROVE  FALSE
  BY DEF AtMostOneLiveClaim
<1>. QED BY DEF LiveClaims, SlotInv, ClaimsOrdered, TypeOK, Time

(***************************************************************************)
(* The mutex excludes, claim periods are disjoint and a checked slot stays *)
(* free until it is written, in every behaviour of the coordinator.        *)
(***************************************************************************)
THEOREM SlotInvariant == Spec => []SlotInv
BY TypeCorrect, SlotInit, SlotStep, PTL DEF Spec

(***************************************************************************)
(* The coordinator never gives a tier's slot to two participants at once   *)
(* (queue.rs, slot.rs).                                                    *)
(***************************************************************************)
THEOREM SlotExclusive == Spec => []AtMostOneLiveClaim
BY TypeCorrect, SlotInvariant, SlotImplies, PTL

-------------------------------------------------------------------------------
(* The rounds form the append-only chain of CeremonyTranscript.            *)

LEMMA ChainInit == Init => ChainInv /\ Transcript!NothingPublished
<1>. SUFFICES ASSUME Init PROVE ChainInv /\ Transcript!NothingPublished
  OBVIOUS
<1>1. DOMAIN rounds = {}
  BY DEF Init
<1>2. ChainInv
  BY <1>1 DEF Init, ChainInv, GapFree, PrevIsPublished, Idle, ContributePcs
<1>3. [r \in DOMAIN rounds |-> rounds[r].srs] = [r \in {} |-> Transcript!Genesis]
  BY <1>1
<1>. QED BY <1>2, <1>3 DEF Transcript!NothingPublished

(***************************************************************************)
(* A step that leaves the rounds' numbers and SRSs alone keeps ChainInv    *)
(* and the chain, if an upload it brings into the works was looked up.     *)
(***************************************************************************)
LEMMA ChainKept ==
    ASSUME ChainInv,
           DOMAIN rounds' = DOMAIN rounds,
           \A r \in DOMAIN rounds : rounds'[r].srs = rounds[r].srs,
           PrevIsPublished'
    PROVE  ChainInv' /\ UNCHANGED [r \in DOMAIN rounds |-> rounds[r].srs]
BY DEF ChainInv, GapFree

(***************************************************************************)
(* Every step keeps ChainInv and is a step of the abstract chain, or       *)
(* leaves the chain alone.  Only Seed and InsertRound extend it.           *)
(***************************************************************************)
LEMMA ChainStep ==
    TypeOK /\ ChainInv /\ [Next]_vars =>
        ChainInv' /\ [Transcript!PublishSeed \/ Transcript!PublishNext]_(
                          [r \in DOMAIN rounds |-> rounds[r].srs])
<1>. DEFINE chain == [r \in DOMAIN rounds |-> rounds[r].srs]
            Goal == ChainInv' /\ [Transcript!PublishSeed \/ Transcript!PublishNext]_chain
<1>. SUFFICES ASSUME TypeOK, ChainInv, [Next]_vars PROVE Goal
  OBVIOUS
<1>0. op \in [Tasks -> Op] /\ PrevIsPublished
  BY DEF TypeOK, ChainInv
\* A step that does not touch the rounds and brings no upload nearer its insertion.
<1>1. ASSUME UNCHANGED rounds, PrevIsPublished' PROVE Goal
  BY <1>1, ChainKept
<1>2. ASSUME NEW t \in Tasks, NEW o, Goto(t, o), UNCHANGED rounds,
             o.pc \notin ContributePcs
      PROVE  Goal
  BY <1>2, <1>0, <1>1 DEF Goto, PrevIsPublished
<1>3. ASSUME UNCHANGED <<rounds, op>> PROVE Goal
  BY <1>3, <1>0, <1>1 DEF PrevIsPublished
<1>4. Idle.pc \notin ContributePcs
  BY DEF Idle, ContributePcs
<1>5. ASSUME NEW t \in Tasks, Arrival(t) PROVE Goal
  <2>1. UNCHANGED rounds
    BY <1>5 DEF Arrival, SignupStamp, ClaimLock, WithdrawLock, ContributeLock
  <2>2. ASSUME NEW p \in Pubkeys, SignupStamp(t, p) PROVE Goal
    <3>1. [pc |-> "signup", pk |-> p, joined |-> now].pc \notin ContributePcs
      BY DEF ContributePcs
    <3>. QED BY <2>1, <2>2, <3>1, <1>2 DEF SignupStamp
  <2>3. ASSUME NEW p \in Pubkeys, ClaimLock(t, p) PROVE Goal
    <3>1. PICK i : Goto(t, [pc |-> "claimCheck", id |-> i])
      BY <2>3 DEF ClaimLock
    <3>2. [pc |-> "claimCheck", id |-> i].pc \notin ContributePcs
      BY DEF ContributePcs
    <3>. QED BY <2>1, <3>1, <3>2, <1>2
  <2>4. ASSUME NEW p \in Pubkeys, WithdrawLock(t, p) PROVE Goal
    <3>1. PICK i : Goto(t, [pc |-> "withdraw", id |-> i])
      BY <2>4 DEF WithdrawLock
    <3>2. [pc |-> "withdraw", id |-> i].pc \notin ContributePcs
      BY DEF ContributePcs
    <3>. QED BY <2>1, <3>1, <3>2, <1>2
  <2>5. CASE ContributeLock(t)
    <3>1. [pc |-> "body"].pc \notin ContributePcs
      BY DEF ContributePcs
    <3>. QED BY <2>1, <2>5, <3>1, <1>2 DEF ContributeLock
  <2>. QED BY <1>5, <2>2, <2>3, <2>4, <2>5 DEF Arrival
<1>6. ASSUME NEW t \in Tasks,
             \/ SignupInsert(t) \/ ClaimWrite(t) \/ WithdrawWrite(t) \/ Fail(t)
      PROVE  Goal
  <2>1. Goto(t, Idle) /\ UNCHANGED rounds
    BY <1>6 DEF SignupInsert, ClaimWrite, WithdrawWrite, Fail, Finish
  <2>. QED BY <2>1, <1>2, <1>4
<1>7. ASSUME NEW t \in Tasks, ClaimCheck(t) PROVE Goal
  <2>1. Goto(t, [op[t] EXCEPT !.pc = "claimWrite"]) /\ UNCHANGED rounds
    BY <1>7 DEF ClaimCheck
  <2>2. [op[t] EXCEPT !.pc = "claimWrite"].pc \notin ContributePcs
    BY <1>7 DEF ClaimCheck, At, TypeOK, Op, Idle, ContributePcs
  <2>. QED BY <2>1, <2>2, <1>2
<1>8. ASSUME NEW t \in Tasks, ReadBody(t) PROVE Goal
  <2>1. PICK r \in 1..MaxRound, base \in DOMAIN rounds, p \in Participants :
           /\ r - 1 \in DOMAIN rounds
           /\ Goto(t, [pc   |-> "verify",
                       up   |-> [round |-> r, before |-> rounds[base].srs, pk |-> p],
                       prev |-> rounds[r - 1]])
    BY <1>8 DEF ReadBody
  <2>2. UNCHANGED rounds
    BY <1>8 DEF ReadBody
  <2>3. PrevIsPublished'
    BY <2>1, <2>2, <1>0 DEF Goto, PrevIsPublished
  <2>. QED BY <2>2, <2>3, <1>1
<1>9. ASSUME NEW t \in Tasks, op[t].pc \in ContributePcs
      PROVE  op[t] \in [pc : ContributePcs, up : Upload, prev : Round]
  BY <1>9 DEF TypeOK, Op, Idle, ContributePcs
<1>10. ASSUME NEW t \in Tasks, VerifyUpload(t) PROVE Goal
  <2>1. /\ UNCHANGED rounds /\ op[t].up.before = op[t].prev.srs
        /\ Goto(t, [op[t] EXCEPT !.pc = "insert"])
        /\ op[t] \in [pc : ContributePcs, up : Upload, prev : Round]
    BY <1>10, <1>9 DEF VerifyUpload, VerifiesAgainst, At, ContributePcs
  <2>2. PrevIsPublished'
    BY <2>1, <1>0 DEF Goto, PrevIsPublished
  <2>. QED BY <2>1, <2>2, <1>1
<1>11. ASSUME NEW t \in Tasks, FlipCommitted(t) PROVE Goal
  <2>1. /\ UNCHANGED rounds /\ op[t].pc = "flip"
        /\ Goto(t, [op[t] EXCEPT !.pc = "publish"])
        /\ op[t] \in [pc : ContributePcs, up : Upload, prev : Round]
    BY <1>11, <1>9 DEF FlipCommitted, At, ContributePcs
  <2>2. PrevIsPublished'
    BY <2>1, <1>0 DEF Goto, PrevIsPublished
  <2>. QED BY <2>1, <2>2, <1>1
<1>12. ASSUME NEW t \in Tasks, PublishRound(t) PROVE Goal
  <2>1. /\ DOMAIN rounds' = DOMAIN rounds
        /\ \A r \in DOMAIN rounds : rounds'[r].srs = rounds[r].srs
    <3>1. CASE rounds' = rounds
      BY <3>1
    <3>2. CASE rounds' = [rounds EXCEPT ![op[t].up.round].ev = op[t].up.round]
      BY <3>2 DEF TypeOK, Round
    <3>. QED BY <1>12, <3>1, <3>2 DEF PublishRound
  <2>2. Goto(t, Idle)
    BY <1>12 DEF PublishRound, Finish
  <2>3. PrevIsPublished'
    BY <2>1, <2>2, <1>0, <1>4 DEF Goto, PrevIsPublished
  <2>. QED BY <2>1, <2>3, ChainKept
<1>13. ASSUME NEW t \in Tasks, InsertRound(t) PROVE Goal
  <2>. DEFINE r == op[t].up.round
              row == [srs |-> Contribute(op[t].up.before, op[t].up.pk),
                      pk |-> op[t].up.pk, at |-> now, ev |-> Null,
                      prevEv |-> op[t].prev.ev]
  <2>1. /\ op[t].pc = "insert"
        /\ op[t] \in [pc : ContributePcs, up : Upload, prev : Round]
        /\ Goto(t, [op[t] EXCEPT !.pc = "flip"])
        /\ r \notin DOMAIN rounds
        /\ rounds' = [q \in DOMAIN rounds \cup {r} |-> IF q = r THEN row ELSE rounds[q]]
    BY <1>13, <1>9 DEF InsertRound, At, ContributePcs, RoundUnused, AddRound
  <2>2. /\ r - 1 \in DOMAIN rounds
        /\ op[t].up.before = rounds[r - 1].srs
    BY <2>1, <1>0 DEF PrevIsPublished, ContributePcs
  <2>3. r \in Nat /\ op[t].up.pk \in Participants
    BY <2>1 DEF Upload
  <2>4. PICK head \in DOMAIN rounds : DOMAIN rounds = 0..head
    BY <2>2 DEF ChainInv, GapFree
  <2>5. head \in Nat /\ r = head + 1
    BY <2>1, <2>2, <2>3, <2>4 DEF TypeOK
  <2>6. DOMAIN rounds' = 0..(head + 1)
    BY <2>1, <2>4, <2>5
  <2>7. \A q \in DOMAIN rounds : rounds'[q] = rounds[q]
    BY <2>1
  <2>8. rounds'[head + 1].srs = Contribute(rounds[head].srs, op[t].up.pk)
    BY <2>1, <2>2, <2>5
  <2>. HIDE DEF r, row
  <2>9. chain' = [q \in 0..(head + 1) |->
                    IF q <= head THEN chain[q]
                                 ELSE Contribute(chain[head], op[t].up.pk)]
    BY <2>4, <2>5, <2>6, <2>7, <2>8
  <2>10. Transcript!PublishNext
    BY <2>3, <2>4, <2>9 DEF Transcript!PublishNext, Transcript!Contribute, Contribute,
                           Transcript!Participants, Participants
  <2>11. PrevIsPublished'
    BY <2>1, <2>6, <2>7, <2>4, <1>0 DEF Goto, PrevIsPublished, ContributePcs
  <2>12. GapFree'
    BY <2>5, <2>6 DEF GapFree
  <2>. QED BY <2>10, <2>11, <2>12 DEF ChainInv
<1>14. CASE Seed
  <2>1. PICK e \in {0, Null} :
           rounds' = [q \in DOMAIN rounds \cup {0} |->
                        IF q = 0 THEN [srs |-> Genesis, pk |-> NoPubkey, at |-> now,
                                       ev |-> e, prevEv |-> Null]
                        ELSE rounds[q]]
    BY <1>14 DEF Seed, AddRound
  <2>2. 0 \notin DOMAIN rounds /\ UNCHANGED op
    BY <1>14 DEF Seed, RoundUnused
  <2>3. DOMAIN rounds = {}
    BY <2>2 DEF ChainInv, GapFree, TypeOK
  <2>4. DOMAIN rounds' = {0} /\ rounds'[0].srs = Genesis
    BY <2>1, <2>3
  <2>5. chain' = [q \in {0} |-> Genesis] /\ DOMAIN chain = {}
    BY <2>3, <2>4
  <2>6. Transcript!PublishSeed
    BY <2>5 DEF Transcript!PublishSeed, Transcript!Genesis, Genesis
  <2>7. ChainInv'
    BY <2>2, <2>3, <2>4, <1>0 DEF ChainInv, GapFree, PrevIsPublished
  <2>. QED BY <2>6, <2>7
<1>15. CASE Reap
  BY <1>15, <1>3 DEF Reap, ReapStart, ReapStale, ReapHead, ReapExpire, ReapFail
<1>16. CASE Restart
  <2>1. \A t \in Tasks : op'[t].pc \notin ContributePcs
    BY <1>16, <1>4 DEF Restart
  <2>. QED BY <1>16, <2>1, <1>1 DEF Restart, PrevIsPublished
<1>17. CASE Tick
  BY <1>17, <1>3 DEF Tick
<1>18. CASE UNCHANGED vars
  BY <1>18, <1>3 DEF vars
<1>. HIDE DEF Goal
<1>. QED BY <1>5, <1>6, <1>7, <1>8, <1>10, <1>11, <1>12, <1>13, <1>14, <1>15, <1>16,
            <1>17, <1>18 DEF Next, Progress

(***************************************************************************)
(* Whatever participants upload, in whatever order and however often, the  *)
(* rounds table is an append-only chain of verified contributions          *)
(* (upload.rs, ceremony_tool.rs): the detailed specification implements    *)
(* the abstract one.                                                       *)
(***************************************************************************)
THEOREM ChainRefinement == Spec => ImplementsTranscript
BY ChainInit, ChainStep, TypeCorrect, PTL
   DEF Spec, ImplementsTranscript, Transcript!ChainSpec

(***************************************************************************)
(* Rounds have no gap, and an upload's predecessor stays what it was       *)
(* verified against until the upload is inserted (upload.rs:83-199).       *)
(***************************************************************************)
THEOREM ChainInvariant == Spec => []ChainInv
BY ChainInit, ChainStep, TypeCorrect, PTL DEF Spec

-------------------------------------------------------------------------------
(* The queue is first in, first out, final statuses are final, and the     *)
(* rounds' events form a chain.                                            *)

(***************************************************************************)
(* Between the step that finds a row and the one that writes it, a claim's *)
(* row stays first among the older ones, and a withdrawal's row active.    *)
(* The first holds because signups are appended and nobody returns to the  *)
(* queue; the second because of the mutex.                                 *)
(***************************************************************************)
First(i) ==
    /\ i \in DOMAIN signups
    /\ \A j \in RowsWith("queued") : j < i => signups[j].joined > signups[i].joined

Active(i) == i \in DOMAIN signups /\ signups[i].status \in {"queued", "claimed"}

QueueInv ==
    \A t \in Tasks :
        /\ op[t].pc \in {"claimCheck", "claimWrite"} => First(op[t].id)
        /\ op[t].pc = "withdraw" => Active(op[t].id)

-------------------------------------------------------------------------------
(* What a step does to rows and to the handlers' locals.                   *)

(***************************************************************************)
(* A row that is in the table stays there with its stamp, and keeps its    *)
(* status but for one of four statements.                                  *)
(***************************************************************************)
Taken(i) ==
    /\ signups[i].status = "queued" /\ signups'[i].status = "claimed"
    /\ \E t \in Tasks : At(t, "claimWrite") /\ op[t].id = i /\ op'[t] = Idle

Left(i) ==
    /\ signups'[i].status = "withdrawn"
    /\ \E t \in Tasks : At(t, "withdraw") /\ op[t].id = i /\ op'[t] = Idle

Flipped(i) ==
    /\ signups[i].status = "claimed" /\ signups'[i].status = "committed"
    /\ \E t \in Tasks : At(t, "flip") /\ op'[t].pc = "publish"

Reaped(i) ==
    /\ signups[i].status \in {"queued", "claimed"} /\ signups'[i].status = "expired"
    /\ reaper # Off

RowStep ==
    \A i \in DOMAIN signups :
        /\ i \in DOMAIN signups' /\ signups'[i].joined = signups[i].joined
        /\ signups'[i].status = signups[i].status \/ Taken(i) \/ Left(i) \/ Flipped(i) \/ Reaped(i)

(***************************************************************************)
(* New rows come last.                                                     *)
(***************************************************************************)
Appended == \A i \in DOMAIN signups' \ DOMAIN signups, j \in DOMAIN signups : j < i

LEMMA UnchangedRows ==
    ASSUME UNCHANGED signups PROVE RowStep /\ Appended
BY DEF RowStep, Appended

(***************************************************************************)
(* A status that is set through SetStatus is set in one row.               *)
(***************************************************************************)
LEMMA SetStatusRow ==
    ASSUME NEW i, NEW from, NEW to \in Status, TypeOK, SetStatus(i, from, to)
    PROVE  /\ DOMAIN signups' = DOMAIN signups
           /\ \A j \in DOMAIN signups :
                 /\ signups'[j].joined = signups[j].joined
                 /\ \/ signups'[j].status = signups[j].status
                    \/ /\ j = i /\ signups[j].status \in from
                       /\ signups'[j].status = to
<1>1. signups \in Seq(Signup) /\ DOMAIN signups' = DOMAIN signups
  BY SetStatusType DEF TypeOK
<1>2. ASSUME NEW j \in DOMAIN signups
      PROVE  /\ signups'[j].joined = signups[j].joined
             /\ \/ signups'[j].status = signups[j].status
                \/ /\ j = i /\ signups[j].status \in from
                   /\ signups'[j].status = to
  <2>1. signups[j] \in Signup
    BY <1>1
  <2>2. CASE signups' = signups
    BY <2>2
  <2>3. CASE signups[i].status \in from /\ signups' = [signups EXCEPT ![i].status = to]
    <3>1. CASE j = i
      BY <2>1, <2>3, <3>1 DEF Signup
    <3>2. CASE j # i
      BY <2>3, <3>2
    <3>. QED BY <3>1, <3>2
  <2>. QED BY <2>2, <2>3 DEF SetStatus
<1>. QED BY <1>1, <1>2

LEMMA RowsStep == TypeOK /\ [Next]_vars => RowStep /\ Appended
<1>. SUFFICES ASSUME TypeOK, [Next]_vars PROVE RowStep /\ Appended
  OBVIOUS
<1>0. op \in [Tasks -> Op] /\ signups \in Seq(Signup)
  BY DEF TypeOK
<1>1. ASSUME NEW t \in Tasks, SignupInsert(t) PROVE RowStep /\ Appended
  <2>1. PICK row : signups' = Append(signups, row)
    BY <1>1 DEF SignupInsert
  <2>2. \A i \in DOMAIN signups : i \in DOMAIN signups' /\ signups'[i] = signups[i]
    BY <2>1, <1>0
  <2>3. Appended
    BY <2>1, <1>0 DEF Appended
  <2>. QED BY <2>2, <2>3 DEF RowStep
<1>2. ASSUME NEW t \in Tasks, ClaimWrite(t) PROVE RowStep /\ Appended
  <2>. DEFINE i == op[t].id
  <2>1. At(t, "claimWrite") /\ op'[t] = Idle
    BY <1>2, <1>0 DEF ClaimWrite, Finish, Goto
  <2>2. CASE /\ signups[i].status = "queued"
             /\ signups' = [signups EXCEPT ![i].status = "claimed",
                                           ![i].claimedAt = now,
                                           ![i].deadline = now + slotSecs]
    <3>1. DOMAIN signups' = DOMAIN signups
      BY <2>2
    <3>2. ASSUME NEW j \in DOMAIN signups, j # i PROVE signups'[j] = signups[j]
      BY <2>2, <3>2
    <3>3. ASSUME i \in DOMAIN signups
          PROVE  signups'[i].joined = signups[i].joined /\ signups'[i].status = "claimed"
      <4>1. signups[i] \in Signup
        BY <3>3, <1>0
      <4>. QED BY <2>2, <3>3, <4>1 DEF Signup
    <3>4. ASSUME NEW j \in DOMAIN signups
          PROVE  /\ signups'[j].joined = signups[j].joined
                 /\ signups'[j].status = signups[j].status \/ Taken(j)
      <4>1. CASE j = i
        BY <2>1, <2>2, <3>3, <4>1 DEF Taken
      <4>2. CASE j # i
        BY <3>2, <4>2
      <4>. QED BY <4>1, <4>2
    <3>. QED BY <3>1, <3>4 DEF RowStep, Appended
  <2>. QED BY <1>2, <2>2, UnchangedRows DEF ClaimWrite
<1>3. ASSUME NEW t \in Tasks, WithdrawWrite(t) PROVE RowStep /\ Appended
  <2>1. At(t, "withdraw") /\ op'[t] = Idle /\ SetStatus(op[t].id, Status, "withdrawn")
    BY <1>3, <1>0 DEF WithdrawWrite, Finish, Goto
  <2>. QED BY <2>1, SetStatusRow DEF RowStep, Appended, Left, Status
<1>4. ASSUME NEW t \in Tasks, FlipCommitted(t) PROVE RowStep /\ Appended
  <2>1. At(t, "flip") /\ op'[t].pc = "publish"
    <3>1. op[t] \in [pc : ContributePcs, up : Upload, prev : Round]
      BY <1>4, <1>0 DEF FlipCommitted, At, Op, Idle, ContributePcs
    <3>. QED BY <1>4, <1>0, <3>1 DEF FlipCommitted, Goto
  <2>2. DOMAIN signups' = DOMAIN signups
    BY <1>4 DEF FlipCommitted
  <2>3. ASSUME NEW i \in DOMAIN signups
        PROVE  /\ signups'[i].joined = signups[i].joined
               /\ signups'[i].status = signups[i].status \/ Flipped(i)
    <3>1. signups[i] \in Signup
      BY <1>0
    <3>. QED BY <1>4, <2>1, <3>1 DEF FlipCommitted, Flips, Flipped, Signup
  <2>. QED BY <2>2, <2>3 DEF RowStep, Appended
<1>5. CASE ReapStale
  <2>1. reaper # Off
    BY <1>5 DEF ReapStale, Off
  <2>2. PICK i : SetStatus(i, {"claimed"}, "expired")
    BY <1>5 DEF ReapStale
  <2>. QED BY <2>1, <2>2, SetStatusRow DEF RowStep, Appended, Reaped, Status
<1>6. CASE ReapExpire
  <2>1. reaper # Off /\ SetStatus(reaper.head, {"queued"}, "expired")
    BY <1>6 DEF ReapExpire, Off
  <2>. QED BY <2>1, SetStatusRow DEF RowStep, Appended, Reaped, Status
<1>7. ASSUME NEW t \in Tasks,
             \/ Arrival(t) \/ ClaimCheck(t) \/ ReadBody(t) \/ VerifyUpload(t)
             \/ InsertRound(t) \/ PublishRound(t) \/ Fail(t)
      PROVE  UNCHANGED signups
  BY <1>7 DEF Arrival, SignupStamp, ClaimLock, WithdrawLock, ContributeLock, ClaimCheck,
              ReadBody, VerifyUpload, InsertRound, PublishRound, Fail
<1>8. CASE Seed \/ ReapStart \/ ReapHead \/ ReapFail \/ Restart \/ Tick \/ UNCHANGED vars
  BY <1>8, UnchangedRows DEF Seed, ReapStart, ReapHead, ReapFail, Restart, Tick, vars
<1>. QED BY <1>1, <1>2, <1>3, <1>4, <1>5, <1>6, <1>7, <1>8, UnchangedRows
         DEF Next, Progress, Reap

(***************************************************************************)
(* Which row a handler works on, it has from the step before or from the   *)
(* lookup that starts it.                                                  *)
(***************************************************************************)
RowPcs == {"claimCheck", "claimWrite", "withdraw"}

LocalStep(t) ==
    \/ op'[t] = op[t]
    \/ op'[t].pc \notin RowPcs
    \/ op'[t].pc = "claimWrite" /\ op[t].pc = "claimCheck" /\ op'[t].id = op[t].id
    \/ op'[t].pc = "claimCheck" /\ UNCHANGED signups /\ IsHead(op'[t].id)
    \/ op'[t].pc = "withdraw" /\ UNCHANGED signups /\ Active(op'[t].id)

LEMMA LocalsStep == TypeOK /\ [Next]_vars => \A t \in Tasks : LocalStep(t)
<1>. SUFFICES ASSUME TypeOK, [Next]_vars PROVE \A t \in Tasks : LocalStep(t)
  OBVIOUS
<1>0. op \in [Tasks -> Op] /\ Idle.pc \notin RowPcs
  BY DEF TypeOK, Idle, RowPcs
<1>1. ASSUME NEW t \in Tasks, NEW o, Goto(t, o),
             o.pc \in RowPcs => op'[t] = o /\ LocalStep(t)
      PROVE  \A u \in Tasks : LocalStep(u)
  BY <1>1, <1>0 DEF Goto, LocalStep
<1>2. ASSUME UNCHANGED op PROVE \A u \in Tasks : LocalStep(u)
  BY <1>2 DEF LocalStep
<1>3. ASSUME NEW t \in Tasks, NEW p \in Pubkeys, SignupStamp(t, p)
      PROVE  \A u \in Tasks : LocalStep(u)
  BY <1>3, <1>1 DEF SignupStamp, RowPcs
<1>4. ASSUME NEW t \in Tasks, NEW p \in Pubkeys, ClaimLock(t, p)
      PROVE  \A u \in Tasks : LocalStep(u)
  <2>1. PICK i : IsHead(i) /\ Goto(t, [pc |-> "claimCheck", id |-> i]) /\ UNCHANGED signups
    BY <1>4 DEF ClaimLock
  <2>2. op'[t] = [pc |-> "claimCheck", id |-> i]
    BY <2>1, <1>0 DEF Goto
  <2>. QED BY <2>1, <2>2, <1>1 DEF LocalStep
<1>5. ASSUME NEW t \in Tasks, NEW p \in Pubkeys, WithdrawLock(t, p)
      PROVE  \A u \in Tasks : LocalStep(u)
  <2>1. PICK i \in ActiveRows(p) : Goto(t, [pc |-> "withdraw", id |-> i]) /\ UNCHANGED signups
    BY <1>5 DEF WithdrawLock
  <2>2. op'[t] = [pc |-> "withdraw", id |-> i] /\ Active(i)
    BY <2>1, <1>0 DEF Goto, ActiveRows, RowsWith, Active
  <2>. QED BY <2>1, <2>2, <1>1 DEF LocalStep
<1>6. ASSUME NEW t \in Tasks, ContributeLock(t) PROVE \A u \in Tasks : LocalStep(u)
  BY <1>6, <1>1 DEF ContributeLock, RowPcs
<1>7. ASSUME NEW t \in Tasks, ClaimCheck(t) PROVE \A u \in Tasks : LocalStep(u)
  <2>1. op[t] \in [pc : {"claimCheck", "claimWrite", "withdraw"}, id : Nat]
    BY <1>7, <1>0 DEF ClaimCheck, At, Op, Idle, ContributePcs
  <2>2. /\ Goto(t, [op[t] EXCEPT !.pc = "claimWrite"])
        /\ op'[t].pc = "claimWrite" /\ op[t].pc = "claimCheck" /\ op'[t].id = op[t].id
    BY <1>7, <1>0, <2>1 DEF ClaimCheck, At, Goto
  <2>3. op'[t] = [op[t] EXCEPT !.pc = "claimWrite"]
    BY <2>2, <1>0 DEF Goto
  <2>. QED BY <2>2, <2>3, <1>1 DEF LocalStep
<1>8. ASSUME NEW t \in Tasks,
             \/ SignupInsert(t) \/ ClaimWrite(t) \/ WithdrawWrite(t) \/ PublishRound(t) \/ Fail(t)
      PROVE  \A u \in Tasks : LocalStep(u)
  <2>1. Goto(t, Idle)
    BY <1>8 DEF SignupInsert, ClaimWrite, WithdrawWrite, PublishRound, Fail, Finish
  <2>. QED BY <2>1, <1>0, <1>1
<1>9. ASSUME NEW t \in Tasks, ReadBody(t) PROVE \A u \in Tasks : LocalStep(u)
  <2>1. PICK o : Goto(t, o) /\ o.pc = "verify"
    BY <1>9 DEF ReadBody
  <2>. QED BY <2>1, <1>1 DEF RowPcs
<1>10. ASSUME NEW t \in Tasks, VerifyUpload(t) \/ InsertRound(t) \/ FlipCommitted(t)
       PROVE  \A u \in Tasks : LocalStep(u)
  <2>1. op[t] \in [pc : ContributePcs, up : Upload, prev : Round]
    BY <1>10, <1>0 DEF VerifyUpload, InsertRound, FlipCommitted, At, Op, Idle, ContributePcs
  <2>2. PICK pc \in ContributePcs : Goto(t, [op[t] EXCEPT !.pc = pc])
    BY <1>10 DEF VerifyUpload, InsertRound, FlipCommitted, ContributePcs
  <2>3. [op[t] EXCEPT !.pc = pc].pc \notin RowPcs
    BY <2>1, <2>2 DEF ContributePcs, RowPcs
  <2>. QED BY <2>2, <2>3, <1>1
<1>11. CASE Seed \/ Reap \/ Tick \/ UNCHANGED vars
  BY <1>11, <1>2 DEF Seed, Reap, ReapStart, ReapStale, ReapHead, ReapExpire, ReapFail, Tick, vars
<1>12. CASE Restart
  BY <1>12, <1>0 DEF Restart, LocalStep
<1>. QED BY <1>3, <1>4, <1>5, <1>6, <1>7, <1>8, <1>9, <1>10, <1>11, <1>12
         DEF Next, Arrival, Progress

-------------------------------------------------------------------------------
(* The queue.                                                              *)

LEMMA QueueInit == Init => QueueInv
BY DEF Init, QueueInv, Idle

(***************************************************************************)
(* Nobody returns to the queue, and who joins it comes last.               *)
(***************************************************************************)
LEMMA FirstStays ==
    ASSUME TypeOK, TypeOK', NEW i, First(i), RowStep, Appended PROVE First(i)'
<1>0. /\ signups \in Seq(Signup) /\ DOMAIN signups \subseteq Nat
      /\ signups' \in Seq(Signup) /\ DOMAIN signups' \subseteq Nat
  BY DEF TypeOK
<1>1. i \in DOMAIN signups' /\ signups'[i].joined = signups[i].joined
  BY DEF First, RowStep
<1>2. ASSUME NEW j \in RowsWith("queued")', j < i
      PROVE  signups'[j].joined > signups'[i].joined
  <2>1. CASE j \in DOMAIN signups
    <3>1. signups'[j].status = "queued" /\ signups'[j].joined = signups[j].joined
      BY <1>2, <2>1 DEF RowsWith, RowStep
    <3>2. signups[j].status = "queued"
      BY <2>1, <3>1 DEF RowStep, Taken, Left, Flipped, Reaped
    <3>. QED BY <1>1, <1>2, <2>1, <3>1, <3>2 DEF First, RowsWith
  <2>2. CASE j \notin DOMAIN signups
    <3>1. i < j
      BY <1>2, <2>2 DEF Appended, First, RowsWith
    <3>2. i \in Nat /\ j \in Nat
      BY <1>0, <1>2 DEF First, RowsWith
    <3>. QED BY <1>2, <3>1, <3>2
  <2>. QED BY <2>1, <2>2
<1>. QED BY <1>1, <1>2 DEF First

(***************************************************************************)
(* While a withdrawal is under way nobody else holds the mutex, and all    *)
(* that change a status do.                                                *)
(***************************************************************************)
LEMMA ActiveStays ==
    ASSUME MutexInv, RowStep, NEW t \in Tasks, op[t].pc = "withdraw", op'[t] = op[t],
           Active(op[t].id)
    PROVE  Active(op[t].id)'
<1>. DEFINE i == op[t].id
<1>1. Holds(t) /\ reaper = Off /\ \A u \in Tasks : Holds(u) => u = t
  BY DEF Holds, MutexInv
<1>2. ~Taken(i) /\ ~Flipped(i) /\ ~Reaped(i)
  BY <1>1 DEF Taken, Flipped, Reaped, At, Holds
<1>3. ~Left(i)
  <2>1. op'[t] # Idle
    BY DEF Idle
  <2>. QED BY <1>1, <2>1 DEF Left, At, Holds
<1>4. i \in DOMAIN signups' /\ signups'[i].status = signups[i].status
  BY <1>2, <1>3 DEF RowStep, Active
<1>. QED BY <1>4 DEF Active

LEMMA QueueStep == TypeOK /\ TypeOK' /\ SlotInv /\ QueueInv /\ [Next]_vars => QueueInv'
<1>. SUFFICES ASSUME TypeOK, TypeOK', SlotInv, QueueInv, [Next]_vars,
                     NEW t \in Tasks, NEW i, i = op'[t].id
              PROVE  /\ op'[t].pc \in {"claimCheck", "claimWrite"} => First(i)'
                     /\ op'[t].pc = "withdraw" => Active(i)'
  BY DEF QueueInv
<1>1. RowStep /\ Appended /\ LocalStep(t) /\ MutexInv
  BY RowsStep, LocalsStep DEF SlotInv
<1>2. CASE op'[t] = op[t]
  BY <1>1, <1>2, FirstStays, ActiveStays DEF QueueInv
<1>3. CASE op'[t].pc \notin RowPcs
  BY <1>3 DEF RowPcs
<1>4. CASE op'[t].pc = "claimWrite" /\ op[t].pc = "claimCheck" /\ op'[t].id = op[t].id
  BY <1>1, <1>4, FirstStays DEF QueueInv
<1>5. CASE op'[t].pc = "claimCheck" /\ UNCHANGED signups /\ IsHead(op'[t].id)
  <2>1. i \in RowsWith("queued") /\ \A j \in RowsWith("queued") : QueuedBefore(i, j)
    BY <1>5 DEF IsHead
  <2>2. ASSUME NEW j \in DOMAIN signups PROVE j \in Nat /\ signups[j].joined \in Nat
    <3>1. signups[j] \in Signup
      BY <2>2 DEF TypeOK
    <3>. QED BY <2>2, <3>1 DEF TypeOK, Signup, Time
  <2>3. First(i)
    BY <2>1, <2>2 DEF First, QueuedBefore, RowsWith
  <2>. QED BY <1>5, <2>3 DEF First, RowsWith
<1>6. CASE op'[t].pc = "withdraw" /\ UNCHANGED signups /\ Active(op'[t].id)
  BY <1>6 DEF Active
<1>. QED BY <1>1, <1>2, <1>3, <1>4, <1>5, <1>6 DEF LocalStep

(***************************************************************************)
(* A claim's row stays the first of the older ones until it is written,    *)
(* and a withdrawal's row stays active (slot.rs:46-79, withdraw.rs:46-70). *)
(***************************************************************************)
THEOREM QueueInvariant == Spec => []QueueInv
BY TypeCorrect, SlotInvariant, QueueInit, QueueStep, PTL DEF Spec

(***************************************************************************)
(* The queue is first in, first out, however late a signup with an early   *)
(* stamp comes in (queue.rs, slot.rs).                                     *)
(***************************************************************************)
THEOREM QueueIsFifo == Spec => FifoClaim
<1>. DEFINE Fifo == \A i \in DOMAIN signups : Turns(i, "queued", "claimed") =>
                       \A j \in RowsWith("queued") :
                           j < i => signups[j].joined > signups[i].joined
<1>1. TypeOK /\ QueueInv /\ [Next]_vars => [Fifo]_vars
  <2>. SUFFICES ASSUME TypeOK, QueueInv, [Next]_vars,
                       NEW i \in DOMAIN signups, Turns(i, "queued", "claimed")
                PROVE  \A j \in RowsWith("queued") :
                           j < i => signups[j].joined > signups[i].joined
    OBVIOUS
  <2>1. Taken(i)
    BY RowsStep DEF Turns, RowStep, Left, Flipped, Reaped
  <2>2. First(i)
    BY <2>1 DEF Taken, At, QueueInv
  <2>. QED BY <2>2 DEF First
<1>. QED BY <1>1, TypeCorrect, QueueInvariant, PTL DEF Spec, FifoClaim

(***************************************************************************)
(* A final status is never left, although a withdrawal overwrites whatever *)
(* status it finds (withdraw.rs:66-70): the mutex keeps it active.         *)
(***************************************************************************)
THEOREM FinalIsFinal == Spec => StatusLifecycle
<1>. DEFINE Lifecycle == \A i \in DOMAIN signups :
                             \/ signups'[i].status = signups[i].status
                             \/ signups'[i].status \in Successors[signups[i].status]
<1>1. TypeOK /\ QueueInv /\ [Next]_vars => [Lifecycle]_vars
  <2>. SUFFICES ASSUME TypeOK, QueueInv, [Next]_vars, NEW i \in DOMAIN signups,
                       signups'[i].status # signups[i].status
                PROVE  signups'[i].status \in Successors[signups[i].status]
    OBVIOUS
  <2>1. Taken(i) \/ Left(i) \/ Flipped(i) \/ Reaped(i)
    BY RowsStep DEF RowStep
  <2>2. CASE Left(i)
    <3>1. signups[i].status \in {"queued", "claimed"}
      BY <2>2 DEF Left, At, QueueInv, Active
    <3>. QED BY <2>2, <3>1 DEF Left, Successors
  <2>. QED BY <2>1, <2>2 DEF Taken, Flipped, Reaped, Successors
<1>. QED BY <1>1, TypeCorrect, QueueInvariant, PTL DEF Spec, StatusLifecycle

-------------------------------------------------------------------------------
(* The events of the rounds.                                               *)

(***************************************************************************)
(* Before it is inserted an upload holds its predecessor's row as it is    *)
(* stored; afterwards, until its own event is settled, it has no successor *)
(* yet.  Both because the mutex keeps other uploads out (upload.rs:33).    *)
(***************************************************************************)
HoldsPrev(t) == op[t].pc \in {"verify", "insert"} => op[t].prev = rounds[op[t].up.round - 1]

IsLast(t) ==
    op[t].pc \in {"flip", "publish"} =>
        op[t].up.round \in DOMAIN rounds /\ op[t].up.round + 1 \notin DOMAIN rounds

UploadsHold == \A t \in Tasks : HoldsPrev(t) /\ IsLast(t)

EventInv == UploadsHold /\ EventChain

LEMMA EventInit == Init => EventInv
BY DEF Init, EventInv, UploadsHold, HoldsPrev, IsLast, EventChain, Idle

LEMMA EventStep ==
    TypeOK /\ TypeOK' /\ SlotInv /\ ChainInv /\ ChainInv' /\ EventInv /\ [Next]_vars => EventInv'
<1>. SUFFICES ASSUME TypeOK, TypeOK', SlotInv, ChainInv, ChainInv', EventInv, [Next]_vars
              PROVE  EventInv'
  OBVIOUS
<1>0. /\ op \in [Tasks -> Op] /\ MutexInv /\ UploadsHold /\ EventChain
      /\ DOMAIN rounds \subseteq Nat /\ Idle.pc = "idle"
  BY DEF TypeOK, SlotInv, EventInv, Idle
\* Steps that leave the rounds alone and the uploads where they are.
<1>1. ASSUME UNCHANGED rounds, UploadsHold' PROVE EventInv'
  BY <1>1, <1>0 DEF EventInv, EventChain
<1>2. ASSUME NEW t \in Tasks, NEW o, Goto(t, o), UNCHANGED rounds, o.pc \notin ContributePcs
      PROVE  EventInv'
  BY <1>2, <1>0, <1>1 DEF Goto, UploadsHold, HoldsPrev, IsLast, ContributePcs
<1>3. ASSUME UNCHANGED <<rounds, op>> PROVE EventInv'
  BY <1>3, <1>0, <1>1 DEF UploadsHold, HoldsPrev, IsLast
<1>4. ASSUME NEW t \in Tasks, op[t].pc \in ContributePcs
      PROVE  /\ op[t] \in [pc : ContributePcs, up : Upload, prev : Round]
             /\ op[t].up.round \in Nat
             /\ \A u \in Tasks \ {t} : op[u].pc \notin ContributePcs
  <2>1. op[t] \in [pc : ContributePcs, up : Upload, prev : Round]
    BY <1>4, <1>0 DEF Op, Idle, ContributePcs
  <2>. QED BY <1>4, <1>0, <2>1 DEF MutexInv, Holds, ContributePcs, Upload
<1>5. ASSUME NEW t \in Tasks, Arrival(t) \/ ClaimCheck(t) PROVE EventInv'
  <2>1. PICK o : Goto(t, o) /\ o.pc \in {"signup", "claimCheck", "withdraw", "body", "claimWrite"}
    <3>1. ASSUME ClaimCheck(t)
          PROVE  [op[t] EXCEPT !.pc = "claimWrite"].pc = "claimWrite"
      BY <3>1, <1>0 DEF ClaimCheck, At, Op, Idle, ContributePcs
    <3>2. CASE ClaimCheck(t)
      BY <3>1, <3>2 DEF ClaimCheck
    <3>3. CASE ContributeLock(t)
      BY <3>3 DEF ContributeLock
    <3>4. ASSUME NEW p \in Pubkeys, SignupStamp(t, p)
          PROVE  \E o : Goto(t, o) /\ o.pc = "signup"
      BY <3>4 DEF SignupStamp
    <3>5. ASSUME NEW p \in Pubkeys, ClaimLock(t, p)
          PROVE  \E o : Goto(t, o) /\ o.pc = "claimCheck"
      <4>1. PICK i : Goto(t, [pc |-> "claimCheck", id |-> i])
        BY <3>5 DEF ClaimLock
      <4>. QED BY <4>1
    <3>6. ASSUME NEW p \in Pubkeys, WithdrawLock(t, p)
          PROVE  \E o : Goto(t, o) /\ o.pc = "withdraw"
      <4>1. PICK i : Goto(t, [pc |-> "withdraw", id |-> i])
        BY <3>6 DEF WithdrawLock
      <4>. QED BY <4>1
    <3>. QED BY <1>5, <3>2, <3>3, <3>4, <3>5, <3>6 DEF Arrival
  <2>2. UNCHANGED rounds
    BY <1>5 DEF Arrival, SignupStamp, ClaimLock, WithdrawLock, ContributeLock, ClaimCheck
  <2>. QED BY <2>1, <2>2, <1>2 DEF ContributePcs
<1>6. ASSUME NEW t \in Tasks,
             SignupInsert(t) \/ ClaimWrite(t) \/ WithdrawWrite(t) \/ Fail(t)
      PROVE  EventInv'
  <2>1. Goto(t, Idle) /\ UNCHANGED rounds
    BY <1>6 DEF SignupInsert, ClaimWrite, WithdrawWrite, Fail, Finish
  <2>. QED BY <2>1, <1>2, <1>0 DEF ContributePcs
<1>7. ASSUME NEW t \in Tasks, ReadBody(t) PROVE EventInv'
  <2>1. PICK up, r : /\ up.round = r /\ UNCHANGED rounds
                     /\ Goto(t, [pc |-> "verify", up |-> up, prev |-> rounds[r - 1]])
    <3>1. PICK r \in 1..MaxRound, base \in DOMAIN rounds, p \in Participants :
             Goto(t, [pc   |-> "verify",
                      up   |-> [round |-> r, before |-> rounds[base].srs, pk |-> p],
                      prev |-> rounds[r - 1]])
      BY <1>7 DEF ReadBody
    <3>. QED BY <1>7, <3>1 DEF ReadBody
  <2>2. op'[t].pc = "verify" /\ op'[t].up = up /\ op'[t].prev = rounds[r - 1]
    BY <2>1, <1>0 DEF Goto
  <2>3. UploadsHold'
    BY <2>1, <2>2, <1>0 DEF Goto, UploadsHold, HoldsPrev, IsLast
  <2>. QED BY <2>1, <2>3, <1>1
<1>8. ASSUME NEW t \in Tasks, VerifyUpload(t) \/ FlipCommitted(t) PROVE EventInv'
  <2>1. op[t].pc \in ContributePcs
    BY <1>8 DEF VerifyUpload, FlipCommitted, At, ContributePcs
  <2>2. /\ UNCHANGED rounds /\ op'[t].up = op[t].up /\ op'[t].prev = op[t].prev
        /\ \/ op[t].pc = "verify" /\ op'[t].pc = "insert"
           \/ op[t].pc = "flip" /\ op'[t].pc = "publish"
        /\ \A u \in Tasks \ {t} : op'[u] = op[u]
    BY <1>8, <2>1, <1>0, <1>4 DEF VerifyUpload, FlipCommitted, At, Goto
  <2>3. UploadsHold'
    BY <2>2, <1>0 DEF UploadsHold, HoldsPrev, IsLast
  <2>. QED BY <2>2, <2>3, <1>1
<1>9. ASSUME NEW t \in Tasks, InsertRound(t) PROVE EventInv'
  <2>. DEFINE r == op[t].up.round
  <2>1. op[t].pc = "insert" /\ op[t].pc \in ContributePcs
    BY <1>9 DEF InsertRound, At, ContributePcs
  <2>2. /\ r \in Nat /\ r \notin DOMAIN rounds
        /\ DOMAIN rounds' = DOMAIN rounds \cup {r}
        /\ rounds'[r].prevEv = op[t].prev.ev
        /\ \A q \in DOMAIN rounds : rounds'[q] = rounds[q]
    BY <1>9, <2>1, <1>4 DEF InsertRound, RoundUnused, AddRound
  <2>3. r - 1 \in DOMAIN rounds /\ op[t].prev = rounds[r - 1]
    BY <2>1, <1>0 DEF ChainInv, PrevIsPublished, UploadsHold, HoldsPrev
  <2>4. PICK head \in DOMAIN rounds : DOMAIN rounds = 0..head
    BY <2>3 DEF ChainInv, GapFree
  <2>5. head \in Nat /\ r = head + 1 /\ r + 1 \notin DOMAIN rounds'
    BY <2>2, <2>3, <2>4, <1>0
  <2>6. op'[t].pc = "flip" /\ op'[t].up = op[t].up /\ \A u \in Tasks \ {t} : op'[u] = op[u]
    BY <1>9, <2>1, <1>0, <1>4 DEF InsertRound, Goto
  <2>7. UploadsHold'
    BY <2>1, <2>2, <2>5, <2>6, <1>4 DEF UploadsHold, HoldsPrev, IsLast, ContributePcs
  <2>8. EventChain'
    <3>. SUFFICES ASSUME NEW q \in DOMAIN rounds' \ {0}
                  PROVE  q - 1 \in DOMAIN rounds' /\ rounds'[q].prevEv = rounds'[q - 1].ev
      BY DEF EventChain
    <3>1. CASE q = r
      BY <3>1, <2>2, <2>3
    <3>2. CASE q \in DOMAIN rounds
      <4>1. q - 1 \in DOMAIN rounds /\ rounds[q].prevEv = rounds[q - 1].ev
        BY <3>2, <1>0 DEF EventChain
      <4>. QED BY <3>2, <4>1, <2>2
    <3>. QED BY <3>1, <3>2, <2>2
  <2>. QED BY <2>7, <2>8 DEF EventInv
<1>10. ASSUME NEW t \in Tasks, PublishRound(t) PROVE EventInv'
  <2>. DEFINE r == op[t].up.round
  <2>1. /\ op[t].pc = "publish" /\ op[t].pc \in ContributePcs
        /\ r \in DOMAIN rounds /\ r + 1 \notin DOMAIN rounds /\ r \in Nat
    BY <1>10, <1>0, <1>4 DEF PublishRound, At, ContributePcs, UploadsHold, IsLast
  <2>2. /\ DOMAIN rounds' = DOMAIN rounds
        /\ \A q \in DOMAIN rounds : /\ rounds'[q].prevEv = rounds[q].prevEv
                                    /\ q # r => rounds'[q] = rounds[q]
    <3>1. CASE rounds' = rounds
      BY <3>1
    <3>2. CASE rounds' = [rounds EXCEPT ![r].ev = r]
      BY <3>2 DEF TypeOK, Round
    <3>. QED BY <1>10, <3>1, <3>2 DEF PublishRound
  <2>3. op'[t] = Idle /\ \A u \in Tasks \ {t} : op'[u] = op[u]
    BY <1>10, <1>0 DEF PublishRound, Finish, Goto
  <2>4. UploadsHold'
    BY <2>1, <2>3, <1>0, <1>4 DEF UploadsHold, HoldsPrev, IsLast, ContributePcs
  <2>5. EventChain'
    <3>. SUFFICES ASSUME NEW q \in DOMAIN rounds \ {0}
                  PROVE  q - 1 \in DOMAIN rounds /\ rounds'[q].prevEv = rounds'[q - 1].ev
      BY <2>2 DEF EventChain
    <3>1. q - 1 \in DOMAIN rounds /\ rounds[q].prevEv = rounds[q - 1].ev
      BY <1>0 DEF EventChain
    <3>2. q - 1 # r
      BY <2>1, <1>0
    <3>. QED BY <3>1, <3>2, <2>2
  <2>. QED BY <2>4, <2>5 DEF EventInv
<1>11. CASE Seed
  <2>1. /\ 0 \notin DOMAIN rounds /\ UNCHANGED op
        /\ DOMAIN rounds' = DOMAIN rounds \cup {0}
    BY <1>11 DEF Seed, RoundUnused, AddRound
  <2>2. DOMAIN rounds = {}
    BY <2>1 DEF ChainInv, GapFree, TypeOK
  <2>3. \A t \in Tasks : op'[t].pc \notin ContributePcs
    BY <2>1, <2>2 DEF ChainInv, PrevIsPublished
  <2>. QED BY <2>1, <2>2, <2>3
           DEF EventInv, EventChain, UploadsHold, HoldsPrev, IsLast, ContributePcs
<1>12. CASE Reap \/ Tick \/ UNCHANGED vars
  BY <1>12, <1>3 DEF Reap, ReapStart, ReapStale, ReapHead, ReapExpire, ReapFail, Tick, vars
<1>13. CASE Restart
  <2>1. UNCHANGED rounds /\ \A t \in Tasks : op'[t].pc = "idle"
    BY <1>13, <1>0 DEF Restart
  <2>. QED BY <2>1, <1>1 DEF UploadsHold, HoldsPrev, IsLast
<1>. QED BY <1>5, <1>6, <1>7, <1>8, <1>9, <1>10, <1>11, <1>12, <1>13 DEF Next, Progress

(***************************************************************************)
(* Each round names the event its predecessor was published under, however *)
(* uploads interleave, fail or meet a restart (upload.rs:176-260).         *)
(***************************************************************************)
THEOREM EventsChain == Spec => []EventChain
<1>1. EventInv => EventChain
  BY DEF EventInv
<1>. QED BY <1>1, TypeCorrect, SlotInvariant, ChainInvariant, EventInit, EventStep, PTL DEF Spec

===============================================================================

------------------------------- MODULE GroupSync -------------------------------
(***************************************************************************)
(* The devices of one chat group that is on chain, as the Android client   *)
(* keeps them in step: GroupListViewModel.kt over NostrMessageTransport.kt *)
(* and OnChainService.kt.  A device that changes the group first has the   *)
(* new commitment accepted by the contract, then installs it, then tells   *)
(* the others; a device that is told compares the message with the chain   *)
(* before it installs anything.  Each action is what a coroutine does      *)
(* between two suspensions.                                                *)
(*                                                                         *)
(* A salt is the sequence of what it was made from: a fresh number, then   *)
(* the members whose joining derived the next one.  A channel's key is the *)
(* triple of secret, epoch and salt, and a device hears what is encrypted  *)
(* under the key of its last subscription.  The relay keeps every event:   *)
(* one that is never received is lost, one that is received late is        *)
(* reordered.                                                              *)
(***************************************************************************)
EXTENDS Naturals, Sequences, FiniteSets

CONSTANTS
    Devices,        \* people, one device each
    FirstMembers,   \* the rosters a group may be created with
    NoGroup, NoBaseline, NoKey,
    MaxMembers,     \* members that the group's tier admits
    MaxRetries,     \* times that an envelope is sent again
    MaxEpoch,       \* bound: epochs
    MaxFaults,      \* bound: restarts, lost answers and lost envelopes
    MaxSteps        \* bound: these and the changes that devices start

\* A group is created with its creator in it.
ASSUME SyncAssumption ==
    /\ IsFiniteSet(Devices) /\ FirstMembers \subseteq SUBSET Devices /\ {} \notin FirstMembers
    /\ MaxMembers \in Nat /\ MaxRetries \in Nat
    /\ MaxEpoch \in Nat /\ MaxSteps \in Nat /\ MaxFaults \in Nat

-------------------------------------------------------------------------------
(* The values of the variables.                                            *)

Salts == Seq(Nat \cup Devices)

Groups == [epoch : Nat, members : SUBSET Devices, salt : Salts, secret : Nat, published : BOOLEAN]

Commitments == [members : SUBSET Devices, epoch : Nat, salt : Salts]

Keyed == Nat \X Nat \X Salts

\* A change of the group that its device has started.
Transitions ==
    [kind : {"transition"}, dev : Devices, from : Groups, cand : Groups,
     added : SUBSET Devices, gone : SUBSET Devices,
     phase : {"sent", "accepted", "installed", "told"}, base : Commitments \cup {NoBaseline}]

Joined == [type : {"joined"}, key : Keyed, member : Devices]

Updates ==
    [type : {"update"}, key : Keyed, from : Devices, epoch : Nat, salt : Salts,
     added : SUBSET Devices, gone : SUBSET Devices, commitment : Commitments,
     bundles : SUBSET Devices]

Notices == [type : {"notice"}, key : Keyed, epoch : Nat, gone : SUBSET Devices]

Acks == [type : {"ack"}, key : Keyed, from : Devices, epoch : Nat]

ProtocolEvents == Joined \cup Updates \cup Notices \cup Acks

Envelopes ==
    [type : {"envelope"}, to : Devices, from : Devices, epoch : Nat, secret : Nat,
     salt : Salts, gone : SUBSET Devices]

Invitations ==
    [type : {"invitation"}, to : Devices, from : Devices, group : Groups,
     bundles : SUBSET Devices]

\* A question to the chain about what a message would install, and about an
\* update of the epoch that the device has.
Checks ==
    [kind : {"check", "rekey"}, dev : Devices, from : Devices, cand : Groups,
     commitment : Commitments]

Forks == [kind : {"fork"}, dev : Devices, update : Updates]

\* A removal whose envelopes are to be sent again.
Records == [task : Transitions, unacked : SUBSET Devices, retries : Nat]

ASSUME AbsentAssumption == NoGroup \notin Groups /\ NoKey \notin Keyed /\ NoBaseline \notin Commitments

VARIABLES
    chain,      \* the commitments that the contract has held, oldest first
    group,      \* each device's group, or NoGroup
    saved,      \* what its database holds of it
    baseline,   \* the state that its next update is proved from, or NoBaseline
    listening,  \* the key of its subscription, or NoKey
    bundles,    \* the members whose inbox it knows
    tasks,      \* coroutines that are suspended
    events,     \* what the relay and the inboxes hold
    processed,  \* protocol events that a device has handled since it started
    pending,    \* removals whose envelopes a device may have to send again
    starts, faults,
    unverified, \* history: devices that went on without the chain, or followed one that did
    orphaned,   \* history: a device gave up a change that the contract has accepted
    owed        \* history: <<m, e>>, the secret of epoch e was sent to m and m has not taken it

bounds == <<starts, faults>>
history == <<unverified, orphaned, owed>>
vars == <<chain, group, saved, baseline, listening, bundles, tasks, events, processed,
          pending, bounds, history>>

Commitment(g) == [members |-> g.members, epoch |-> g.epoch, salt |-> g.salt]

KeyOf(g) == <<g.secret, g.epoch, g.salt>>

OnChain == chain[Len(chain)]

\* What the salt and the member's key are hashed to.
DeriveSalt(salt, member) == Append(salt, member)

Fault == faults < MaxFaults /\ starts + faults < MaxSteps /\ faults' = faults + 1

\* What a fetch of the chain may return: the node asked may lag behind.
Views == {chain[i] : i \in DOMAIN chain}

-------------------------------------------------------------------------------
(* Changing the group.                                                     *)

AddMember(g, m) ==
    [g EXCEPT !.members = @ \cup {m}, !.epoch = @ + 1, !.salt = DeriveSalt(@, m)]

\* Mutant: the new salt alone is thought to keep the removed member out.
RemoveMemberOnly(g, m) ==
    [g EXCEPT !.members = @ \ {m}, !.epoch = @ + 1, !.salt = <<starts + 1>>]

\* A removal ends in a fresh secret, so that the removed member cannot follow.
RemoveMember(g, m) ==
    [g EXCEPT !.members = @ \ {m}, !.epoch = @ + 1, !.salt = <<starts + 1>>, !.secret = starts + 1]

RotateKey(g) == [g EXCEPT !.epoch = @ + 1, !.salt = <<starts + 1>>]

AllMembersHaveBundles(d, members) == members \subseteq bundles[d]

\* A defect: a transition drops those of its device that are under way.
TransitionSupersedes(d, cand, added, gone) ==
    LET cur  == group[d]
        task == [kind |-> "transition", dev |-> d, from |-> cur, cand |-> cand,
                 added |-> added, gone |-> gone, phase |-> "sent",
                 base |-> IF baseline[d] = NoBaseline THEN Commitment(cur) ELSE baseline[d]]
    IN  /\ starts + faults < MaxSteps /\ cand.epoch <= MaxEpoch /\ cur.published
        /\ starts' = starts + 1
        /\ tasks' = {t \in tasks : t.dev # d \/ t.kind # "transition"} \cup {task}
        /\ UNCHANGED <<group, unverified, chain, saved, baseline, listening, events, pending,
                       faults, orphaned, owed>>

\* performEpochTransition up to its first suspension.  A group that the device
\* takes to be on chain is published first; any other is changed at once.
Transition(d, cand, added, gone) ==
    LET cur  == group[d]
        Task(phase, base) == [kind |-> "transition", dev |-> d, from |-> cur, cand |-> cand,
                              added |-> added, gone |-> gone, phase |-> phase, base |-> base]
    IN  /\ starts + faults < MaxSteps /\ cand.epoch <= MaxEpoch
        /\ starts' = starts + 1
        /\ IF cur.published
           THEN /\ tasks' = tasks \cup
                       {Task("sent", IF baseline[d] = NoBaseline THEN Commitment(cur) ELSE baseline[d])}
                /\ UNCHANGED <<group, unverified>>
           ELSE /\ tasks' = tasks \cup {Task("installed", NoBaseline)}
                /\ group' = [group EXCEPT ![d] = cand]
                /\ unverified' = unverified \cup {d}
        /\ UNCHANGED <<chain, saved, baseline, listening, events, pending, faults,
                       orphaned, owed>>

IsMember(d) == group[d] # NoGroup /\ d \in group[d].members

RemoveSomeone(d) ==
    /\ IsMember(d)
    /\ \E m \in group[d].members \ {d} :
          LET cand == RemoveMember(group[d], m)
          IN  /\ AllMembersHaveBundles(d, cand.members)
              /\ Transition(d, cand, {}, {m})
    /\ UNCHANGED <<bundles, processed>>

RotateGroupKey(d) ==
    /\ IsMember(d)
    /\ Transition(d, RotateKey(group[d]), {}, {})
    /\ UNCHANGED <<bundles, processed>>

Change(t, phase) == tasks' = (tasks \ {t}) \cup {[t EXCEPT !.phase = phase]}

\* The contract accepts a successor of the state it holds, proved by a member.
Acceptable(t) == t.base = OnChain /\ t.dev \in t.base.members

\* Mutant: a refusal is taken for an answer.
RefusalIgnored(t) ==
    /\ t.kind = "transition" /\ t.phase = "sent"
    /\ Change(t, "accepted")
    /\ IF Acceptable(t)
       THEN chain' = Append(chain, [Commitment(t.cand) EXCEPT !.epoch = t.base.epoch + 1])
       ELSE UNCHANGED chain
    /\ UNCHANGED <<group, saved, baseline, listening, bundles, events, processed, pending,
                   bounds, history>>

ChainDecides(t) ==
    /\ t.kind = "transition" /\ t.phase = "sent"
    /\ \/ /\ Acceptable(t)
          /\ Change(t, "accepted")
          /\ chain' = Append(chain, [Commitment(t.cand) EXCEPT !.epoch = t.base.epoch + 1])
       \/ /\ ~Acceptable(t)
          /\ tasks' = tasks \ {t}
          /\ UNCHANGED chain
    /\ UNCHANGED <<group, saved, baseline, listening, bundles, events, processed, pending,
                   bounds, history>>

\* The answer to a chain call is lost and the transition fails.  A call that is
\* made again finds the state that the lost one left, and is refused: however
\* many attempts are made, a change whose first answer is lost is given up.
AnswerLost(t) ==
    /\ t.kind = "transition" /\ t.phase \in {"sent", "accepted"}
    /\ tasks' = tasks \ {t}
    /\ orphaned' = (orphaned \/ t.phase = "accepted")
    /\ Fault
    /\ UNCHANGED <<chain, group, saved, baseline, listening, bundles, events, processed, pending,
                   starts, unverified, owed>>

\* The candidate that was built before the call replaces whatever the device has now.
Install(t) ==
    /\ t.kind = "transition" /\ t.phase = "accepted"
    /\ Change(t, "installed")
    /\ group' = [group EXCEPT ![t.dev] = t.cand]
    /\ baseline' = [baseline EXCEPT ![t.dev] = Commitment(t.cand)]
    /\ UNCHANGED <<chain, saved, listening, bundles, events, processed, pending,
                   bounds, history>>

StateUpdate(t) ==
    [type |-> "update", key |-> KeyOf(t.from), from |-> t.dev, epoch |-> t.cand.epoch,
     salt |-> t.cand.salt, added |-> t.added, gone |-> t.gone,
     commitment |-> Commitment(t.cand), bundles |-> bundles[t.dev] \cup {t.dev}]

RemovalNotice(t) ==
    [type |-> "notice", key |-> KeyOf(t.from), epoch |-> t.cand.epoch, gone |-> t.gone]

Envelope(t, m) ==
    [type |-> "envelope", to |-> m, from |-> t.dev, epoch |-> t.cand.epoch,
     secret |-> t.cand.secret, salt |-> t.cand.salt, gone |-> t.gone]

\* The group is saved, then the device listens under the new key and tells the
\* others: a change without a removal under the key that they still listen with,
\* a removal to each inbox.
Announce(t) ==
    /\ t.kind = "transition" /\ t.phase = "installed"
    /\ saved' = [saved EXCEPT ![t.dev] = t.cand]
    /\ listening' = [listening EXCEPT ![t.dev] = KeyOf(t.cand)]
    /\ LET told == (t.cand.members \cap bundles[t.dev]) \ {t.dev}
       IN  IF t.gone = {}
           THEN /\ tasks' = tasks \ {t} /\ events' = events \cup {StateUpdate(t)}
                /\ UNCHANGED owed
           ELSE /\ Change(t, "told")
                /\ events' = events \cup {RemovalNotice(t)} \cup {Envelope(t, m) : m \in told}
                /\ owed' = owed \cup {<<m, t.cand.epoch>> : m \in told}
    /\ UNCHANGED <<chain, group, baseline, bundles, processed, pending, bounds,
                   unverified, orphaned>>

\* Only now is written down which members have not confirmed the new secret.
SavePendingRekey(t) ==
    /\ t.kind = "transition" /\ t.phase = "told"
    /\ tasks' = tasks \ {t}
    /\ pending' = [pending EXCEPT ![t.dev] = @ \cup
                      {[task |-> t, unacked |-> t.cand.members \ {t.dev}, retries |-> 0]}]
    /\ UNCHANGED <<chain, group, saved, baseline, listening, bundles, events, processed,
                   bounds, history>>

ResendPendingRekeys(d, r) ==
    /\ r.unacked # {} /\ r.retries < MaxRetries
    /\ pending' = [pending EXCEPT ![d] = (@ \ {r}) \cup {[r EXCEPT !.retries = @ + 1]}]
    /\ events' = events \cup {Envelope(r.task, m) : m \in r.unacked \cap bundles[d]}
    /\ UNCHANGED <<chain, group, saved, baseline, listening, bundles, tasks, processed,
                   bounds, history>>

\* A record is a day old.
ExpirePendingRekey(d, r) ==
    /\ pending' = [pending EXCEPT ![d] = @ \ {r}]
    /\ owed' = owed \ {<<m, r.task.cand.epoch>> : m \in r.unacked}
    /\ UNCHANGED <<chain, group, saved, baseline, listening, bundles, tasks, events, processed,
                   bounds, unverified, orphaned>>

-------------------------------------------------------------------------------
(* Joining.                                                                *)

Invite(d, m) ==
    /\ IsMember(d) /\ group[m] = NoGroup
    /\ \A ev \in events : ~(ev.type = "invitation" /\ ev.to = m)
    /\ events' = events \cup {[type |-> "invitation", to |-> m, from |-> d, group |-> group[d],
                               bundles |-> bundles[d] \cup {d}]}
    /\ UNCHANGED <<chain, group, saved, baseline, listening, bundles, tasks, processed, pending,
                   bounds, history>>

\* Whoever follows a device that has gone on without the chain is no better off.
Tainted(d, sender) == unverified \cup {x \in {d} : sender \in unverified}

\* The guest adds itself to the state it was sent, and takes the group to be on
\* chain only if it found that state there.
AcceptInvitation(d, ev) ==
    /\ ev.type = "invitation" /\ ev.to = d /\ group[d] = NoGroup
    /\ \E verified \in {FALSE} \cup {Commitment(ev.group) = OnChain} :
          LET g == [ev.group EXCEPT !.members = @ \cup {d}, !.published = verified]
          IN  /\ group' = [group EXCEPT ![d] = g]
              /\ listening' = [listening EXCEPT ![d] = KeyOf(g)]
              /\ bundles' = [bundles EXCEPT ![d] = @ \cup ev.bundles \cup {d}]
              /\ events' = events \cup {[type |-> "joined", key |-> KeyOf(g), member |-> d]}
    /\ unverified' = Tainted(d, ev.from)
    /\ UNCHANGED <<chain, saved, baseline, tasks, processed, pending, bounds, orphaned, owed>>

\* Every member that hears of the guest makes the change itself.
MemberJoined(d, ev) ==
    /\ ev.member \notin group[d].members
    /\ Cardinality(group[d].members) < MaxMembers
    /\ bundles' = [bundles EXCEPT ![d] = @ \cup {ev.member}]
    /\ Transition(d, AddMember(group[d], ev.member), {ev.member}, {})

-------------------------------------------------------------------------------
(* Being told.                                                             *)

WithDelta(g, update) == [g EXCEPT !.members = (@ \ update.gone) \cup update.added]

Updated(g, update, epoch) == [WithDelta(g, update) EXCEPT !.epoch = epoch, !.salt = update.salt]

Taken(d, e) == owed \ {debt \in owed : debt[1] = d /\ debt[2] <= e}

\* Mutant: what the device has by now is not looked at again.
CommitAnyway(d, cand, sender) ==
    /\ group' = [group EXCEPT ![d] = cand]
    /\ baseline' = [baseline EXCEPT ![d] = IF cand.published THEN Commitment(cand) ELSE @]
    /\ listening' = [listening EXCEPT ![d] = IF d \in cand.members THEN KeyOf(cand) ELSE NoKey]
    /\ unverified' = IF cand.published THEN Tainted(d, sender) ELSE unverified \cup {d}
    /\ owed' = Taken(d, cand.epoch)

\* commitRemoteStateUpdate, commitRemoteRekey: what was built when the message
\* came is installed unless the device has moved on meanwhile.
CommitRemote(d, cand, sender) ==
    IF cand.epoch <= group[d].epoch
    THEN UNCHANGED <<group, baseline, listening, unverified, owed>>
    ELSE /\ group' = [group EXCEPT ![d] = cand]
         /\ baseline' = [baseline EXCEPT ![d] = IF cand.published THEN Commitment(cand) ELSE @]
         /\ listening' = [listening EXCEPT ![d] = IF d \in cand.members THEN KeyOf(cand) ELSE NoKey]
         /\ unverified' = IF cand.published THEN Tainted(d, sender) ELSE unverified \cup {d}
         /\ owed' = Taken(d, cand.epoch)

\* The update's members and salt are taken, at an epoch that is not the update's.
Adopt(d, update, epoch) ==
    LET g == Updated(group[d], update, epoch)
    IN  /\ group' = [group EXCEPT ![d] = g]
        /\ listening' = [listening EXCEPT ![d] = KeyOf(g)]
        /\ unverified' = unverified \cup {d}

\* An update of the epoch the device has, with another salt: one with its own
\* salt is an echo, and could bring no more than an inbox.
SameEpoch(d, update) ==
    /\ update.epoch = group[d].epoch /\ update.salt # group[d].salt
    /\ \/ /\ group[d].published
          /\ tasks' = tasks \cup {[kind |-> "fork", dev |-> d, update |-> update]}
          /\ UNCHANGED <<group, baseline, listening, unverified, owed>>
       \/ /\ ~group[d].published
          /\ Adopt(d, update, group[d].epoch + 1)
          /\ UNCHANGED <<baseline, tasks, owed>>

\* An update of a later epoch.
LaterEpoch(d, update) ==
    /\ update.epoch > group[d].epoch
    /\ LET cand == Updated(group[d], update, update.epoch)
       IN  \/ /\ cand.published
             /\ tasks' = tasks \cup {[kind |-> "check", dev |-> d, from |-> update.from,
                                      cand |-> cand, commitment |-> update.commitment]}
             /\ UNCHANGED <<group, baseline, listening, unverified, owed>>
          \/ /\ ~cand.published
             /\ CommitRemote(d, cand, update.from)
             /\ UNCHANGED tasks

ApplyStateUpdate(d, update) ==
    /\ bundles' = [bundles EXCEPT ![d] = @ \cup update.bundles]
    /\ SameEpoch(d, update) \/ LaterEpoch(d, update)
    /\ UNCHANGED <<chain, saved, events, pending, bounds, orphaned>>

\* The removed device believes the notice: no epoch and no chain is looked at.
RemovalNoticed(d, ev) ==
    /\ d \in ev.gone
    /\ group' = [group EXCEPT ![d].epoch = ev.epoch, ![d].members = @ \ {d}]
    /\ listening' = [listening EXCEPT ![d] = NoKey]
    /\ unverified' = unverified \cup {d}
    /\ UNCHANGED <<chain, saved, baseline, bundles, tasks, events, pending, bounds, orphaned, owed>>

RekeyAcked(d, ev) ==
    /\ \E r \in pending[d] : r.task.cand.epoch = ev.epoch /\ ev.from \in r.unacked
    /\ pending' = [pending EXCEPT ![d] =
           {r \in {[r EXCEPT !.unacked = IF r.task.cand.epoch = ev.epoch THEN @ \ {ev.from} ELSE @]
                       : r \in pending[d]} : r.unacked # {}}]
    /\ UNCHANGED <<chain, group, saved, baseline, listening, bundles, tasks, events, bounds, history>>

\* A protocol message is remembered before it is handled, and handled once.  One
\* that would change nothing is as good as lost, and is left unheard.
Hear(d, ev) ==
    /\ ev.type \in {"joined", "update", "notice", "ack"}
    /\ ev.key = listening[d] /\ ev \notin processed[d]
    /\ processed' = [processed EXCEPT ![d] = @ \cup {ev}]
    /\ \/ ev.type = "joined" /\ MemberJoined(d, ev)
       \/ ev.type = "update" /\ ApplyStateUpdate(d, ev)
       \/ ev.type = "notice" /\ RemovalNoticed(d, ev)
       \/ ev.type = "ack"    /\ RekeyAcked(d, ev)

\* What an envelope gives the device that opens it.
Rekeyed(g, ev) ==
    [g EXCEPT !.epoch = ev.epoch, !.secret = ev.secret, !.salt = ev.salt, !.members = @ \ ev.gone]

Ack(d, cand) == [type |-> "ack", key |-> KeyOf(cand), from |-> d, epoch |-> cand.epoch]

\* Mutant: the ack is sent before the chain is asked.
AckFirst(d, ev) ==
    /\ ev.type = "envelope" /\ ev.to = d /\ group[d] # NoGroup
    /\ ev.epoch > group[d].epoch /\ ev.from \in group[d].members /\ group[d].published
    /\ LET cand == Rekeyed(group[d], ev)
       IN  /\ tasks' = tasks \cup {[kind |-> "rekey", dev |-> d, from |-> ev.from,
                                    cand |-> cand, commitment |-> Commitment(cand)]}
           /\ events' = events \cup {Ack(d, cand)}
    /\ UNCHANGED <<chain, group, saved, baseline, listening, bundles, processed, pending,
                   bounds, history>>

OpenEnvelope(d, ev) ==
    /\ ev.type = "envelope" /\ ev.to = d /\ group[d] # NoGroup
    /\ ev.epoch > group[d].epoch /\ ev.from \in group[d].members
    /\ LET cand == Rekeyed(group[d], ev)
       IN  \/ /\ cand.published
             /\ tasks' = tasks \cup {[kind |-> "rekey", dev |-> d, from |-> ev.from,
                                      cand |-> cand, commitment |-> Commitment(cand)]}
             /\ UNCHANGED <<group, baseline, listening, events, unverified, owed>>
          \/ /\ ~cand.published
             /\ CommitRemote(d, cand, ev.from)
             /\ events' = events \cup {Ack(d, cand)}
             /\ UNCHANGED tasks
    /\ UNCHANGED <<chain, saved, bundles, processed, pending, bounds, orphaned>>

\* The chain is asked, a few times while it is behind; what it answers may still
\* be behind, or already beyond.
CheckedWithChain(t) ==
    /\ t.kind \in {"check", "rekey"}
    /\ tasks' = tasks \ {t}
    /\ \/ /\ t.commitment \in Views
          /\ CommitRemote(t.dev, t.cand, t.from)
          /\ events' = events \cup
                (IF t.kind = "rekey" /\ t.cand.epoch > group[t.dev].epoch
                 THEN {Ack(t.dev, t.cand)} ELSE {})
       \/ UNCHANGED <<group, baseline, listening, events, unverified, owed>>
    /\ UNCHANGED <<chain, saved, bundles, processed, pending, bounds, orphaned>>

\* The chain is asked about an update of the device's own epoch: the device
\* follows the chain's epoch with the update's salt, and when no answer comes
\* the epoch after the update's.
ForkResolved(t) ==
    /\ t.kind = "fork"
    /\ tasks' = tasks \ {t}
    /\ \/ \E view \in Views : view.epoch > group[t.dev].epoch /\ Adopt(t.dev, t.update, view.epoch)
       \/ Adopt(t.dev, t.update, t.update.epoch + 1)
       \/ UNCHANGED <<group, listening, unverified>>
    /\ UNCHANGED <<chain, saved, baseline, bundles, events, processed, pending, bounds, orphaned, owed>>

-------------------------------------------------------------------------------
(* The phone.                                                              *)

\* The app starts again with what its database holds: the group it saved last and
\* waited for, or the one it has, when the save that was launched has ended.
Restart(d) ==
    /\ Fault
    /\ LET cut == {t \in tasks : t.dev = d}
       IN  /\ tasks' = tasks \ cut
           /\ \E kept \in {saved[d], group[d]} :
                 /\ kept # NoGroup
                 /\ group' = [group EXCEPT ![d] = kept]
                 /\ saved' = [saved EXCEPT ![d] = kept]
                 /\ listening' = [listening EXCEPT ![d] = KeyOf(kept)]
                 /\ orphaned' = (\/ orphaned
                                 \/ Commitment(group[d]) = OnChain /\ kept # group[d]
                                 \/ \E t \in cut : /\ t.kind = "transition"
                                                    /\ t.phase \in {"accepted", "installed"})
           /\ owed' = owed \ {debt \in owed :
                                 \E t \in cut : t.kind = "transition" /\ t.cand.epoch = debt[2]}
    /\ baseline' = [baseline EXCEPT ![d] = NoBaseline]
    /\ processed' = [processed EXCEPT ![d] = {}]
    /\ UNCHANGED <<chain, bundles, events, pending, starts, unverified>>

LoseEnvelope(ev) ==
    /\ Fault
    /\ ev.type = "envelope"
    /\ events' = events \ {ev}
    /\ UNCHANGED <<chain, group, saved, baseline, listening, bundles, tasks, processed, pending,
                   starts, history>>

-------------------------------------------------------------------------------

Init ==
    /\ \E members \in FirstMembers :
          LET g == [epoch |-> 0, members |-> members, salt |-> <<0>>, secret |-> 0,
                    published |-> TRUE]
          IN  /\ chain = <<Commitment(g)>>
              /\ group = [d \in Devices |-> IF d \in members THEN g ELSE NoGroup]
              /\ listening = [d \in Devices |-> IF d \in members THEN KeyOf(g) ELSE NoKey]
              /\ bundles = [d \in Devices |-> IF d \in members THEN members ELSE {}]
    /\ saved = group
    /\ baseline = [d \in Devices |-> NoBaseline]
    /\ tasks = {} /\ events = {}
    /\ processed = [d \in Devices |-> {}] /\ pending = [d \in Devices |-> {}]
    /\ starts = 0 /\ faults = 0
    /\ unverified = {} /\ orphaned = FALSE /\ owed = {}

Next ==
    \/ \E d \in Devices :
          \/ RemoveSomeone(d) \/ RotateGroupKey(d) \/ Restart(d)
          \/ \E m \in Devices : Invite(d, m)
          \/ \E r \in pending[d] : ResendPendingRekeys(d, r) \/ ExpirePendingRekey(d, r)
          \/ \E ev \in events : AcceptInvitation(d, ev) \/ Hear(d, ev) \/ OpenEnvelope(d, ev)
    \/ \E t \in tasks :
          \/ ChainDecides(t) \/ AnswerLost(t) \/ Install(t) \/ Announce(t)
          \/ SavePendingRekey(t) \/ CheckedWithChain(t) \/ ForkResolved(t)
    \/ \E ev \in events : LoseEnvelope(ev)

Spec == Init /\ [][Next]_vars

-------------------------------------------------------------------------------
(* Properties.                                                             *)

ChainTyped ==
    /\ chain \in Seq(Commitments) /\ chain # << >>
    /\ \A i \in DOMAIN chain : chain[i].epoch = i - 1

PhonesTyped ==
    /\ group \in [Devices -> Groups \cup {NoGroup}]
    /\ saved \in [Devices -> Groups \cup {NoGroup}]
    /\ baseline \in [Devices -> Commitments \cup {NoBaseline}]
    /\ listening \in [Devices -> Keyed \cup {NoKey}]
    /\ bundles \in [Devices -> SUBSET Devices]
    /\ processed \in [Devices -> SUBSET ProtocolEvents]
    /\ pending \in [Devices -> SUBSET Records]
    /\ \A d \in Devices : group[d] = NoGroup =>
          saved[d] = NoGroup /\ listening[d] = NoKey /\ pending[d] = {}
    /\ \A d \in Devices : \A r \in pending[d] : r.task.dev = d

TasksTyped ==
    /\ tasks \subseteq Transitions \cup Checks \cup Forks
    /\ \A t \in tasks : group[t.dev] # NoGroup

EventsTyped == events \subseteq Invitations \cup Envelopes \cup ProtocolEvents

HistoryTyped ==
    /\ starts \in Nat /\ faults \in Nat /\ starts + faults <= MaxSteps
    /\ unverified \subseteq Devices /\ orphaned \in BOOLEAN /\ owed \subseteq Devices \X Nat

\* The type of each variable; the chain holds one commitment for each epoch, and
\* what is kept for a device, or under way on it, is of a group that it has.
TypeOK == ChainTyped /\ PhonesTyped /\ TasksTyped /\ EventsTyped /\ HistoryTyped

\* The contract's state of an epoch.
ChainAt(e) == chain[e + 1]

\* A device that the chain counts as a member has, for the epoch it is at, the
\* members and the salt that the chain has committed to, and the secret of every
\* other such device: whatever is lost, late or restarted, unless the device has
\* at some time gone on without the chain or followed one that has (performEpochTransition, applyStateUpdate
\* and applyRekeyEnvelope ask the chain first).
MembersAgreeWithChain ==
    LET settled == {d \in Devices \ unverified :
                       group[d] # NoGroup /\ group[d].published}
        counted == {d \in settled : d \in ChainAt(group[d].epoch).members}
    IN  /\ \A d \in settled : group[d].epoch <= OnChain.epoch
        /\ \A d \in counted : Commitment(group[d]) = ChainAt(group[d].epoch)
        /\ \A d, m \in counted :
              group[d].epoch = group[m].epoch => group[d].secret = group[m].secret

\* A device that the chain has counted out has not got, and is not sent, the
\* secret of those who have followed the chain so far (the envelopes of
\* performEpochTransition and of resendPendingRekeys), even if it was counted in
\* and out again by messages that came late.
RemovedMembersLoseTheSecret ==
    \A d \in Devices, m \in Devices \ unverified :
        (/\ group[d] # NoGroup /\ group[m] # NoGroup
         /\ \E e \in 0 .. group[m].epoch : d \in ChainAt(e).members
         /\ d \notin ChainAt(group[m].epoch).members)
        => /\ group[d].secret # group[m].secret
           /\ \A ev \in events :
                 ev.type = "envelope" /\ ev.to = d => ev.secret # group[m].secret

\* The state that the chain has moved to is held by a device, or by a coroutine
\* that will install it: only a lost answer or a restart can leave the group with
\* a state that nobody knows (performEpochTransition saves nothing before the
\* chain has accepted).
ChainStateIsKnown ==
    \/ orphaned \/ unverified # {}
    \/ \E d \in Devices : (group[d] # NoGroup /\ Commitment(group[d]) = OnChain)
    \/ \E t \in tasks : /\ t.kind = "transition" /\ Commitment(t.cand) = OnChain
                        /\ t.phase \in {"accepted", "installed"}

\* Whoever was sent the secret of a removal and has not taken it is still on a
\* list, or the envelope still in its inbox: acks that come late or for another
\* epoch and envelopes that are refused strike nobody off (SavePendingRekey
\* comes after the envelopes, commitRemoteRekey acks after it has installed).
OwedIsRemembered ==
    \A debt \in owed :
        \/ \E ev \in events : ev.type = "envelope" /\ ev.to = debt[1] /\ ev.epoch = debt[2]
        \/ \E t \in tasks : t.kind = "transition" /\ t.phase = "told" /\ t.cand.epoch = debt[2]
        \/ \E d \in Devices : \E r \in pending[d] :
              r.task.cand.epoch = debt[2] /\ debt[1] \in r.unacked

\* No message and no answer takes a device back to an earlier epoch, although it
\* was waiting for the chain when it was overtaken; a restart may, and so may a
\* device that went on without the chain.
EpochsMoveForward ==
    [][\A d \in Devices :
          group[d] # NoGroup =>
             \/ group'[d].epoch >= group[d].epoch
             \/ faults' > faults
             \/ d \in unverified']_vars

===============================================================================

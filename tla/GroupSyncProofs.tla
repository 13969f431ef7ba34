---------------------------- MODULE GroupSyncProofs ----------------------------
(***************************************************************************)
(* Proofs about GroupSync.  A device that has never gone on without the    *)
(* chain, nor followed one that did, is called true below.  The chain does *)
(* not hold secrets, and a change that it has accepted is for a while      *)
(* known to one coroutine only: the invariant therefore speaks of a secret *)
(* for each epoch, sec, and of the first epoch, top, that no true device   *)
(* has reached.                                                            *)
(***************************************************************************)
EXTENDS GroupSync, TLAPS

IsTrue(d) == d \in Devices \ unverified

\* A group of an epoch below top, with the salt and the secret of that epoch.
Tracks(g, ch, sec, top) ==
    /\ g.epoch < top
    /\ g.salt = ch[g.epoch + 1].salt
    /\ g.secret = sec[g.epoch]

\* What a true device may have: a guest counts itself in before the chain does.
GroupFits(d, g, ch, sec, top) ==
    g # NoGroup =>
        /\ Tracks(g, ch, sec, top)
        /\ g.published => g.members = ch[g.epoch + 1].members \cup {d}

\* A change: from what, into what, and what the chain says of it so far.
ShapeFits(t) ==
    /\ t.from.published /\ t.cand.published
    /\ t.cand.epoch = t.from.epoch + 1
    /\ t.cand.members = (t.from.members \ t.gone) \cup t.added
    /\ t.gone \cap t.cand.members = {} /\ t.dev \in t.cand.members
    /\ t.gone = {} => t.cand.secret = t.from.secret

TransitionFits(t, ch, sec, top) ==
    /\ ShapeFits(t)
    /\ Tracks(t.from, ch, sec, top)
    /\ t.phase = "sent" =>
          t.base = Commitment(t.from)
    /\ t.phase # "sent" =>
          t.from.members = ch[t.from.epoch + 1].members
    /\ t.phase = "accepted" =>
          /\ t.cand.epoch = top /\ top < Len(ch)
          /\ Commitment(t.cand) = ch[top + 1] /\ t.cand.secret = sec[top]
    /\ t.phase \in {"installed", "told"} =>
          /\ Tracks(t.cand, ch, sec, top)
          /\ t.cand.members = ch[t.cand.epoch + 1].members

\* What a question to the chain would install: members that came with the
\* question are exact, those that an envelope led to are the chain's if the
\* chain agrees.
CheckFits(t, ch, sec, top) ==
    /\ Tracks(t.cand, ch, sec, top)
    /\ t.cand.published /\ t.dev \in t.cand.members
    /\ t.kind = "check" => t.cand.members = ch[t.cand.epoch + 1].members \cup {t.dev}
    /\ t.kind = "rekey" => t.commitment = Commitment(t.cand)

UpdateFits(ev, ch, sec, top) ==
    LET e == ev.key[2] IN
    /\ ev.epoch = e + 1 /\ ev.epoch < top
    /\ ev.salt = ch[e + 2].salt
    /\ ev.gone = {} /\ ch[e + 2].members = ch[e + 1].members \cup ev.added
    /\ sec[e + 1] = sec[e]

EnvelopeFits(ev, ch, sec, top) ==
    /\ ev.epoch < top
    /\ ev.salt = ch[ev.epoch + 1].salt
    /\ ev.secret = sec[ev.epoch]
    /\ ev.to \notin ev.gone

RecordFits(r, ch, sec, top) ==
    /\ Tracks(r.task.cand, ch, sec, top)
    /\ r.unacked \cap r.task.gone = {}

-------------------------------------------------------------------------------
(* The invariant, device by device.                                        *)

PhoneFits(d, sec, top) ==
    /\ GroupFits(d, group[d], chain, sec, top) /\ GroupFits(d, saved[d], chain, sec, top)
    /\ baseline[d] # NoBaseline =>
          group[d] # NoGroup /\ group[d].published /\ baseline[d] = Commitment(group[d])
    /\ listening[d] # NoKey => listening[d][2] <= group[d].epoch
    /\ \A r \in pending[d] : RecordFits(r, chain, sec, top)

TaskFits(t, sec, top) ==
    /\ t.kind = "transition" =>
          /\ TransitionFits(t, chain, sec, top)
          /\ group[t.dev].published
          /\ t.phase = "installed" => t.cand.epoch <= group[t.dev].epoch
    /\ t.kind \in {"check", "rekey"} /\ IsTrue(t.from) => CheckFits(t, chain, sec, top)

MessageFits(ev, sec, top) ==
    /\ ev.type = "invitation" => Tracks(ev.group, chain, sec, top)
    /\ ev.type = "update" => UpdateFits(ev, chain, sec, top)
    /\ ev.type = "envelope" => EnvelopeFits(ev, chain, sec, top)

DeviceFits(d, sec, top) ==
    /\ PhoneFits(d, sec, top)
    /\ \A t \in tasks : t.dev = d => TaskFits(t, sec, top)
    /\ \A ev \in events :
          ev.type \in {"invitation", "update", "envelope"} /\ ev.from = d => MessageFits(ev, sec, top)

\* The chain has accepted a change that only this coroutine knows.
Accepted(t) == t.kind = "transition" /\ t.phase = "accepted" /\ IsTrue(t.dev)

OneAccepted == \A t, u \in tasks : Accepted(t) /\ Accepted(u) => t = u

Known(sec, top) ==
    /\ OneAccepted
    /\ \A d \in Devices : IsTrue(d) => DeviceFits(d, sec, top)

\* The inductive invariant.
SyncInv ==
    /\ TypeOK
    /\ \E sec \in [Nat -> Nat], top \in Nat : top <= Len(chain) /\ Known(sec, top)


-------------------------------------------------------------------------------
(* Types.                                                                  *)

LEMMA GroupRecord ==
    ASSUME NEW g \in Groups
    PROVE  /\ g.epoch \in Nat /\ g.members \subseteq Devices /\ g.salt \in Salts
           /\ g.secret \in Nat /\ g.published \in BOOLEAN
BY DEF Groups

\* A commitment and a key say of a group what they are made of.
LEMMA CommitmentRecord ==
    ASSUME NEW g \in Groups
    PROVE  /\ Commitment(g) \in Commitments
           /\ Commitment(g).members = g.members /\ Commitment(g).epoch = g.epoch
           /\ Commitment(g).salt = g.salt
           /\ KeyOf(g) \in Keyed /\ KeyOf(g)[2] = g.epoch
BY GroupRecord DEF Commitment, Commitments, KeyOf, Keyed

\* The salt that somebody's joining derives is a salt.
LEMMA DerivedSalt ==
    ASSUME NEW s \in Salts, NEW m \in Devices
    PROVE  DeriveSalt(s, m) \in Salts
BY DEF DeriveSalt, Salts

\* A fresh salt is a salt.
LEMMA FreshSalt ==
    ASSUME starts \in Nat
    PROVE  <<starts + 1>> \in Salts
BY DEF Salts

\* What adding a member leaves and changes.
LEMMA AddMemberFacts ==
    ASSUME NEW g \in Groups, NEW m \in Devices
    PROVE  /\ AddMember(g, m) \in Groups
           /\ AddMember(g, m).members = g.members \cup {m}
           /\ AddMember(g, m).epoch = g.epoch + 1
           /\ AddMember(g, m).secret = g.secret
           /\ AddMember(g, m).published = g.published
<1>1. DeriveSalt(g.salt, m) \in Salts
  BY GroupRecord, DerivedSalt
<1>2. g.members \cup {m} \in SUBSET Devices /\ g.epoch + 1 \in Nat
  BY GroupRecord
<1>. HIDE DEF DeriveSalt, Salts
<1>. QED BY <1>1, <1>2 DEF AddMember, Groups

\* What removing a member leaves and changes.
LEMMA RemoveMemberFacts ==
    ASSUME NEW g \in Groups, NEW m \in Devices, starts \in Nat
    PROVE  /\ RemoveMember(g, m) \in Groups
           /\ RemoveMember(g, m).members = g.members \ {m}
           /\ RemoveMember(g, m).epoch = g.epoch + 1
           /\ RemoveMember(g, m).published = g.published
<1>1. g.members \ {m} \in SUBSET Devices /\ g.epoch + 1 \in Nat /\ starts + 1 \in Nat
  BY GroupRecord
<1>2. <<starts + 1>> \in Salts
  BY FreshSalt
<1>. HIDE DEF Salts
<1>. QED BY <1>1, <1>2 DEF RemoveMember, Groups

\* What a new salt leaves and changes.
LEMMA RotateKeyFacts ==
    ASSUME NEW g \in Groups, starts \in Nat
    PROVE  /\ RotateKey(g) \in Groups
           /\ RotateKey(g).members = g.members
           /\ RotateKey(g).epoch = g.epoch + 1
           /\ RotateKey(g).secret = g.secret
           /\ RotateKey(g).published = g.published
<1>1. g.epoch + 1 \in Nat /\ <<starts + 1>> \in Salts
  BY GroupRecord, FreshSalt
<1>. HIDE DEF Salts
<1>. QED BY <1>1 DEF RotateKey, Groups

\* What an update makes of a group.
LEMMA UpdatedFacts ==
    ASSUME NEW g \in Groups, NEW u \in Updates, NEW e \in Nat
    PROVE  /\ Updated(g, u, e) \in Groups
           /\ Updated(g, u, e).members = (g.members \ u.gone) \cup u.added
           /\ Updated(g, u, e).epoch = e
           /\ Updated(g, u, e).salt = u.salt
           /\ Updated(g, u, e).secret = g.secret
           /\ Updated(g, u, e).published = g.published
<1>1. (g.members \ u.gone) \cup u.added \in SUBSET Devices /\ u.salt \in Salts
  BY GroupRecord DEF Updates
<1>2. /\ WithDelta(g, u) \in Groups
      /\ WithDelta(g, u).members = (g.members \ u.gone) \cup u.added
      /\ WithDelta(g, u).secret = g.secret /\ WithDelta(g, u).published = g.published
  BY <1>1 DEF WithDelta, Groups
<1>. HIDE DEF Salts, WithDelta
<1>. QED BY <1>1, <1>2 DEF Updated, Groups

\* What an envelope makes of a group.
LEMMA RekeyedFacts ==
    ASSUME NEW g \in Groups, NEW ev \in Envelopes
    PROVE  /\ Rekeyed(g, ev) \in Groups
           /\ Rekeyed(g, ev).members = g.members \ ev.gone
           /\ Rekeyed(g, ev).epoch = ev.epoch
           /\ Rekeyed(g, ev).salt = ev.salt
           /\ Rekeyed(g, ev).secret = ev.secret
           /\ Rekeyed(g, ev).published = g.published
<1>1. /\ g.members \ ev.gone \in SUBSET Devices /\ ev.salt \in Salts
      /\ ev.epoch \in Nat /\ ev.secret \in Nat
  BY GroupRecord DEF Envelopes
<1>. HIDE DEF Salts
<1>. QED BY <1>1 DEF Rekeyed, Groups

\* A task's kind tells what it is, and an event's type.
LEMMA TaskKinds ==
    ASSUME TypeOK, NEW t \in tasks
    PROVE  /\ t.dev \in Devices /\ group[t.dev] \in Groups
           /\ t.kind = "transition" => t \in Transitions
           /\ t.kind \in {"check", "rekey"} => t \in Checks
           /\ t.kind = "fork" => t \in Forks
BY DEF TypeOK, PhonesTyped, TasksTyped, Transitions, Checks, Forks

LEMMA EventTypes ==
    ASSUME TypeOK, NEW ev \in events
    PROVE  /\ ev.type = "invitation" => ev \in Invitations
           /\ ev.type = "envelope" => ev \in Envelopes
           /\ ev.type = "joined" => ev \in Joined
           /\ ev.type = "update" => ev \in Updates
           /\ ev.type = "notice" => ev \in Notices
           /\ ev.type = "ack" => ev \in Acks
BY DEF TypeOK, EventsTyped, Invitations, Envelopes, ProtocolEvents, Joined, Updates, Notices, Acks

\* The chain's last commitment, and what a node may show of it.
LEMMA ChainFacts ==
    ASSUME TypeOK
    PROVE  /\ Len(chain) \in Nat \ {0} /\ DOMAIN chain = 1 .. Len(chain)
           /\ OnChain \in Commitments /\ OnChain.epoch = Len(chain) - 1
           /\ \A view \in Views : /\ view \in Commitments /\ view.epoch + 1 \in 1 .. Len(chain)
                                  /\ view = chain[view.epoch + 1]
<1>1. chain \in Seq(Commitments) /\ chain # << >> /\ \A i \in DOMAIN chain : chain[i].epoch = i - 1
  BY DEF TypeOK, ChainTyped
<1>2. Len(chain) \in Nat \ {0} /\ DOMAIN chain = 1 .. Len(chain)
  BY <1>1
<1>3. \A i \in 1 .. Len(chain) : chain[i] \in Commitments
  BY <1>1
<1>. QED BY <1>1, <1>2, <1>3 DEF OnChain, Views

\* What a device has, if it has a group at all.
LEMMA PhoneFacts ==
    ASSUME TypeOK, NEW d \in Devices
    PROVE  /\ group[d] # NoGroup <=> group[d] \in Groups
           /\ saved[d] # NoGroup <=> saved[d] \in Groups
           /\ saved[d] # NoGroup => group[d] # NoGroup
           /\ baseline[d] # NoBaseline <=> baseline[d] \in Commitments
           /\ listening[d] # NoKey <=> listening[d] \in Keyed
           /\ listening[d] # NoKey => group[d] # NoGroup
           /\ bundles[d] \subseteq Devices
           /\ processed[d] \subseteq ProtocolEvents
           /\ pending[d] \subseteq Records
           /\ pending[d] # {} => group[d] # NoGroup
BY AbsentAssumption DEF TypeOK, PhonesTyped

LEMMA InitTyped ==
    ASSUME Init
    PROVE  TypeOK
<1>. PICK members \in FirstMembers :
        LET g == [epoch |-> 0, members |-> members, salt |-> <<0>>, secret |-> 0,
                  published |-> TRUE]
        IN  /\ chain = <<Commitment(g)>>
            /\ group = [d \in Devices |-> IF d \in members THEN g ELSE NoGroup]
            /\ listening = [d \in Devices |-> IF d \in members THEN KeyOf(g) ELSE NoKey]
            /\ bundles = [d \in Devices |-> IF d \in members THEN members ELSE {}]
  BY DEF Init
<1>. DEFINE g == [epoch |-> 0, members |-> members, salt |-> <<0>>, secret |-> 0,
                  published |-> TRUE]
<1>1. members \subseteq Devices
  BY SyncAssumption
<1>2. <<0>> \in Salts
  BY DEF Salts
<1>3. g \in Groups /\ g.epoch = 0
  BY <1>1, <1>2 DEF Groups
<1>. HIDE DEF g
<1>4. Commitment(g) \in Commitments /\ Commitment(g).epoch = 0 /\ KeyOf(g) \in Keyed
  BY <1>3, CommitmentRecord
<1>5. chain = <<Commitment(g)>>
  BY DEF g
<1>6. ChainTyped
  BY <1>4, <1>5 DEF ChainTyped
<1>7. group \in [Devices -> Groups \cup {NoGroup}]
  BY <1>3 DEF g
<1>8. listening \in [Devices -> Keyed \cup {NoKey}]
  BY <1>4 DEF g
<1>9. bundles \in [Devices -> SUBSET Devices]
  BY <1>1
<1>10. \A d \in Devices : group[d] = NoGroup => listening[d] = NoKey
  BY <1>3, AbsentAssumption DEF g
<1>11. PhonesTyped
  BY <1>7, <1>8, <1>9, <1>10 DEF Init, PhonesTyped
<1>12. TasksTyped /\ EventsTyped
  BY DEF Init, TasksTyped, EventsTyped
<1>13. starts = 0 /\ faults = 0 /\ unverified = {} /\ owed = {} /\ orphaned \in BOOLEAN
  BY DEF Init
<1>14. HistoryTyped
  BY <1>13, SyncAssumption DEF HistoryTyped
<1>. QED BY <1>6, <1>11, <1>12, <1>14 DEF TypeOK

\* A change that a device starts: the task, and the group that is changed at once
\* when it is not on chain.
LEMMA TransitionTyped ==
    ASSUME TypeOK, NEW d \in Devices, NEW cand \in Groups, NEW added \in SUBSET Devices,
           NEW gone \in SUBSET Devices, group[d] \in Groups, Transition(d, cand, added, gone),
           bundles' \in [Devices -> SUBSET Devices],
           processed' \in [Devices -> SUBSET ProtocolEvents]
    PROVE  TypeOK'
<1>1. PICK task \in Transitions :
        /\ task.dev = d /\ tasks' = tasks \cup {task}
  <2>1. CASE group[d].published
    <3>. DEFINE base == IF baseline[d] = NoBaseline THEN Commitment(group[d]) ELSE baseline[d]
    <3>1. base \in Commitments
      BY PhoneFacts, CommitmentRecord
    <3>. DEFINE task == [kind |-> "transition", dev |-> d, from |-> group[d], cand |-> cand,
                         added |-> added, gone |-> gone, phase |-> "sent", base |-> base]
    <3>2. tasks' = tasks \cup {task}
      BY <2>1 DEF Transition
    <3>. HIDE DEF base
    <3>3. task \in Transitions /\ task.dev = d
      BY <3>1 DEF Transitions
    <3>. QED BY <3>2, <3>3
  <2>2. CASE ~group[d].published
    <3>. DEFINE task == [kind |-> "transition", dev |-> d, from |-> group[d], cand |-> cand,
                         added |-> added, gone |-> gone, phase |-> "installed", base |-> NoBaseline]
    <3>1. tasks' = tasks \cup {task}
      BY <2>2 DEF Transition
    <3>2. task \in Transitions /\ task.dev = d
      BY DEF Transitions
    <3>. QED BY <3>1, <3>2
  <2>. QED BY <2>1, <2>2
<1>2. /\ group' \in [Devices -> Groups \cup {NoGroup}]
      /\ \A x \in Devices : group'[x] = NoGroup => group[x] = NoGroup
      /\ group'[d] # NoGroup
  BY AbsentAssumption DEF TypeOK, PhonesTyped, Transition
<1>3. PhonesTyped'
  BY <1>2 DEF TypeOK, PhonesTyped, Transition
<1>4. TasksTyped'
  <2>1. \A t \in tasks : group[t.dev] # NoGroup /\ t.dev \in Devices
    BY TaskKinds DEF TypeOK, TasksTyped
  <2>2. tasks' \subseteq Transitions \cup Checks \cup Forks
    BY <1>1 DEF TypeOK, TasksTyped
  <2>3. \A t \in tasks' : group'[t.dev] # NoGroup
    BY <1>1, <1>2, <2>1
  <2>. QED BY <2>2, <2>3 DEF TasksTyped
<1>5. ChainTyped' /\ EventsTyped'
  BY DEF TypeOK, ChainTyped, EventsTyped, Transition
<1>6. HistoryTyped'
  BY SyncAssumption DEF TypeOK, HistoryTyped, Transition
<1>. QED BY <1>3, <1>4, <1>5, <1>6 DEF TypeOK

\* A task whose phase changes is the same task otherwise.
LEMMA PhaseFacts ==
    ASSUME NEW t \in Transitions, NEW phase \in {"sent", "accepted", "installed", "told"}
    PROVE  LET u == [t EXCEPT !.phase = phase] IN
           /\ u \in Transitions /\ u.phase = phase /\ u.kind = "transition"
           /\ u.dev = t.dev /\ u.from = t.from /\ u.cand = t.cand
           /\ u.added = t.added /\ u.gone = t.gone /\ u.base = t.base
BY DEF Transitions

\* Tasks stay typed when some of them end and one comes that is a device's which
\* has a group, as long as no device loses its group.
LEMMA TasksStayTyped ==
    ASSUME TypeOK,
           NEW task \in Transitions \cup Checks \cup Forks,
           tasks' \subseteq tasks \cup {task}, group[task.dev] # NoGroup,
           \A d \in Devices : group'[d] = NoGroup => group[d] = NoGroup
    PROVE  TasksTyped'
<1>1. task.dev \in Devices /\ \A t \in tasks : t.dev \in Devices
  BY TaskKinds DEF Transitions, Checks, Forks
<1>. QED BY <1>1 DEF TypeOK, TasksTyped

LEMMA TasksStayTypedWithout ==
    ASSUME TypeOK, tasks' \subseteq tasks,
           \A d \in Devices : group'[d] = NoGroup => group[d] = NoGroup
    PROVE  TasksTyped'
<1>1. \A t \in tasks : t.dev \in Devices
  BY TaskKinds
<1>. QED BY <1>1 DEF TypeOK, TasksTyped

LEMMA ChainDecidesTyped ==
    ASSUME TypeOK, NEW t \in tasks, ChainDecides(t)
    PROVE  TypeOK'
<1>1. t \in Transitions /\ t.dev \in Devices /\ group[t.dev] # NoGroup
  BY TaskKinds, AbsentAssumption DEF ChainDecides
<1>2. PhonesTyped' /\ EventsTyped' /\ HistoryTyped'
  BY DEF TypeOK, PhonesTyped, EventsTyped, HistoryTyped, ChainDecides, bounds, history
<1>3. CASE Acceptable(t) /\ Change(t, "accepted")
           /\ chain' = Append(chain, [Commitment(t.cand) EXCEPT !.epoch = t.base.epoch + 1])
  <2>1. t.base = OnChain /\ t.cand \in Groups
    BY <1>1, <1>3 DEF Acceptable, Transitions
  <2>2. /\ t.base.epoch + 1 = Len(chain) /\ Len(chain) \in Nat
        /\ chain \in Seq(Commitments) /\ DOMAIN chain = 1 .. Len(chain)
    BY <2>1, ChainFacts DEF TypeOK, ChainTyped
  <2>3. [Commitment(t.cand) EXCEPT !.epoch = t.base.epoch + 1] \in Commitments
    BY <2>1, <2>2, CommitmentRecord DEF Commitments
  <2>4. [Commitment(t.cand) EXCEPT !.epoch = t.base.epoch + 1].epoch = Len(chain)
    BY <2>1, <2>2, CommitmentRecord DEF Commitments
  <2>5. ChainTyped'
    BY <1>3, <2>2, <2>3, <2>4 DEF TypeOK, ChainTyped
  <2>6. TasksTyped'
    <3>1. [t EXCEPT !.phase = "accepted"] \in Transitions
          /\ [t EXCEPT !.phase = "accepted"].dev = t.dev
      BY <1>1, PhaseFacts
    <3>2. tasks' \subseteq tasks \cup {[t EXCEPT !.phase = "accepted"]}
      BY <1>3 DEF Change
    <3>3. group' = group
      BY DEF ChainDecides
    <3>. QED BY <1>1, <3>1, <3>2, <3>3, TasksStayTyped
  <2>. QED BY <1>2, <2>5, <2>6 DEF TypeOK
<1>4. CASE tasks' = tasks \ {t} /\ UNCHANGED chain
  <2>1. ChainTyped'
    BY <1>4 DEF TypeOK, ChainTyped
  <2>2. TasksTyped'
    BY <1>4, TasksStayTypedWithout DEF ChainDecides
  <2>. QED BY <1>2, <2>1, <2>2 DEF TypeOK
<1>. QED BY <1>3, <1>4 DEF ChainDecides

LEMMA AnswerLostTyped ==
    ASSUME TypeOK, NEW t \in tasks, AnswerLost(t)
    PROVE  TypeOK'
<1>1. PhonesTyped' /\ EventsTyped' /\ ChainTyped'
  BY DEF TypeOK, PhonesTyped, EventsTyped, ChainTyped, AnswerLost
<1>2. TasksTyped'
  BY TasksStayTypedWithout DEF AnswerLost
<1>3. HistoryTyped'
  BY SyncAssumption DEF TypeOK, HistoryTyped, AnswerLost, Fault
<1>. QED BY <1>1, <1>2, <1>3 DEF TypeOK

LEMMA InstallTyped ==
    ASSUME TypeOK, NEW t \in tasks, Install(t)
    PROVE  TypeOK'
<1>1. t \in Transitions /\ t.dev \in Devices /\ group[t.dev] # NoGroup /\ t.cand \in Groups
  BY TaskKinds, AbsentAssumption DEF Install, Transitions
<1>2. Commitment(t.cand) \in Commitments
  BY <1>1, CommitmentRecord
<1>3. ChainTyped' /\ EventsTyped' /\ HistoryTyped'
  BY DEF TypeOK, ChainTyped, EventsTyped, HistoryTyped, Install, bounds, history
<1>4. /\ group' \in [Devices -> Groups \cup {NoGroup}]
      /\ \A d \in Devices : group'[d] = NoGroup => group[d] = NoGroup
      /\ baseline' \in [Devices -> Commitments \cup {NoBaseline}]
  BY <1>1, <1>2, AbsentAssumption DEF TypeOK, PhonesTyped, Install
<1>5. PhonesTyped'
  BY <1>4 DEF TypeOK, PhonesTyped, Install
<1>6. TasksTyped'
  <2>1. [t EXCEPT !.phase = "installed"] \in Transitions
        /\ [t EXCEPT !.phase = "installed"].dev = t.dev
    BY <1>1, PhaseFacts
  <2>2. tasks' \subseteq tasks \cup {[t EXCEPT !.phase = "installed"]}
    BY DEF Install, Change
  <2>. QED BY <1>1, <1>4, <2>1, <2>2, TasksStayTyped
<1>. QED BY <1>3, <1>5, <1>6 DEF TypeOK

\* What a coroutine sends is a message.
LEMMA SentTyped ==
    ASSUME TypeOK, NEW t \in Transitions, NEW m \in Devices
    PROVE  /\ StateUpdate(t) \in Updates
           /\ RemovalNotice(t) \in Notices
           /\ Envelope(t, m) \in Envelopes
<1>1. /\ t.dev \in Devices /\ t.from \in Groups /\ t.cand \in Groups
      /\ t.added \subseteq Devices /\ t.gone \subseteq Devices
  BY DEF Transitions
<1>2. KeyOf(t.from) \in Keyed /\ Commitment(t.cand) \in Commitments
  BY <1>1, CommitmentRecord
<1>3. bundles[t.dev] \cup {t.dev} \subseteq Devices
  BY <1>1, PhoneFacts
<1>4. t.cand.epoch \in Nat /\ t.cand.salt \in Salts /\ t.cand.secret \in Nat
  BY <1>1, GroupRecord
<1>. HIDE DEF Salts
<1>5. StateUpdate(t) \in Updates
  BY <1>1, <1>2, <1>3, <1>4 DEF StateUpdate, Updates
<1>6. RemovalNotice(t) \in Notices
  BY <1>1, <1>2, <1>4 DEF RemovalNotice, Notices
<1>7. Envelope(t, m) \in Envelopes
  BY <1>1, <1>4 DEF Envelope, Envelopes
<1>. QED BY <1>5, <1>6, <1>7

LEMMA AnnounceTyped ==
    ASSUME TypeOK, NEW t \in tasks, Announce(t)
    PROVE  TypeOK'
<1>1. t \in Transitions /\ t.dev \in Devices /\ group[t.dev] # NoGroup /\ t.cand \in Groups
  BY TaskKinds, AbsentAssumption DEF Announce, Transitions
<1>2. KeyOf(t.cand) \in Keyed /\ t.cand.epoch \in Nat /\ t.cand.members \subseteq Devices
  BY <1>1, CommitmentRecord, GroupRecord
<1>. DEFINE told == (t.cand.members \cap bundles[t.dev]) \ {t.dev}
<1>3. told \subseteq Devices
  BY <1>2
<1>4. ChainTyped'
  BY DEF TypeOK, ChainTyped, Announce
<1>5. PhonesTyped'
  <2>1. /\ saved' \in [Devices -> Groups \cup {NoGroup}]
        /\ listening' \in [Devices -> Keyed \cup {NoKey}]
    BY <1>1, <1>2 DEF TypeOK, PhonesTyped, Announce
  <2>2. \A d \in Devices : group[d] = NoGroup => saved'[d] = saved[d] /\ listening'[d] = listening[d]
    BY <1>1 DEF TypeOK, PhonesTyped, Announce
  <2>. QED BY <2>1, <2>2 DEF TypeOK, PhonesTyped, Announce
<1>6. TasksTyped'
  <2>1. [t EXCEPT !.phase = "told"] \in Transitions
        /\ [t EXCEPT !.phase = "told"].dev = t.dev
    BY <1>1, PhaseFacts
  <2>2. tasks' \subseteq tasks \cup {[t EXCEPT !.phase = "told"]}
    BY DEF Announce, Change
  <2>3. group' = group
    BY DEF Announce
  <2>. QED BY <1>1, <2>1, <2>2, <2>3, TasksStayTyped
<1>7. EventsTyped'
  <2>1. StateUpdate(t) \in ProtocolEvents /\ RemovalNotice(t) \in ProtocolEvents
        /\ \A m \in told : Envelope(t, m) \in Envelopes
    BY <1>1, <1>3, SentTyped DEF ProtocolEvents
  <2>2. events' \subseteq events \cup {StateUpdate(t), RemovalNotice(t)} \cup {Envelope(t, m) : m \in told}
    BY DEF Announce
  <2>. QED BY <2>1, <2>2 DEF TypeOK, EventsTyped
<1>8. HistoryTyped'
  <2>1. owed' \subseteq owed \cup {<<m, t.cand.epoch>> : m \in told}
    BY DEF Announce
  <2>2. owed' \subseteq Devices \X Nat
    BY <1>2, <1>3, <2>1 DEF TypeOK, HistoryTyped
  <2>. QED BY <2>2 DEF TypeOK, HistoryTyped, Announce, bounds
<1>. QED BY <1>4, <1>5, <1>6, <1>7, <1>8 DEF TypeOK

\* Whatever a device does to its own records leaves them records.
LEMMA PendingTyped ==
    ASSUME TypeOK, NEW d \in Devices, group[d] # NoGroup,
           NEW rs, rs \subseteq Records, \A r \in rs : r.task.dev = d,
           pending' = [pending EXCEPT ![d] = rs],
           UNCHANGED <<group, saved, baseline, listening, bundles>>,
           processed' \in [Devices -> SUBSET ProtocolEvents]
    PROVE  PhonesTyped'
<1>1. pending' \in [Devices -> SUBSET Records]
  BY DEF TypeOK, PhonesTyped
<1>2. \A x \in Devices : group[x] = NoGroup => pending'[x] = {}
  BY DEF TypeOK, PhonesTyped
<1>3. \A x \in Devices : \A r \in pending'[x] : r.task.dev = x
  BY DEF TypeOK, PhonesTyped
<1>. QED BY <1>1, <1>2, <1>3 DEF TypeOK, PhonesTyped

LEMMA SavePendingRekeyTyped ==
    ASSUME TypeOK, NEW t \in tasks, SavePendingRekey(t)
    PROVE  TypeOK'
<1>1. t \in Transitions /\ t.dev \in Devices /\ group[t.dev] # NoGroup /\ t.cand \in Groups
  BY TaskKinds, AbsentAssumption DEF SavePendingRekey, Transitions
<1>. DEFINE record == [task |-> t, unacked |-> t.cand.members \ {t.dev}, retries |-> 0]
<1>2. record \in Records /\ record.task = t
  BY <1>1, GroupRecord DEF Records
<1>3. pending[t.dev] \subseteq Records
  BY <1>1, PhoneFacts
<1>4. PhonesTyped'
  <2>. DEFINE rs == pending[t.dev] \cup {record}
  <2>1. rs \subseteq Records /\ \A r \in rs : r.task.dev = t.dev
    <3>1. \A r \in pending[t.dev] : r.task.dev = t.dev
      BY <1>1 DEF TypeOK, PhonesTyped
    <3>. HIDE DEF record
    <3>. QED BY <1>2, <1>3, <3>1
  <2>2. pending' = [pending EXCEPT ![t.dev] = rs]
    BY <1>1 DEF SavePendingRekey, TypeOK, PhonesTyped
  <2>3. UNCHANGED <<group, saved, baseline, listening, bundles>>
    BY DEF SavePendingRekey
  <2>4. processed' \in [Devices -> SUBSET ProtocolEvents]
    BY DEF SavePendingRekey, TypeOK, PhonesTyped
  <2>. HIDE DEF rs
  <2>. QED BY <1>1, <2>1, <2>2, <2>3, <2>4, PendingTyped
<1>5. TasksTyped'
  BY TasksStayTypedWithout DEF SavePendingRekey
<1>6. ChainTyped' /\ EventsTyped' /\ HistoryTyped'
  BY DEF TypeOK, ChainTyped, EventsTyped, HistoryTyped, SavePendingRekey, bounds, history
<1>. QED BY <1>4, <1>5, <1>6 DEF TypeOK

\* A record is of its device's own removal.
LEMMA RecordFacts ==
    ASSUME TypeOK, NEW d \in Devices, NEW r \in pending[d]
    PROVE  /\ group[d] # NoGroup /\ r \in Records /\ r.task \in Transitions /\ r.task.dev = d
           /\ r.task.cand \in Groups /\ r.unacked \subseteq Devices /\ r.retries \in Nat
BY PhoneFacts DEF Records, Transitions, TypeOK, PhonesTyped

LEMMA ResendPendingRekeysTyped ==
    ASSUME TypeOK, NEW d \in Devices, NEW r \in pending[d], ResendPendingRekeys(d, r)
    PROVE  TypeOK'
<1>1. /\ group[d] # NoGroup /\ r \in Records /\ r.task \in Transitions
      /\ r.unacked \subseteq Devices /\ pending[d] \subseteq Records
  BY RecordFacts, PhoneFacts
<1>. DEFINE again == [r EXCEPT !.retries = @ + 1]
            rs == (pending[d] \ {r}) \cup {again}
<1>2. rs \subseteq Records /\ \A s \in rs : s.task.dev = d
  BY <1>1 DEF Records, TypeOK, PhonesTyped
<1>3. pending' = [pending EXCEPT ![d] = rs]
  BY DEF ResendPendingRekeys, TypeOK, PhonesTyped
<1>4. PhonesTyped'
  <2>1. UNCHANGED <<group, saved, baseline, listening, bundles>>
    BY DEF ResendPendingRekeys
  <2>2. processed' \in [Devices -> SUBSET ProtocolEvents]
    BY DEF ResendPendingRekeys, TypeOK, PhonesTyped
  <2>. HIDE DEF rs
  <2>. QED BY <1>1, <1>2, <1>3, <2>1, <2>2, PendingTyped
<1>5. EventsTyped'
  <2>1. \A m \in r.unacked : Envelope(r.task, m) \in Envelopes
    BY <1>1, SentTyped
  <2>. QED BY <2>1 DEF ResendPendingRekeys, TypeOK, EventsTyped
<1>6. ChainTyped' /\ HistoryTyped' /\ TasksTyped'
  BY DEF TypeOK, ChainTyped, HistoryTyped, TasksTyped, ResendPendingRekeys, bounds, history
<1>. QED BY <1>4, <1>5, <1>6 DEF TypeOK

LEMMA ExpirePendingRekeyTyped ==
    ASSUME TypeOK, NEW d \in Devices, NEW r \in pending[d], ExpirePendingRekey(d, r)
    PROVE  TypeOK'
<1>1. group[d] # NoGroup /\ pending[d] \subseteq Records
  BY RecordFacts, PhoneFacts
<1>2. pending' = [pending EXCEPT ![d] = pending[d] \ {r}]
  BY DEF ExpirePendingRekey, TypeOK, PhonesTyped
<1>3. PhonesTyped'
  <2>. DEFINE rs == pending[d] \ {r}
  <2>1. UNCHANGED <<group, saved, baseline, listening, bundles>>
    BY DEF ExpirePendingRekey
  <2>2. processed' \in [Devices -> SUBSET ProtocolEvents]
    BY DEF ExpirePendingRekey, TypeOK, PhonesTyped
  <2>3. /\ rs \subseteq Records /\ pending' = [pending EXCEPT ![d] = rs]
        /\ \A s \in rs : s.task.dev = d
    BY <1>1, <1>2 DEF TypeOK, PhonesTyped
  <2>. HIDE DEF rs
  <2>. QED BY <1>1, <2>1, <2>2, <2>3, PendingTyped
<1>4. ChainTyped' /\ EventsTyped' /\ TasksTyped'
  BY DEF TypeOK, ChainTyped, EventsTyped, TasksTyped, ExpirePendingRekey
<1>5. owed' \subseteq owed
  BY DEF ExpirePendingRekey
<1>6. HistoryTyped'
  BY <1>5 DEF TypeOK, HistoryTyped, ExpirePendingRekey, bounds
<1>. QED BY <1>3, <1>4, <1>6 DEF TypeOK

LEMMA InviteTyped ==
    ASSUME TypeOK, NEW d \in Devices, NEW m \in Devices, Invite(d, m)
    PROVE  TypeOK'
<1>1. group[d] \in Groups /\ bundles[d] \cup {d} \subseteq Devices
  BY PhoneFacts DEF Invite, IsMember
<1>2. [type |-> "invitation", to |-> m, from |-> d, group |-> group[d],
       bundles |-> bundles[d] \cup {d}] \in Invitations
  BY <1>1 DEF Invitations
<1>3. EventsTyped'
  BY <1>2 DEF TypeOK, EventsTyped, Invite
<1>4. ChainTyped' /\ PhonesTyped' /\ TasksTyped' /\ HistoryTyped'
  BY DEF TypeOK, ChainTyped, PhonesTyped, TasksTyped, HistoryTyped, Invite, bounds, history
<1>. QED BY <1>3, <1>4 DEF TypeOK

LEMMA AcceptInvitationTyped ==
    ASSUME TypeOK, NEW d \in Devices, NEW ev \in events, AcceptInvitation(d, ev)
    PROVE  TypeOK'
<1>1. ev \in Invitations
  BY EventTypes DEF AcceptInvitation
<1>2. ev.group \in Groups /\ ev.from \in Devices /\ ev.bundles \subseteq Devices
  BY <1>1 DEF Invitations
<1>. PICK verified \in {FALSE} \cup {Commitment(ev.group) = OnChain} :
        LET g == [ev.group EXCEPT !.members = @ \cup {d}, !.published = verified]
        IN  /\ group' = [group EXCEPT ![d] = g]
            /\ listening' = [listening EXCEPT ![d] = KeyOf(g)]
            /\ bundles' = [bundles EXCEPT ![d] = @ \cup ev.bundles \cup {d}]
            /\ events' = events \cup {[type |-> "joined", key |-> KeyOf(g), member |-> d]}
  BY DEF AcceptInvitation
<1>. DEFINE g == [ev.group EXCEPT !.members = @ \cup {d}, !.published = verified]
<1>3. verified \in BOOLEAN
  OBVIOUS
<1>4. g \in Groups
  BY <1>2, <1>3 DEF Groups
<1>5. /\ group' = [group EXCEPT ![d] = g]
      /\ listening' = [listening EXCEPT ![d] = KeyOf(g)]
      /\ bundles' = [bundles EXCEPT ![d] = @ \cup ev.bundles \cup {d}]
      /\ events' = events \cup {[type |-> "joined", key |-> KeyOf(g), member |-> d]}
  OBVIOUS
<1>. HIDE DEF g
<1>6. KeyOf(g) \in Keyed
  BY <1>4, CommitmentRecord
<1>7. PhonesTyped'
  <2>1. /\ group' \in [Devices -> Groups \cup {NoGroup}]
        /\ listening' \in [Devices -> Keyed \cup {NoKey}]
        /\ bundles' \in [Devices -> SUBSET Devices]
    BY <1>2, <1>4, <1>5, <1>6 DEF TypeOK, PhonesTyped
  <2>2. \A x \in Devices : group'[x] = NoGroup => group[x] = NoGroup /\ listening'[x] = listening[x]
    BY <1>4, <1>5, AbsentAssumption DEF TypeOK, PhonesTyped
  <2>. QED BY <2>1, <2>2 DEF TypeOK, PhonesTyped, AcceptInvitation
<1>8. EventsTyped'
  <2>1. [type |-> "joined", key |-> KeyOf(g), member |-> d] \in ProtocolEvents
    BY <1>6 DEF ProtocolEvents, Joined
  <2>. QED BY <1>5, <2>1 DEF TypeOK, EventsTyped
<1>9. TasksTyped'
  <2>1. \A x \in Devices : group'[x] = NoGroup => group[x] = NoGroup
    BY <1>4, <1>5, AbsentAssumption DEF TypeOK, PhonesTyped
  <2>. QED BY <2>1, TasksStayTypedWithout DEF AcceptInvitation
<1>10. ChainTyped' /\ HistoryTyped'
  BY DEF TypeOK, ChainTyped, HistoryTyped, AcceptInvitation, Tainted, bounds
<1>. QED BY <1>7, <1>8, <1>9, <1>10 DEF TypeOK

\* What a message installs leaves every device typed.
LEMMA CommitRemoteTyped ==
    ASSUME TypeOK, NEW d \in Devices, group[d] # NoGroup, NEW cand \in Groups,
           NEW sender \in Devices, CommitRemote(d, cand, sender)
    PROVE  /\ group' \in [Devices -> Groups \cup {NoGroup}]
           /\ \A x \in Devices : group'[x] = NoGroup <=> group[x] = NoGroup
           /\ baseline' \in [Devices -> Commitments \cup {NoBaseline}]
           /\ listening' \in [Devices -> Keyed \cup {NoKey}]
           /\ \A x \in Devices : x # d => listening'[x] = listening[x]
           /\ unverified' \subseteq Devices
           /\ owed' \subseteq Devices \X Nat
<1>1. CASE UNCHANGED <<group, baseline, listening, unverified, owed>>
  BY <1>1 DEF TypeOK, PhonesTyped, HistoryTyped
<1>2. CASE ~(cand.epoch <= group[d].epoch)
  <2>1. KeyOf(cand) \in Keyed /\ Commitment(cand) \in Commitments /\ cand # NoGroup
    BY CommitmentRecord, AbsentAssumption
  <2>2. group' = [group EXCEPT ![d] = cand]
    BY <1>2 DEF CommitRemote
  <2>3. baseline' \in [Devices -> Commitments \cup {NoBaseline}]
    BY <1>2, <2>1 DEF CommitRemote, TypeOK, PhonesTyped
  <2>4. /\ listening' \in [Devices -> Keyed \cup {NoKey}]
        /\ \A x \in Devices : x # d => listening'[x] = listening[x]
    BY <1>2, <2>1 DEF CommitRemote, TypeOK, PhonesTyped
  <2>5. unverified' \subseteq Devices
    BY <1>2 DEF CommitRemote, Tainted, TypeOK, HistoryTyped
  <2>6. owed' \subseteq Devices \X Nat
    BY <1>2 DEF CommitRemote, Taken, TypeOK, HistoryTyped
  <2>7. /\ group' \in [Devices -> Groups \cup {NoGroup}]
        /\ \A x \in Devices : group'[x] = NoGroup <=> group[x] = NoGroup
    BY <2>1, <2>2 DEF TypeOK, PhonesTyped
  <2>. QED BY <2>3, <2>4, <2>5, <2>6, <2>7
<1>. QED BY <1>1, <1>2 DEF CommitRemote

\* So does an update that is adopted.
LEMMA AdoptTyped ==
    ASSUME TypeOK, NEW d \in Devices, group[d] # NoGroup, NEW u \in Updates, NEW e \in Nat,
           Adopt(d, u, e)
    PROVE  /\ group' \in [Devices -> Groups \cup {NoGroup}]
           /\ \A x \in Devices : group'[x] = NoGroup <=> group[x] = NoGroup
           /\ listening' \in [Devices -> Keyed \cup {NoKey}]
           /\ \A x \in Devices : x # d => listening'[x] = listening[x]
           /\ unverified' \subseteq Devices
<1>. DEFINE g == Updated(group[d], u, e)
<1>1. group[d] \in Groups
  BY PhoneFacts
<1>2. g \in Groups /\ KeyOf(g) \in Keyed /\ g # NoGroup
  BY <1>1, UpdatedFacts, CommitmentRecord, AbsentAssumption
<1>3. /\ group' = [group EXCEPT ![d] = g]
      /\ listening' = [listening EXCEPT ![d] = KeyOf(g)]
      /\ unverified' = unverified \cup {d}
  BY DEF Adopt
<1>. HIDE DEF g
<1>. QED BY <1>2, <1>3 DEF TypeOK, PhonesTyped, HistoryTyped

\* A protocol event that a device hears has found it with a group.
LEMMA HeardFacts ==
    ASSUME TypeOK, NEW d \in Devices, NEW ev \in events,
           ev.type \in {"joined", "update", "notice", "ack"}, ev.key = listening[d]
    PROVE  /\ ev \in ProtocolEvents /\ listening[d] \in Keyed /\ group[d] \in Groups
           /\ group[d] # NoGroup
<1>1. ev \in ProtocolEvents
  BY EventTypes DEF ProtocolEvents
<1>2. ev.key \in Keyed
  BY <1>1 DEF ProtocolEvents, Joined, Updates, Notices, Acks
<1>. QED BY <1>1, <1>2, PhoneFacts

LEMMA ApplyStateUpdateTyped ==
    ASSUME TypeOK, NEW d \in Devices, group[d] # NoGroup, NEW u \in Updates,
           ApplyStateUpdate(d, u), processed' \in [Devices -> SUBSET ProtocolEvents]
    PROVE  TypeOK'
<1>1. group[d] \in Groups /\ group[d].epoch \in Nat
  BY PhoneFacts, GroupRecord
<1>2. u.epoch \in Nat /\ u.from \in Devices
  BY DEF Updates
<1>. DEFINE Same == UNCHANGED <<group, baseline, listening, unverified, owed>>
            fork == [kind |-> "fork", dev |-> d, update |-> u]
            cand == Updated(group[d], u, u.epoch)
            check == [kind |-> "check", dev |-> d, from |-> u.from,
                      cand |-> cand, commitment |-> u.commitment]
<1>3. cand \in Groups
  BY <1>1, <1>2, UpdatedFacts
<1>4. \/ Same /\ tasks' = tasks \cup {fork}
      \/ Adopt(d, u, group[d].epoch + 1) /\ UNCHANGED <<baseline, tasks, owed>>
      \/ Same /\ tasks' = tasks \cup {check}
      \/ CommitRemote(d, cand, u.from) /\ UNCHANGED tasks
  <2>1. CASE SameEpoch(d, u)
    BY <2>1 DEF SameEpoch
  <2>2. CASE LaterEpoch(d, u)
    BY <2>2 DEF LaterEpoch
  <2>. QED BY <2>1, <2>2 DEF ApplyStateUpdate
<1>5. fork \in Forks /\ check \in Checks
  <2>. HIDE DEF cand
  <2>. QED BY <1>2, <1>3 DEF Forks, Checks, Updates
<1>. HIDE DEF fork, cand, check
<1>6. /\ group' \in [Devices -> Groups \cup {NoGroup}]
      /\ \A x \in Devices : group'[x] = NoGroup <=> group[x] = NoGroup
      /\ baseline' \in [Devices -> Commitments \cup {NoBaseline}]
      /\ listening' \in [Devices -> Keyed \cup {NoKey}]
      /\ \A x \in Devices : x # d => listening'[x] = listening[x]
      /\ unverified' \subseteq Devices
      /\ owed' \subseteq Devices \X Nat
  <2>1. CASE Same
    BY <2>1 DEF TypeOK, PhonesTyped, HistoryTyped
  <2>2. CASE Adopt(d, u, group[d].epoch + 1) /\ UNCHANGED <<baseline, tasks, owed>>
    <3>1. group[d].epoch + 1 \in Nat
      BY <1>1
    <3>2. /\ group' \in [Devices -> Groups \cup {NoGroup}]
          /\ \A x \in Devices : group'[x] = NoGroup <=> group[x] = NoGroup
          /\ listening' \in [Devices -> Keyed \cup {NoKey}]
          /\ \A x \in Devices : x # d => listening'[x] = listening[x]
          /\ unverified' \subseteq Devices
      BY <2>2, <3>1, AdoptTyped
    <3>. QED BY <2>2, <3>2 DEF TypeOK, PhonesTyped, HistoryTyped
  <2>3. CASE CommitRemote(d, cand, u.from)
    BY <1>2, <1>3, <2>3, CommitRemoteTyped
  <2>. QED BY <1>4, <2>1, <2>2, <2>3
<1>7. PhonesTyped'
  <2>1. bundles' \in [Devices -> SUBSET Devices]
    BY DEF ApplyStateUpdate, TypeOK, PhonesTyped, Updates
  <2>2. \A x \in Devices : group'[x] = NoGroup => listening'[x] = NoKey
    BY <1>6 DEF TypeOK, PhonesTyped
  <2>3. /\ saved' \in [Devices -> Groups \cup {NoGroup}]
        /\ pending' \in [Devices -> SUBSET Records]
        /\ \A x \in Devices : group'[x] = NoGroup => saved'[x] = NoGroup /\ pending'[x] = {}
        /\ \A x \in Devices : \A r \in pending'[x] : r.task.dev = x
    BY <1>6 DEF ApplyStateUpdate, TypeOK, PhonesTyped
  <2>. QED BY <1>6, <2>1, <2>2, <2>3 DEF PhonesTyped
<1>8. TasksTyped'
  <2>1. PICK task \in Forks \cup Checks : task.dev = d /\ tasks' \subseteq tasks \cup {task}
    <3>1. fork.dev = d /\ check.dev = d
      BY DEF fork, check
    <3>. QED BY <1>4, <1>5, <3>1
  <2>. QED BY <1>6, <2>1, TasksStayTyped
<1>9. ChainTyped' /\ EventsTyped'
  BY DEF ApplyStateUpdate, TypeOK, ChainTyped, EventsTyped
<1>10. HistoryTyped'
  BY <1>6 DEF ApplyStateUpdate, TypeOK, HistoryTyped, bounds
<1>. QED BY <1>7, <1>8, <1>9, <1>10 DEF TypeOK

LEMMA RemovalNoticedTyped ==
    ASSUME TypeOK, NEW d \in Devices, group[d] # NoGroup, NEW ev \in Notices,
           RemovalNoticed(d, ev), processed' \in [Devices -> SUBSET ProtocolEvents]
    PROVE  TypeOK'
<1>. DEFINE g == [group[d] EXCEPT !.epoch = ev.epoch, !.members = @ \ {d}]
<1>1. group[d] \in Groups /\ ev.epoch \in Nat
  BY PhoneFacts DEF Notices
<1>2. g \in Groups /\ g # NoGroup
  BY <1>1, AbsentAssumption DEF Groups
<1>3. group' = [group EXCEPT ![d] = g]
  BY DEF RemovalNoticed, TypeOK, PhonesTyped
<1>. HIDE DEF g
<1>4. /\ group' \in [Devices -> Groups \cup {NoGroup}]
      /\ \A x \in Devices : group'[x] = NoGroup <=> group[x] = NoGroup
  BY <1>2, <1>3 DEF TypeOK, PhonesTyped
<1>5. PhonesTyped'
  BY <1>4 DEF RemovalNoticed, TypeOK, PhonesTyped
<1>6. TasksTyped'
  BY <1>4, TasksStayTypedWithout DEF RemovalNoticed
<1>7. ChainTyped' /\ EventsTyped' /\ HistoryTyped'
  BY DEF RemovalNoticed, TypeOK, ChainTyped, EventsTyped, HistoryTyped, bounds
<1>. QED BY <1>5, <1>6, <1>7 DEF TypeOK

LEMMA RekeyAckedTyped ==
    ASSUME TypeOK, NEW d \in Devices, group[d] # NoGroup, NEW ev \in Acks,
           RekeyAcked(d, ev), processed' \in [Devices -> SUBSET ProtocolEvents]
    PROVE  TypeOK'
<1>. DEFINE Struck(r) == [r EXCEPT !.unacked = IF r.task.cand.epoch = ev.epoch THEN @ \ {ev.from} ELSE @]
            rs == {r \in {Struck(r) : r \in pending[d]} : r.unacked # {}}
<1>1. \A r \in pending[d] : Struck(r) \in Records /\ Struck(r).task.dev = d
  BY PhoneFacts DEF Records, TypeOK, PhonesTyped
<1>2. rs \subseteq Records /\ \A r \in rs : r.task.dev = d
  <2>. HIDE DEF Struck
  <2>. QED BY <1>1
<1>3. pending' = [pending EXCEPT ![d] = rs]
  BY DEF RekeyAcked
<1>4. UNCHANGED <<group, saved, baseline, listening, bundles>>
  BY DEF RekeyAcked
<1>. HIDE DEF rs
<1>5. PhonesTyped'
  BY <1>2, <1>3, <1>4, PendingTyped
<1>6. ChainTyped' /\ EventsTyped' /\ HistoryTyped' /\ TasksTyped'
  BY DEF RekeyAcked, TypeOK, ChainTyped, EventsTyped, HistoryTyped, TasksTyped, bounds, history
<1>. QED BY <1>5, <1>6 DEF TypeOK

LEMMA HearTyped ==
    ASSUME TypeOK, NEW d \in Devices, NEW ev \in events, Hear(d, ev)
    PROVE  TypeOK'
<1>1. ev \in ProtocolEvents /\ group[d] \in Groups /\ group[d] # NoGroup
  BY HeardFacts DEF Hear
<1>2. processed' \in [Devices -> SUBSET ProtocolEvents]
  BY <1>1 DEF Hear, TypeOK, PhonesTyped
<1>3. CASE ev.type = "joined" /\ MemberJoined(d, ev)
  <2>1. ev.member \in Devices
    BY <1>3, EventTypes DEF Joined
  <2>2. AddMember(group[d], ev.member) \in Groups
    BY <1>1, <2>1, AddMemberFacts
  <2>3. bundles' \in [Devices -> SUBSET Devices]
    BY <1>3, <2>1 DEF MemberJoined, TypeOK, PhonesTyped
  <2>. QED BY <1>1, <1>2, <1>3, <2>1, <2>2, <2>3, TransitionTyped DEF MemberJoined
<1>4. CASE ev.type = "update" /\ ApplyStateUpdate(d, ev)
  BY <1>1, <1>2, <1>4, EventTypes, ApplyStateUpdateTyped
<1>5. CASE ev.type = "notice" /\ RemovalNoticed(d, ev)
  BY <1>1, <1>2, <1>5, EventTypes, RemovalNoticedTyped
<1>6. CASE ev.type = "ack" /\ RekeyAcked(d, ev)
  BY <1>1, <1>2, <1>6, EventTypes, RekeyAckedTyped
<1>. QED BY <1>3, <1>4, <1>5, <1>6 DEF Hear

LEMMA RemoveSomeoneTyped ==
    ASSUME TypeOK, NEW d \in Devices, RemoveSomeone(d)
    PROVE  TypeOK'
<1>1. group[d] \in Groups /\ starts \in Nat /\ group[d].members \subseteq Devices
  BY PhoneFacts, GroupRecord DEF RemoveSomeone, IsMember, TypeOK, HistoryTyped
<1>2. PICK m \in group[d].members \ {d} : Transition(d, RemoveMember(group[d], m), {}, {m})
  BY DEF RemoveSomeone
<1>3. RemoveMember(group[d], m) \in Groups
  BY <1>1, <1>2, RemoveMemberFacts
<1>4. bundles' \in [Devices -> SUBSET Devices] /\ processed' \in [Devices -> SUBSET ProtocolEvents]
  BY DEF RemoveSomeone, TypeOK, PhonesTyped
<1>5. {m} \in SUBSET Devices /\ {} \in SUBSET Devices
  BY <1>1
<1>. QED BY <1>1, <1>2, <1>3, <1>4, <1>5, TransitionTyped

LEMMA RotateGroupKeyTyped ==
    ASSUME TypeOK, NEW d \in Devices, RotateGroupKey(d)
    PROVE  TypeOK'
<1>1. group[d] \in Groups /\ starts \in Nat
  BY PhoneFacts DEF RotateGroupKey, IsMember, TypeOK, HistoryTyped
<1>2. RotateKey(group[d]) \in Groups
  BY <1>1, RotateKeyFacts
<1>3. bundles' \in [Devices -> SUBSET Devices] /\ processed' \in [Devices -> SUBSET ProtocolEvents]
  BY DEF RotateGroupKey, TypeOK, PhonesTyped
<1>4. Transition(d, RotateKey(group[d]), {}, {}) /\ {} \in SUBSET Devices
  BY DEF RotateGroupKey
<1>. QED BY <1>1, <1>2, <1>3, <1>4, TransitionTyped

LEMMA AckTyped ==
    ASSUME NEW d \in Devices, NEW cand \in Groups
    PROVE  Ack(d, cand) \in ProtocolEvents
<1>1. KeyOf(cand) \in Keyed /\ cand.epoch \in Nat
  BY CommitmentRecord, GroupRecord
<1>2. Ack(d, cand) \in Acks
  BY <1>1 DEF Ack, Acks
<1>. QED BY <1>2 DEF ProtocolEvents

\* What a device comes to have when it asks the chain, or does not have to.
LEMMA CommittedTyped ==
    ASSUME TypeOK, NEW d \in Devices, group[d] # NoGroup, NEW cand \in Groups,
           NEW sender \in Devices,
           \/ CommitRemote(d, cand, sender)
           \/ UNCHANGED <<group, baseline, listening, unverified, owed>>,
           UNCHANGED <<chain, saved, bundles, processed, pending, bounds, orphaned>>
    PROVE  /\ ChainTyped' /\ PhonesTyped' /\ HistoryTyped'
           /\ \A x \in Devices : group'[x] = NoGroup <=> group[x] = NoGroup
<1>1. /\ group' \in [Devices -> Groups \cup {NoGroup}]
      /\ \A x \in Devices : group'[x] = NoGroup <=> group[x] = NoGroup
      /\ baseline' \in [Devices -> Commitments \cup {NoBaseline}]
      /\ listening' \in [Devices -> Keyed \cup {NoKey}]
      /\ \A x \in Devices : x # d => listening'[x] = listening[x]
      /\ unverified' \subseteq Devices
      /\ owed' \subseteq Devices \X Nat
  <2>1. CASE CommitRemote(d, cand, sender)
    BY <2>1, CommitRemoteTyped
  <2>2. CASE UNCHANGED <<group, baseline, listening, unverified, owed>>
    BY <2>2 DEF TypeOK, PhonesTyped, HistoryTyped
  <2>. QED BY <2>1, <2>2
<1>2. ChainTyped'
  BY DEF TypeOK, ChainTyped
<1>3. HistoryTyped'
  BY <1>1 DEF TypeOK, HistoryTyped, bounds
<1>4. PhonesTyped'
  BY <1>1 DEF TypeOK, PhonesTyped
<1>. QED BY <1>1, <1>2, <1>3, <1>4

LEMMA OpenEnvelopeTyped ==
    ASSUME TypeOK, NEW d \in Devices, NEW ev \in events, OpenEnvelope(d, ev)
    PROVE  TypeOK'
<1>1. ev \in Envelopes /\ ev.from \in Devices /\ group[d] \in Groups /\ group[d] # NoGroup
  BY EventTypes, PhoneFacts DEF OpenEnvelope, Envelopes
<1>. DEFINE cand == Rekeyed(group[d], ev)
            rekey == [kind |-> "rekey", dev |-> d, from |-> ev.from,
                      cand |-> cand, commitment |-> Commitment(cand)]
<1>2. cand \in Groups
  BY <1>1, RekeyedFacts
<1>3. \/ /\ tasks' = tasks \cup {rekey} /\ events' = events
         /\ UNCHANGED <<group, baseline, listening, unverified, owed>>
      \/ /\ tasks' = tasks /\ events' = events \cup {Ack(d, cand)}
         /\ CommitRemote(d, cand, ev.from)
  BY DEF OpenEnvelope
<1>4. UNCHANGED <<chain, saved, bundles, processed, pending, bounds, orphaned>>
  BY DEF OpenEnvelope
<1>5. rekey \in Checks /\ rekey.dev = d
  <2>. HIDE DEF cand
  <2>. QED BY <1>1, <1>2, CommitmentRecord DEF Checks
<1>. HIDE DEF cand, rekey
<1>6. /\ ChainTyped' /\ PhonesTyped' /\ HistoryTyped'
      /\ \A x \in Devices : group'[x] = NoGroup <=> group[x] = NoGroup
  BY <1>1, <1>2, <1>3, <1>4, CommittedTyped
<1>7. TasksTyped'
  BY <1>1, <1>3, <1>5, <1>6, TasksStayTyped
<1>8. EventsTyped'
  BY <1>2, <1>3, AckTyped DEF TypeOK, EventsTyped
<1>. QED BY <1>6, <1>7, <1>8 DEF TypeOK

LEMMA CheckedWithChainTyped ==
    ASSUME TypeOK, NEW t \in tasks, CheckedWithChain(t)
    PROVE  TypeOK'
<1>1. /\ t \in Checks /\ t.dev \in Devices /\ t.from \in Devices /\ t.cand \in Groups
      /\ group[t.dev] # NoGroup
  BY TaskKinds, AbsentAssumption DEF CheckedWithChain, Checks
<1>2. /\ \/ CommitRemote(t.dev, t.cand, t.from)
         \/ UNCHANGED <<group, baseline, listening, unverified, owed>>
      /\ UNCHANGED <<chain, saved, bundles, processed, pending, bounds, orphaned>>
  BY DEF CheckedWithChain
<1>3. /\ ChainTyped' /\ PhonesTyped' /\ HistoryTyped'
      /\ \A x \in Devices : group'[x] = NoGroup <=> group[x] = NoGroup
  BY <1>1, <1>2, CommittedTyped
<1>4. TasksTyped'
  BY <1>3, TasksStayTypedWithout DEF CheckedWithChain
<1>5. EventsTyped'
  <2>1. events' \subseteq events \cup {Ack(t.dev, t.cand)}
    BY DEF CheckedWithChain
  <2>. QED BY <1>1, <2>1, AckTyped DEF TypeOK, EventsTyped
<1>. QED BY <1>3, <1>4, <1>5 DEF TypeOK

LEMMA ForkResolvedTyped ==
    ASSUME TypeOK, NEW t \in tasks, ForkResolved(t)
    PROVE  TypeOK'
<1>1. /\ t \in Forks /\ t.dev \in Devices /\ t.update \in Updates /\ t.update.epoch + 1 \in Nat
      /\ group[t.dev] # NoGroup
  BY TaskKinds, AbsentAssumption DEF ForkResolved, Forks, Updates
<1>2. \A view \in Views : view.epoch \in Nat
  BY ChainFacts DEF Commitments
<1>3. \/ \E e \in Nat : Adopt(t.dev, t.update, e)
      \/ UNCHANGED <<group, listening, unverified>>
  BY <1>1, <1>2 DEF ForkResolved
<1>4. /\ group' \in [Devices -> Groups \cup {NoGroup}]
      /\ \A x \in Devices : group'[x] = NoGroup <=> group[x] = NoGroup
      /\ listening' \in [Devices -> Keyed \cup {NoKey}]
      /\ \A x \in Devices : x # t.dev => listening'[x] = listening[x]
      /\ unverified' \subseteq Devices
  <2>1. CASE \E e \in Nat : Adopt(t.dev, t.update, e)
    BY <1>1, <2>1, AdoptTyped
  <2>2. CASE UNCHANGED <<group, listening, unverified>>
    BY <2>2 DEF TypeOK, PhonesTyped, HistoryTyped
  <2>. QED BY <1>3, <2>1, <2>2
<1>5. PhonesTyped'
  BY <1>1, <1>4 DEF ForkResolved, TypeOK, PhonesTyped
<1>6. TasksTyped'
  BY <1>4, TasksStayTypedWithout DEF ForkResolved
<1>7. ChainTyped' /\ EventsTyped'
  BY DEF ForkResolved, TypeOK, ChainTyped, EventsTyped
<1>8. HistoryTyped'
  BY <1>4 DEF ForkResolved, TypeOK, HistoryTyped, bounds
<1>. QED BY <1>5, <1>6, <1>7, <1>8 DEF TypeOK

LEMMA RestartTyped ==
    ASSUME TypeOK, NEW d \in Devices, Restart(d)
    PROVE  TypeOK'
<1>1. PICK kept \in {saved[d], group[d]} :
        /\ kept # NoGroup
        /\ group' = [group EXCEPT ![d] = kept]
        /\ saved' = [saved EXCEPT ![d] = kept]
        /\ listening' = [listening EXCEPT ![d] = KeyOf(kept)]
  BY DEF Restart
<1>2. kept \in Groups /\ KeyOf(kept) \in Keyed /\ group[d] # NoGroup
  BY <1>1, PhoneFacts, CommitmentRecord
<1>3. \A x \in Devices : group'[x] = NoGroup <=> group[x] = NoGroup
  BY <1>1, <1>2 DEF TypeOK, PhonesTyped
<1>4. PhonesTyped'
  <2>1. /\ group' \in [Devices -> Groups \cup {NoGroup}]
        /\ saved' \in [Devices -> Groups \cup {NoGroup}]
        /\ listening' \in [Devices -> Keyed \cup {NoKey}]
        /\ \A x \in Devices : x # d => saved'[x] = saved[x] /\ listening'[x] = listening[x]
    BY <1>1, <1>2 DEF TypeOK, PhonesTyped
  <2>2. /\ baseline' \in [Devices -> Commitments \cup {NoBaseline}]
        /\ processed' \in [Devices -> SUBSET ProtocolEvents]
        /\ UNCHANGED <<bundles, pending>>
    BY DEF Restart, TypeOK, PhonesTyped
  <2>. QED BY <1>2, <1>3, <2>1, <2>2 DEF TypeOK, PhonesTyped
<1>5. TasksTyped'
  BY <1>3, TasksStayTypedWithout DEF Restart
<1>6. ChainTyped' /\ EventsTyped'
  BY DEF Restart, TypeOK, ChainTyped, EventsTyped
<1>7. HistoryTyped'
  <2>1. orphaned' \in BOOLEAN
    BY DEF Restart, TypeOK, HistoryTyped
  <2>2. /\ faults' = faults + 1 /\ starts + faults < MaxSteps /\ UNCHANGED <<starts, unverified>>
        /\ owed' \subseteq owed
    BY DEF Restart, Fault
  <2>. QED BY <2>1, <2>2, SyncAssumption DEF TypeOK, HistoryTyped
<1>. QED BY <1>4, <1>5, <1>6, <1>7 DEF TypeOK

LEMMA LoseEnvelopeTyped ==
    ASSUME TypeOK, NEW ev \in events, LoseEnvelope(ev)
    PROVE  TypeOK'
<1>1. PhonesTyped' /\ ChainTyped' /\ TasksTyped'
  BY DEF LoseEnvelope, TypeOK, PhonesTyped, ChainTyped, TasksTyped
<1>2. EventsTyped'
  BY DEF LoseEnvelope, TypeOK, EventsTyped
<1>3. HistoryTyped'
  BY SyncAssumption DEF LoseEnvelope, Fault, TypeOK, HistoryTyped, history
<1>. QED BY <1>1, <1>2, <1>3 DEF TypeOK

LEMMA UnchangedTyped ==
    ASSUME TypeOK, UNCHANGED vars
    PROVE  TypeOK'
BY DEF TypeOK, PhonesTyped, ChainTyped, TasksTyped, EventsTyped, HistoryTyped, vars, bounds, history

LEMMA NextTyped ==
    ASSUME TypeOK, [Next]_vars
    PROVE  TypeOK'
<1>1. ASSUME NEW d \in Devices, RemoveSomeone(d) \/ RotateGroupKey(d) \/ Restart(d)
      PROVE  TypeOK'
  BY <1>1, RemoveSomeoneTyped, RotateGroupKeyTyped, RestartTyped
<1>2. ASSUME NEW d \in Devices, NEW m \in Devices, Invite(d, m)
      PROVE  TypeOK'
  BY <1>2, InviteTyped
<1>3. ASSUME NEW d \in Devices, NEW r \in pending[d],
             ResendPendingRekeys(d, r) \/ ExpirePendingRekey(d, r)
      PROVE  TypeOK'
  BY <1>3, ResendPendingRekeysTyped, ExpirePendingRekeyTyped
<1>4. ASSUME NEW d \in Devices, NEW ev \in events,
             AcceptInvitation(d, ev) \/ Hear(d, ev) \/ OpenEnvelope(d, ev)
      PROVE  TypeOK'
  BY <1>4, AcceptInvitationTyped, HearTyped, OpenEnvelopeTyped
<1>5. ASSUME NEW t \in tasks,
             \/ ChainDecides(t) \/ AnswerLost(t) \/ Install(t) \/ Announce(t)
             \/ SavePendingRekey(t) \/ CheckedWithChain(t) \/ ForkResolved(t)
      PROVE  TypeOK'
  BY <1>5, ChainDecidesTyped, AnswerLostTyped, InstallTyped, AnnounceTyped,
     SavePendingRekeyTyped, CheckedWithChainTyped, ForkResolvedTyped
<1>6. ASSUME NEW ev \in events, LoseEnvelope(ev)
      PROVE  TypeOK'
  BY <1>6, LoseEnvelopeTyped
<1>7. CASE UNCHANGED vars
  BY <1>7, UnchangedTyped
<1>. QED BY <1>1, <1>2, <1>3, <1>4, <1>5, <1>6, <1>7 DEF Next

\* Every variable keeps its type, and the chain one commitment for each epoch,
\* in any run of any number of devices.
THEOREM SyncTypeCorrect == Spec => []TypeOK
<1>1. Init => TypeOK
  BY InitTyped
<1>2. TypeOK /\ [Next]_vars => TypeOK'
  BY NextTyped
<1>. QED BY <1>1, <1>2, PTL DEF Spec


-------------------------------------------------------------------------------
(* What fits goes on fitting when the chain grows and top moves up.        *)

Extends(ch, sec, top, ch2, sec2, top2) ==
    /\ top <= top2
    /\ \A e \in Nat : e < top => ch2[e + 1] = ch[e + 1] /\ sec2[e] = sec[e]

LEMMA TracksKeeps ==
    ASSUME NEW ch, NEW sec, NEW top \in Nat, NEW ch2, NEW sec2, NEW top2 \in Nat,
           Extends(ch, sec, top, ch2, sec2, top2),
           NEW g \in Groups, Tracks(g, ch, sec, top)
    PROVE  Tracks(g, ch2, sec2, top2) /\ ch2[g.epoch + 1] = ch[g.epoch + 1]
<1>1. g.epoch \in Nat /\ g.epoch < top
  BY GroupRecord DEF Tracks
<1>2. g.epoch < top2 /\ ch2[g.epoch + 1] = ch[g.epoch + 1] /\ sec2[g.epoch] = sec[g.epoch]
  BY <1>1 DEF Extends
<1>. QED BY <1>2 DEF Tracks

LEMMA GroupFitsKeeps ==
    ASSUME NEW ch, NEW sec, NEW top \in Nat, NEW ch2, NEW sec2, NEW top2 \in Nat,
           Extends(ch, sec, top, ch2, sec2, top2),
           NEW d, NEW g \in Groups \cup {NoGroup}, GroupFits(d, g, ch, sec, top)
    PROVE  GroupFits(d, g, ch2, sec2, top2)
BY TracksKeeps DEF GroupFits

LEMMA TransitionFitsKeeps ==
    ASSUME NEW ch, NEW sec, NEW top \in Nat, NEW ch2, NEW sec2, NEW top2 \in Nat,
           Extends(ch, sec, top, ch2, sec2, top2),
           NEW t \in Transitions, TransitionFits(t, ch, sec, top), t.phase # "accepted"
    PROVE  TransitionFits(t, ch2, sec2, top2)
<1>1. t.from \in Groups /\ t.cand \in Groups
  BY DEF Transitions
<1>2. Tracks(t.from, ch2, sec2, top2) /\ ch2[t.from.epoch + 1] = ch[t.from.epoch + 1]
  BY <1>1, TracksKeeps DEF TransitionFits
<1>3. t.phase \in {"installed", "told"} =>
         Tracks(t.cand, ch2, sec2, top2) /\ ch2[t.cand.epoch + 1] = ch[t.cand.epoch + 1]
  BY <1>1, TracksKeeps DEF TransitionFits
<1>. QED BY <1>2, <1>3 DEF TransitionFits

LEMMA CheckFitsKeeps ==
    ASSUME NEW ch, NEW sec, NEW top \in Nat, NEW ch2, NEW sec2, NEW top2 \in Nat,
           Extends(ch, sec, top, ch2, sec2, top2),
           NEW t \in Checks, CheckFits(t, ch, sec, top)
    PROVE  CheckFits(t, ch2, sec2, top2)
<1>1. t.cand \in Groups
  BY DEF Checks
<1>2. Tracks(t.cand, ch2, sec2, top2) /\ ch2[t.cand.epoch + 1] = ch[t.cand.epoch + 1]
  BY <1>1, TracksKeeps DEF CheckFits
<1>. QED BY <1>2 DEF CheckFits

LEMMA UpdateFitsKeeps ==
    ASSUME NEW ch, NEW sec, NEW top \in Nat, NEW ch2, NEW sec2, NEW top2 \in Nat,
           Extends(ch, sec, top, ch2, sec2, top2),
           NEW ev \in Updates, UpdateFits(ev, ch, sec, top)
    PROVE  UpdateFits(ev, ch2, sec2, top2)
<1>. DEFINE e == ev.key[2]
<1>1. e \in Nat
  BY DEF Updates, Keyed
<1>. HIDE DEF e
<1>2. e + 1 < top
  BY DEF UpdateFits, e
<1>3. e \in Nat /\ e + 1 \in Nat /\ e < top /\ (e + 1) + 1 = e + 2 /\ e + 1 < top2
  BY <1>1, <1>2 DEF Extends
<1>4. ch2[e + 1] = ch[e + 1] /\ ch2[e + 2] = ch[e + 2] /\ sec2[e] = sec[e] /\ sec2[e + 1] = sec[e + 1]
  BY <1>2, <1>3 DEF Extends
<1>. QED BY <1>3, <1>4 DEF UpdateFits, e

LEMMA EnvelopeFitsKeeps ==
    ASSUME NEW ch, NEW sec, NEW top \in Nat, NEW ch2, NEW sec2, NEW top2 \in Nat,
           Extends(ch, sec, top, ch2, sec2, top2),
           NEW ev \in Envelopes, EnvelopeFits(ev, ch, sec, top)
    PROVE  EnvelopeFits(ev, ch2, sec2, top2)
<1>1. ev.epoch \in Nat /\ ev.epoch < top
  BY DEF Envelopes, EnvelopeFits
<1>2. ev.epoch < top2 /\ ch2[ev.epoch + 1] = ch[ev.epoch + 1] /\ sec2[ev.epoch] = sec[ev.epoch]
  BY <1>1 DEF Extends
<1>. QED BY <1>2 DEF EnvelopeFits

LEMMA RecordFitsKeeps ==
    ASSUME NEW ch, NEW sec, NEW top \in Nat, NEW ch2, NEW sec2, NEW top2 \in Nat,
           Extends(ch, sec, top, ch2, sec2, top2),
           NEW r \in Records, RecordFits(r, ch, sec, top)
    PROVE  RecordFits(r, ch2, sec2, top2)
<1>1. r.task.cand \in Groups
  BY DEF Records, Transitions
<1>. QED BY <1>1, TracksKeeps DEF RecordFits

LEMMA PhoneKeeps ==
    ASSUME TypeOK, NEW d \in Devices, NEW sec, NEW top \in Nat, NEW sec2, NEW top2 \in Nat,
           PhoneFits(d, sec, top), Extends(chain, sec, top, chain', sec2, top2),
           group'[d] = group[d], saved'[d] = saved[d], baseline'[d] = baseline[d],
           listening'[d] = listening[d], pending'[d] = pending[d]
    PROVE  PhoneFits(d, sec2, top2)'
<1>1. group[d] \in Groups \cup {NoGroup} /\ saved[d] \in Groups \cup {NoGroup}
  BY PhoneFacts
<1>2. /\ GroupFits(d, group[d], chain', sec2, top2)
      /\ GroupFits(d, saved[d], chain', sec2, top2)
  BY <1>1, GroupFitsKeeps DEF PhoneFits
<1>3. \A r \in pending[d] : RecordFits(r, chain', sec2, top2)
  BY RecordFitsKeeps, RecordFacts DEF PhoneFits
<1>. QED BY <1>2, <1>3 DEF PhoneFits

\* A task fits on when its device moves forward.
LEMMA TaskKeeps ==
    ASSUME TypeOK, NEW t \in tasks, NEW sec, NEW top \in Nat, NEW sec2, NEW top2 \in Nat,
           TaskFits(t, sec, top), Extends(chain, sec, top, chain', sec2, top2),
           group[t.dev].published => group'[t.dev].published,
           \A n \in Nat : n <= group[t.dev].epoch => n <= group'[t.dev].epoch,
           unverified \subseteq unverified',
           t.kind = "transition" /\ t.phase = "accepted" =>
               TransitionFits(t, chain', sec2, top2)
    PROVE  TaskFits(t, sec2, top2)'
<1>1. ASSUME t.kind = "transition"
      PROVE  /\ TransitionFits(t, chain', sec2, top2) /\ group'[t.dev].published
             /\ t.phase = "installed" => t.cand.epoch <= group'[t.dev].epoch
  <2>1. /\ TransitionFits(t, chain, sec, top) /\ group[t.dev].published
        /\ t.phase = "installed" => t.cand.epoch <= group[t.dev].epoch
    BY <1>1 DEF TaskFits
  <2>2. t \in Transitions /\ t.cand.epoch \in Nat
    BY <1>1, TaskKinds, GroupRecord DEF Transitions
  <2>3. TransitionFits(t, chain', sec2, top2)
    BY <1>1, <2>1, <2>2, TransitionFitsKeeps
  <2>. QED BY <2>1, <2>2, <2>3
<1>2. ASSUME t.kind \in {"check", "rekey"}, IsTrue(t.from)'
      PROVE  CheckFits(t, chain', sec2, top2)
  <2>1. CheckFits(t, chain, sec, top)
    BY <1>2 DEF TaskFits, IsTrue
  <2>. QED BY <1>2, <2>1, TaskKinds, CheckFitsKeeps
<1>. QED BY <1>1, <1>2 DEF TaskFits

LEMMA MessageKeeps ==
    ASSUME TypeOK, NEW ev \in events, NEW sec, NEW top \in Nat, NEW sec2, NEW top2 \in Nat,
           MessageFits(ev, sec, top), Extends(chain, sec, top, chain', sec2, top2)
    PROVE  MessageFits(ev, sec2, top2)'
<1>1. ASSUME ev.type = "invitation" PROVE Tracks(ev.group, chain', sec2, top2)
  <2>1. ev.group \in Groups /\ Tracks(ev.group, chain, sec, top)
    BY <1>1, EventTypes DEF Invitations, MessageFits
  <2>. QED BY <2>1, TracksKeeps
<1>2. ASSUME ev.type = "update" PROVE UpdateFits(ev, chain', sec2, top2)
  <2>1. ev \in Updates /\ UpdateFits(ev, chain, sec, top)
    BY <1>2, EventTypes DEF MessageFits
  <2>. QED BY <2>1, UpdateFitsKeeps
<1>3. ASSUME ev.type = "envelope" PROVE EnvelopeFits(ev, chain', sec2, top2)
  <2>1. ev \in Envelopes /\ EnvelopeFits(ev, chain, sec, top)
    BY <1>3, EventTypes DEF MessageFits
  <2>. QED BY <2>1, EnvelopeFitsKeeps
<1>. QED BY <1>1, <1>2, <1>3 DEF MessageFits

\* A step that leaves a device alone: what fitted it fits it still.
LEMMA DeviceKeeps ==
    ASSUME TypeOK, NEW d \in Devices, NEW sec, NEW top \in Nat, NEW sec2, NEW top2 \in Nat,
           DeviceFits(d, sec, top), Extends(chain, sec, top, chain', sec2, top2),
           group'[d] = group[d], saved'[d] = saved[d], baseline'[d] = baseline[d],
           listening'[d] = listening[d], pending'[d] = pending[d],
           unverified \subseteq unverified',
           \A t \in tasks' : t.dev = d => t \in tasks,
           \A t \in tasks : t.dev = d /\ t.kind = "transition" /\ t.phase = "accepted" =>
               TransitionFits(t, chain', sec2, top2),
           \A ev \in events' : ev.type \in {"invitation", "update", "envelope"} /\ ev.from = d =>
               ev \in events
    PROVE  DeviceFits(d, sec2, top2)'
<1>1. PhoneFits(d, sec2, top2)'
  BY PhoneKeeps DEF DeviceFits
<1>2. ASSUME NEW t \in tasks', t.dev = d
      PROVE  TaskFits(t, sec2, top2)'
  <2>1. t \in tasks /\ TaskFits(t, sec, top)
    BY <1>2 DEF DeviceFits
  <2>2. group'[t.dev] = group[t.dev]
    BY <1>2
  <2>. QED BY <1>2, <2>1, <2>2, TaskKeeps
<1>3. ASSUME NEW ev \in events', ev.type \in {"invitation", "update", "envelope"}, ev.from = d
      PROVE  MessageFits(ev, sec2, top2)'
  <2>1. ev \in events /\ MessageFits(ev, sec, top)
    BY <1>3 DEF DeviceFits
  <2>. QED BY <2>1, MessageKeeps
<1>. QED BY <1>1, <1>2, <1>3 DEF DeviceFits

\* Most steps are of one device, leave the chain alone and accept nothing.
LEMMA OnlyOne ==
    ASSUME TypeOK, NEW d \in Devices, NEW sec, NEW top \in Nat, Known(sec, top),
           chain' = chain, unverified \subseteq unverified',
           \A x \in Devices : x # d =>
               /\ group'[x] = group[x] /\ saved'[x] = saved[x] /\ baseline'[x] = baseline[x]
               /\ listening'[x] = listening[x] /\ pending'[x] = pending[x],
           \A t \in tasks' : t \in tasks \/ t.dev = d,
           \A t \in tasks' : t \in tasks \/ ~(t.kind = "transition" /\ t.phase = "accepted"),
           \A ev \in events' :
               ev \in events \/ ev.type \notin {"invitation", "update", "envelope"} \/ ev.from = d,
           IsTrue(d)' => DeviceFits(d, sec, top)'
    PROVE  Known(sec, top)'
<1>1. OneAccepted'
  BY DEF Known, OneAccepted, Accepted, IsTrue
<1>2. ASSUME NEW x \in Devices, x # d, IsTrue(x)'
      PROVE  DeviceFits(x, sec, top)'
  <2>1. IsTrue(x) /\ DeviceFits(x, sec, top)
    BY <1>2 DEF Known, IsTrue
  <2>2. Extends(chain, sec, top, chain', sec, top)
    BY DEF Extends
  <2>3. \A t \in tasks : t.dev = x /\ t.kind = "transition" /\ t.phase = "accepted" =>
               TransitionFits(t, chain', sec, top)
    BY <2>1 DEF DeviceFits, TaskFits
  <2>4. \A t \in tasks' : t.dev = x => t \in tasks
    BY <1>2
  <2>5. \A ev \in events' : ev.type \in {"invitation", "update", "envelope"} /\ ev.from = x =>
               ev \in events
    BY <1>2
  <2>6. /\ group'[x] = group[x] /\ saved'[x] = saved[x] /\ baseline'[x] = baseline[x]
        /\ listening'[x] = listening[x] /\ pending'[x] = pending[x]
    BY <1>2
  <2>. QED BY <2>1, <2>2, <2>3, <2>4, <2>5, <2>6, DeviceKeeps
<1>. QED BY <1>1, <1>2 DEF Known

-------------------------------------------------------------------------------
(* Every step keeps what true devices know.                                *)

LEMMA ExtendsItself ==
    ASSUME NEW sec, NEW top \in Nat, chain' = chain
    PROVE  Extends(chain, sec, top, chain', sec, top)
BY DEF Extends

LEMMA TaskStays ==
    ASSUME TypeOK, NEW t \in tasks, NEW sec, NEW top \in Nat, TaskFits(t, sec, top),
           chain' = chain, unverified \subseteq unverified',
           group[t.dev].published => group'[t.dev].published,
           \A n \in Nat : n <= group[t.dev].epoch => n <= group'[t.dev].epoch
    PROVE  TaskFits(t, sec, top)'
<1>1. t.kind = "transition" /\ t.phase = "accepted" => TransitionFits(t, chain', sec, top)
  BY DEF TaskFits
<1>. QED BY <1>1, ExtendsItself, TaskKeeps

LEMMA MessageStays ==
    ASSUME NEW ev, NEW sec, NEW top, MessageFits(ev, sec, top), chain' = chain
    PROVE  MessageFits(ev, sec, top)'
BY DEF MessageFits

\* Nothing that a device has changes, some tasks end, nothing is told of a group.
LEMMA Quiet ==
    ASSUME TypeOK, NEW sec, NEW top \in Nat, Known(sec, top),
           UNCHANGED <<chain, group, saved, baseline, listening, pending>>,
           unverified \subseteq unverified', tasks' \subseteq tasks,
           \A ev \in events' :
               ev \in events \/ ev.type \notin {"invitation", "update", "envelope"}
    PROVE  Known(sec, top)'
<1>1. OneAccepted'
  BY DEF Known, OneAccepted, Accepted, IsTrue
<1>2. ASSUME NEW x \in Devices, IsTrue(x)'
      PROVE  DeviceFits(x, sec, top)'
  <2>1. DeviceFits(x, sec, top)
    BY <1>2 DEF Known, IsTrue
  <2>2. Extends(chain, sec, top, chain', sec, top)
    BY ExtendsItself
  <2>3. \A t \in tasks : t.dev = x /\ t.kind = "transition" /\ t.phase = "accepted" =>
               TransitionFits(t, chain', sec, top)
    BY <2>1 DEF DeviceFits, TaskFits
  <2>4. /\ group'[x] = group[x] /\ saved'[x] = saved[x] /\ baseline'[x] = baseline[x]
        /\ listening'[x] = listening[x] /\ pending'[x] = pending[x]
    OBVIOUS
  <2>5. \A t \in tasks' : t.dev = x => t \in tasks
    OBVIOUS
  <2>6. \A ev \in events' : ev.type \in {"invitation", "update", "envelope"} /\ ev.from = x =>
               ev \in events
    OBVIOUS
  <2>. QED BY <2>1, <2>2, <2>3, <2>4, <2>5, <2>6, DeviceKeeps
<1>. QED BY <1>1, <1>2 DEF Known

LEMMA InitKnown ==
    ASSUME Init
    PROVE  SyncInv
<1>. PICK members \in FirstMembers :
        LET g == [epoch |-> 0, members |-> members, salt |-> <<0>>, secret |-> 0,
                  published |-> TRUE]
        IN  /\ chain = <<Commitment(g)>>
            /\ group = [d \in Devices |-> IF d \in members THEN g ELSE NoGroup]
            /\ listening = [d \in Devices |-> IF d \in members THEN KeyOf(g) ELSE NoKey]
            /\ bundles = [d \in Devices |-> IF d \in members THEN members ELSE {}]
  BY DEF Init
<1>. DEFINE g == [epoch |-> 0, members |-> members, salt |-> <<0>>, secret |-> 0,
                  published |-> TRUE]
            sec == [n \in Nat |-> 0]
<1>1. members \subseteq Devices
  BY SyncAssumption
<1>2. g \in Groups
  BY <1>1 DEF Groups, Salts
<1>3. /\ chain = <<Commitment(g)>>
      /\ \A d \in Devices : d \in members => group[d] = g /\ listening[d] = KeyOf(g)
      /\ \A d \in Devices : d \notin members => group[d] = NoGroup /\ listening[d] = NoKey
      /\ saved = group /\ tasks = {} /\ events = {}
      /\ \A d \in Devices : baseline[d] = NoBaseline /\ pending[d] = {}
  BY DEF Init
<1>4. /\ g.epoch = 0 /\ g.members = members /\ g.secret = 0
      /\ g.salt = Commitment(g).salt /\ g.members = Commitment(g).members /\ KeyOf(g)[2] = 0
  BY <1>2, CommitmentRecord
<1>5. sec \in [Nat -> Nat] /\ sec[0] = 0
  OBVIOUS
<1>. HIDE DEF g, sec
<1>6. chain[1] = Commitment(g) /\ Len(chain) = 1
  BY <1>3
<1>7. Tracks(g, chain, sec, 1)
  BY <1>4, <1>5, <1>6 DEF Tracks
<1>8. ASSUME NEW d \in Devices
      PROVE  PhoneFits(d, sec, 1)
  <2>1. CASE d \in members
    <3>1. GroupFits(d, g, chain, sec, 1)
      BY <1>4, <1>6, <1>7, <2>1 DEF GroupFits
    <3>2. /\ group[d] = g /\ saved[d] = g /\ listening[d] = KeyOf(g)
          /\ baseline[d] = NoBaseline /\ pending[d] = {}
      BY <1>3, <2>1
    <3>3. listening[d][2] <= group[d].epoch
      BY <1>4, <3>2
    <3>. QED BY <3>1, <3>2, <3>3 DEF PhoneFits
  <2>2. CASE d \notin members
    BY <1>3, <2>2 DEF PhoneFits, GroupFits
  <2>. QED BY <2>1, <2>2
<1>9. Known(sec, 1)
  BY <1>3, <1>8 DEF Known, OneAccepted, DeviceFits
<1>. QED BY <1>5, <1>6, <1>9, InitTyped DEF SyncInv

\* The secrets of the epochs below top stay, and top moves up only when a true
\* device installs what the chain has accepted.
Moves(sec, top, sec2, top2) ==
    \/ top2 = top /\ \A e \in Nat : e < top => sec2[e] = sec[e]
    \/ top2 = top + 1 /\ sec2 = sec /\ \E t \in tasks : Install(t) /\ IsTrue(t.dev)

\* What a step makes of sec and top, so that devices know it.
KnownNext(sec, top) ==
    \E sec2 \in [Nat -> Nat], top2 \in Nat :
        top2 <= Len(chain') /\ Known(sec2, top2)' /\ Moves(sec, top, sec2, top2)

\* What a sequence is after an element is appended.
LEMMA AppendedFacts ==
    ASSUME NEW s \in Seq(Commitments), NEW c \in Commitments
    PROVE  /\ Len(Append(s, c)) = Len(s) + 1 /\ Append(s, c)[Len(s) + 1] = c
           /\ \A e \in Nat : e < Len(s) => Append(s, c)[e + 1] = s[e + 1]
OBVIOUS

LEMMA TopIsLast ==
    ASSUME NEW e \in Nat, NEW top \in Nat, NEW last \in Nat, e < top, top <= last, e + 1 = last
    PROVE  top = last
OBVIOUS

LEMMA ExtendsAppended ==
    ASSUME NEW ch, NEW ch2, NEW sec, NEW sec2, NEW top \in Nat, NEW last \in Nat, top <= last,
           \A e \in Nat : e < last => ch2[e + 1] = ch[e + 1],
           \A e \in Nat : e < top => sec2[e] = sec[e]
    PROVE  /\ Extends(ch, sec, top, ch2, sec2, top)
           /\ top <= last + 1
           /\ top < last => ch2[top + 1] = ch[top + 1] /\ top < last + 1
BY DEF Extends

LEMMA ChainDecidesKnown ==
    ASSUME TypeOK, NEW sec \in [Nat -> Nat], NEW top \in Nat, top <= Len(chain),
           Known(sec, top), NEW t \in tasks, ChainDecides(t)
    PROVE  KnownNext(sec, top)
<1>1. t \in Transitions /\ t.kind = "transition" /\ t.phase = "sent" /\ t.dev \in Devices
  BY TaskKinds DEF ChainDecides
<1>2. UNCHANGED <<group, saved, baseline, listening, events, pending, unverified>>
  BY DEF ChainDecides, history
<1>3. CASE tasks' = tasks \ {t} /\ UNCHANGED chain
  <2>1. Known(sec, top)'
    BY <1>2, <1>3, Quiet
  <2>. QED BY <1>3, <2>1 DEF KnownNext, Moves
<1>4. CASE /\ Acceptable(t) /\ Change(t, "accepted")
           /\ chain' = Append(chain, [Commitment(t.cand) EXCEPT !.epoch = t.base.epoch + 1])
  <2>. DEFINE u == [t EXCEPT !.phase = "accepted"]
              c == [Commitment(t.cand) EXCEPT !.epoch = t.base.epoch + 1]
              last == Len(chain)
  <2>1. /\ u \in Transitions /\ u.phase = "accepted" /\ u.kind = "transition" /\ u.dev = t.dev
        /\ u.from = t.from /\ u.cand = t.cand /\ u.added = t.added /\ u.gone = t.gone
        /\ u.base = t.base
    BY <1>1, PhaseFacts
  <2>2. tasks' = (tasks \ {t}) \cup {u} /\ chain' = Append(chain, c)
    BY <1>4 DEF Change
  <2>3. /\ t.base = OnChain /\ t.base.epoch + 1 = last /\ last \in Nat \ {0}
        /\ t.base = chain[last] /\ chain \in Seq(Commitments)
    <3>1. t.base = OnChain /\ chain \in Seq(Commitments)
      BY <1>4 DEF Acceptable, TypeOK, ChainTyped
    <3>2. last \in Nat \ {0} /\ OnChain.epoch = last - 1 /\ OnChain = chain[last]
      BY ChainFacts DEF OnChain
    <3>. QED BY <3>1, <3>2
  <2>4. t.cand \in Groups /\ t.from \in Groups
    BY <1>1 DEF Transitions
  <2>5. c.members = t.cand.members /\ c.salt = t.cand.salt /\ c.epoch = last
        /\ (t.cand.epoch = last => c = Commitment(t.cand))
    <3>. DEFINE k == Commitment(t.cand)
    <3>1. /\ k \in Commitments /\ k.members = t.cand.members /\ k.epoch = t.cand.epoch
          /\ k.salt = t.cand.salt
      BY <2>4, CommitmentRecord
    <3>. HIDE DEF k
    <3>2. c = [k EXCEPT !.epoch = last]
      BY <2>3 DEF k
    <3>. HIDE DEF last, c
    <3>. QED BY <2>3, <3>1, <3>2 DEF Commitments, k
  <2>9. c \in Commitments
    <3>1. Commitment(t.cand) \in Commitments /\ t.base.epoch + 1 \in Nat
      BY <2>3, <2>4, CommitmentRecord
    <3>. QED BY <3>1 DEF Commitments
  <2>. HIDE DEF u, c
  <2>6. /\ Len(chain') = last + 1 /\ chain'[last + 1] = c
        /\ \A e \in Nat : e < last => chain'[e + 1] = chain[e + 1]
    <3>1. chain \in Seq(Commitments)
      BY <2>3
    <3>2. /\ Len(Append(chain, c)) = Len(chain) + 1 /\ Append(chain, c)[Len(chain) + 1] = c
          /\ \A e \in Nat : e < Len(chain) => Append(chain, c)[e + 1] = chain[e + 1]
      <4>. HIDE DEF last
      <4>. QED BY ONLY <2>9, <3>1, AppendedFacts
    <3>. QED BY <2>2, <3>2
  <2>10. last = Len(chain) /\ top <= last
    OBVIOUS
  <2>. HIDE DEF last
  <2>7. CASE ~IsTrue(t.dev)
    <3>1. Extends(chain, sec, top, chain', sec, top)
      BY <2>3, <2>6, <2>10, ExtendsAppended
    <3>2. OneAccepted'
      <4>1. \A v : Accepted(v)' <=> Accepted(v)
        BY <1>2 DEF Accepted, IsTrue
      <4>2. ~Accepted(u)
        BY <2>1, <2>7 DEF Accepted
      <4>. QED BY <2>2, <4>1, <4>2 DEF Known, OneAccepted
    <3>3. ASSUME NEW x \in Devices, IsTrue(x)'
          PROVE  DeviceFits(x, sec, top)'
      <4>1. IsTrue(x) /\ DeviceFits(x, sec, top) /\ x # t.dev
        BY <1>2, <2>7, <3>3 DEF Known, IsTrue
      <4>2. ASSUME NEW v \in tasks, v.dev = x, v.kind = "transition", v.phase = "accepted"
            PROVE  TransitionFits(v, chain', sec, top)
        <5>1. TransitionFits(v, chain, sec, top) /\ v \in Transitions
          BY <4>1, <4>2, TaskKinds DEF DeviceFits, TaskFits
        <5>2. top < last
          BY <2>10, <4>2, <5>1 DEF TransitionFits
        <5>3. chain'[top + 1] = chain[top + 1] /\ top < Len(chain')
          <6>1. top < last => chain'[top + 1] = chain[top + 1] /\ top < last + 1
            BY <2>3, <2>6, <2>10, ExtendsAppended
          <6>. QED BY <2>6, <5>2, <6>1
        <5>4. v.from \in Groups
          BY <5>1 DEF Transitions
        <5>5. Tracks(v.from, chain', sec, top) /\ chain'[v.from.epoch + 1] = chain[v.from.epoch + 1]
          BY <3>1, <5>1, <5>4, TracksKeeps DEF TransitionFits
        <5>. QED BY <4>2, <5>1, <5>3, <5>5 DEF TransitionFits
      <4>3. \A v \in tasks' : v.dev = x => v \in tasks
        BY <2>1, <2>2, <4>1
      <4>. QED BY <1>2, <3>1, <4>1, <4>2, <4>3, DeviceKeeps
    <3>4. Known(sec, top)' /\ top <= Len(chain')
      <4>1. Known(sec, top)'
        BY <3>2, <3>3 DEF Known
      <4>2. top <= last + 1
        BY <2>3, <2>6, <2>10, ExtendsAppended
      <4>. QED BY <2>6, <4>1, <4>2
    <3>. QED BY <3>4 DEF KnownNext, Moves
  <2>8. CASE IsTrue(t.dev)
    <3>1. TransitionFits(t, chain, sec, top) /\ TaskFits(t, sec, top)
      BY <1>1, <2>8 DEF Known, DeviceFits, TaskFits
    <3>2. t.base = Commitment(t.from) /\ t.base.epoch = t.from.epoch
          /\ t.from.members = t.base.members
      BY <1>1, <2>4, <3>1, CommitmentRecord DEF TransitionFits
    <3>3. /\ top = last /\ t.from.epoch + 1 = last /\ t.cand.epoch = last
      <4>1. t.from.epoch < top /\ t.from.epoch \in Nat /\ t.from.epoch + 1 = last
        BY <2>3, <2>4, <3>1, <3>2, GroupRecord DEF TransitionFits, Tracks
      <4>2. t.cand.epoch = t.from.epoch + 1
        BY <3>1 DEF TransitionFits, ShapeFits
      <4>3. top = last
        BY <2>3, <2>10, <4>1, TopIsLast
      <4>. QED BY <4>1, <4>2, <4>3
    <3>4. c = Commitment(t.cand)
      BY <2>5, <3>3
    <3>. DEFINE sec2 == [sec EXCEPT ![top] = t.cand.secret]
    <3>5. sec2 \in [Nat -> Nat] /\ sec2[top] = t.cand.secret /\ \A e \in Nat : e < top => sec2[e] = sec[e]
      BY <2>4, GroupRecord
    <3>. HIDE DEF sec2
    <3>6. Extends(chain, sec, top, chain', sec2, top)
      BY <2>3, <2>6, <2>10, <3>5, ExtendsAppended
    <3>7. \A v \in tasks : ~Accepted(v)
      <4>. SUFFICES ASSUME NEW v \in tasks, Accepted(v) PROVE FALSE
        OBVIOUS
      <4>1. v.dev \in Devices /\ TransitionFits(v, chain, sec, top)
        BY DEF Accepted, Known, DeviceFits, TaskFits, IsTrue
      <4>2. top < last
        BY <2>10, <4>1 DEF TransitionFits, Accepted
      <4>. QED BY <2>3, <3>3, <4>2
    <3>8. OneAccepted'
      BY <1>2, <2>2, <3>7 DEF OneAccepted, Accepted, IsTrue
    <3>9. TransitionFits(u, chain', sec2, top)
      <4>1. Tracks(t.from, chain', sec2, top) /\ chain'[t.from.epoch + 1] = chain[t.from.epoch + 1]
        BY <2>4, <3>1, <3>6, TracksKeeps DEF TransitionFits
      <4>2. ShapeFits(u)
        BY <2>1, <3>1 DEF TransitionFits, ShapeFits
      <4>3. t.from.members = chain'[t.from.epoch + 1].members
        BY <2>3, <3>2, <3>3, <4>1
      <4>4. t.cand.epoch = top /\ top < Len(chain') /\ chain'[top + 1] = Commitment(t.cand)
            /\ t.cand.secret = sec2[top]
        BY <2>3, <2>6, <3>3, <3>4, <3>5
      <4>. QED BY <2>1, <4>1, <4>2, <4>3, <4>4 DEF TransitionFits
    <3>10. TaskFits(u, sec2, top)'
      <4>1. group'[u.dev].published
        BY <1>1, <1>2, <2>1, <3>1 DEF TaskFits
      <4>. QED BY <2>1, <3>9, <4>1 DEF TaskFits
    <3>11. ASSUME NEW x \in Devices, IsTrue(x)'
           PROVE  DeviceFits(x, sec2, top)'
      <4>1. IsTrue(x) /\ DeviceFits(x, sec, top)
        BY <1>2, <3>11 DEF Known, IsTrue
      <4>2. PhoneFits(x, sec2, top)'
        BY <1>2, <3>6, <4>1, PhoneKeeps DEF DeviceFits
      <4>3. ASSUME NEW v \in tasks', v.dev = x
            PROVE  TaskFits(v, sec2, top)'
        <5>1. CASE v = u
          BY <3>10, <5>1
        <5>2. CASE v \in tasks
          <6>1. TaskFits(v, sec, top)
            BY <4>1, <4>3, <5>2 DEF DeviceFits
          <6>2. ~(v.kind = "transition" /\ v.phase = "accepted")
            BY <3>7, <4>1, <4>3, <5>2 DEF Accepted
          <6>. QED BY <1>2, <3>6, <5>2, <6>1, <6>2, TaskKeeps
        <5>. QED BY <2>2, <5>1, <5>2
      <4>4. ASSUME NEW ev \in events', ev.type \in {"invitation", "update", "envelope"}, ev.from = x
            PROVE  MessageFits(ev, sec2, top)'
        <5>1. ev \in events /\ MessageFits(ev, sec, top)
          BY <1>2, <4>1, <4>4 DEF DeviceFits
        <5>. QED BY <3>6, <5>1, MessageKeeps
      <4>. QED BY <4>2, <4>3, <4>4 DEF DeviceFits
    <3>12. Known(sec2, top)' /\ top <= Len(chain')
      BY <2>3, <2>6, <3>3, <3>8, <3>11 DEF Known
    <3>. QED BY <3>5, <3>12 DEF KnownNext, Moves
  <2>. QED BY <2>7, <2>8
<1>. QED BY <1>3, <1>4 DEF ChainDecides


\* A step of one device that moves forward, if it moves at all: what it starts
\* and what it tells the others must fit.
LEMMA Forward ==
    ASSUME TypeOK, NEW d \in Devices, NEW sec, NEW top \in Nat, Known(sec, top),
           chain' = chain, unverified \subseteq unverified',
           \A x \in Devices : x # d =>
               /\ group'[x] = group[x] /\ saved'[x] = saved[x] /\ baseline'[x] = baseline[x]
               /\ listening'[x] = listening[x] /\ pending'[x] = pending[x],
           \A t \in tasks' : t \in tasks \/
               /\ t.dev = d /\ ~(t.kind = "transition" /\ t.phase = "accepted")
               /\ IsTrue(d)' => TaskFits(t, sec, top)',
           \A ev \in events' :
               ev \in events \/ ev.type \notin {"invitation", "update", "envelope"} \/
               (ev.from = d /\ (IsTrue(d)' => MessageFits(ev, sec, top)')),
           IsTrue(d)' =>
               /\ PhoneFits(d, sec, top)'
               /\ group[d].published => group'[d].published
               /\ \A n \in Nat : n <= group[d].epoch => n <= group'[d].epoch
    PROVE  Known(sec, top)'
<1>1. ASSUME IsTrue(d)' PROVE DeviceFits(d, sec, top)'
  <2>1. DeviceFits(d, sec, top)
    BY <1>1 DEF Known, IsTrue
  <2>2. ASSUME NEW t \in tasks', t.dev = d PROVE TaskFits(t, sec, top)'
    <3>1. CASE t \in tasks
      <4>1. TaskFits(t, sec, top)
        BY <2>1, <2>2, <3>1 DEF DeviceFits
      <4>. QED BY <1>1, <2>2, <3>1, <4>1, TaskStays
    <3>. QED BY <1>1, <2>2, <3>1
  <2>3. ASSUME NEW ev \in events', ev.type \in {"invitation", "update", "envelope"}, ev.from = d
        PROVE  MessageFits(ev, sec, top)'
    <3>1. CASE ev \in events
      <4>1. MessageFits(ev, sec, top)
        BY <2>1, <2>3, <3>1 DEF DeviceFits
      <4>. QED BY <4>1, MessageStays
    <3>. QED BY <1>1, <2>3, <3>1
  <2>. QED BY <1>1, <2>2, <2>3 DEF DeviceFits
<1>2. \A t \in tasks' : t \in tasks \/ t.dev = d
  OBVIOUS
<1>3. \A t \in tasks' : t \in tasks \/ ~(t.kind = "transition" /\ t.phase = "accepted")
  OBVIOUS
<1>4. \A ev \in events' :
         ev \in events \/ ev.type \notin {"invitation", "update", "envelope"} \/ ev.from = d
  OBVIOUS
<1>. QED BY <1>1, <1>2, <1>3, <1>4, OnlyOne

\* A true device that a step leaves alone has what it had.
LEMMA PhoneStays ==
    ASSUME TypeOK, NEW d \in Devices, NEW sec, NEW top \in Nat, Known(sec, top), IsTrue(d),
           chain' = chain,
           group'[d] = group[d], saved'[d] = saved[d], baseline'[d] = baseline[d],
           listening'[d] = listening[d], pending'[d] = pending[d]
    PROVE  PhoneFits(d, sec, top)'
<1>1. PhoneFits(d, sec, top)
  BY DEF Known, DeviceFits
<1>. QED BY <1>1, ExtendsItself, PhoneKeeps

LEMMA AnswerLostKnown ==
    ASSUME TypeOK, NEW sec, NEW top \in Nat, Known(sec, top), NEW t \in tasks, AnswerLost(t)
    PROVE  Known(sec, top)'
BY Quiet DEF AnswerLost

LEMMA LoseEnvelopeKnown ==
    ASSUME TypeOK, NEW sec, NEW top \in Nat, Known(sec, top), NEW ev \in events, LoseEnvelope(ev)
    PROVE  Known(sec, top)'
BY Quiet DEF LoseEnvelope, history

\* What a coroutine sends when it has installed fits.
LEMMA SentFits ==
    ASSUME NEW t \in Transitions, NEW sec, NEW top \in Nat,
           TransitionFits(t, chain, sec, top), t.phase \in {"installed", "told"}
    PROVE  /\ t.gone = {} => UpdateFits(StateUpdate(t), chain, sec, top)
           /\ \A m \in t.cand.members : EnvelopeFits(Envelope(t, m), chain, sec, top)
<1>1. /\ t.from \in Groups /\ t.cand \in Groups
      /\ t.from.epoch \in Nat /\ t.cand.epoch = t.from.epoch + 1
  BY GroupRecord DEF Transitions, TransitionFits, ShapeFits
<1>2. /\ t.cand.epoch < top /\ t.cand.salt = chain[t.cand.epoch + 1].salt
      /\ t.cand.secret = sec[t.cand.epoch] /\ t.cand.members = chain[t.cand.epoch + 1].members
      /\ t.from.secret = sec[t.from.epoch]
      /\ t.from.members = chain[t.from.epoch + 1].members
  BY DEF TransitionFits, Tracks
<1>3. ASSUME t.gone = {} PROVE UpdateFits(StateUpdate(t), chain, sec, top)
  <2>. DEFINE ev == StateUpdate(t)
  <2>1. /\ ev.key = KeyOf(t.from) /\ ev.epoch = t.cand.epoch /\ ev.salt = t.cand.salt
        /\ ev.added = t.added /\ ev.gone = t.gone
    BY DEF StateUpdate
  <2>. HIDE DEF ev
  <2>2. ev.key[2] = t.from.epoch
    BY <1>1, <2>1, CommitmentRecord
  <2>3. t.cand.members = t.from.members \cup t.added /\ t.cand.secret = t.from.secret
    BY <1>3 DEF TransitionFits, ShapeFits
  <2>4. t.cand.epoch + 1 = t.from.epoch + 2
    BY <1>1
  <2>5. UpdateFits(ev, chain, sec, top)
    BY <1>1, <1>2, <1>3, <2>1, <2>2, <2>3, <2>4 DEF UpdateFits
  <2>. QED BY <2>5 DEF ev
<1>4. ASSUME NEW m \in t.cand.members PROVE EnvelopeFits(Envelope(t, m), chain, sec, top)
  <2>1. m \notin t.gone
    BY <1>4 DEF TransitionFits, ShapeFits
  <2>. QED BY <1>2, <2>1 DEF EnvelopeFits, Envelope
<1>. QED BY <1>3, <1>4

LEMMA AnnounceKnown ==
    ASSUME TypeOK, NEW sec, NEW top \in Nat, Known(sec, top), NEW t \in tasks, Announce(t)
    PROVE  Known(sec, top)'
<1>. DEFINE d == t.dev
            u == [t EXCEPT !.phase = "told"]
            told == (t.cand.members \cap bundles[d]) \ {d}
<1>1. /\ t \in Transitions /\ d \in Devices /\ t.cand \in Groups /\ t.phase = "installed"
      /\ t.kind = "transition"
  BY TaskKinds DEF Announce, Transitions
<1>2. /\ saved' = [saved EXCEPT ![d] = t.cand]
      /\ listening' = [listening EXCEPT ![d] = KeyOf(t.cand)]
      /\ UNCHANGED <<chain, group, baseline, pending, unverified>>
  BY DEF Announce
<1>3. /\ u \in Transitions /\ u.phase = "told" /\ u.kind = "transition" /\ u.dev = d
      /\ u.from = t.from /\ u.cand = t.cand /\ u.added = t.added /\ u.gone = t.gone
      /\ u.base = t.base
  BY <1>1, PhaseFacts
<1>4. /\ tasks' \subseteq tasks \cup {u}
      /\ \A ev \in events' : \/ ev \in events \/ ev.type = "notice"
                             \/ ev = StateUpdate(t) /\ t.gone = {}
                             \/ \E m \in told : ev = Envelope(t, m)
  BY DEF Announce, Change, RemovalNotice
<1>. HIDE DEF u
<1>5. ASSUME IsTrue(d)
      PROVE  /\ TransitionFits(t, chain, sec, top) /\ group[d].published
             /\ t.cand.epoch <= group[d].epoch /\ PhoneFits(d, sec, top)
  <2>1. TaskFits(t, sec, top) /\ PhoneFits(d, sec, top)
    BY <1>1, <1>5 DEF Known, DeviceFits
  <2>. QED BY <1>1, <2>1 DEF TaskFits
<1>6. ASSUME IsTrue(d) PROVE TaskFits(u, sec, top)'
  <2>1. TransitionFits(u, chain, sec, top)
    BY <1>1, <1>3, <1>5, <1>6 DEF TransitionFits, ShapeFits
  <2>. QED BY <1>2, <1>3, <1>5, <1>6, <2>1 DEF TaskFits
<1>7. ASSUME IsTrue(d), NEW ev, (ev = StateUpdate(t) /\ t.gone = {}) \/ \E m \in told : ev = Envelope(t, m)
      PROVE  MessageFits(ev, sec, top)'
  <2>1. /\ t.gone = {} => UpdateFits(StateUpdate(t), chain, sec, top)
        /\ \A m \in t.cand.members : EnvelopeFits(Envelope(t, m), chain, sec, top)
    BY <1>1, <1>5, <1>7, SentFits
  <2>2. CASE ev = StateUpdate(t) /\ t.gone = {}
    <3>1. ev.type = "update" /\ UpdateFits(ev, chain, sec, top)
      BY <2>1, <2>2 DEF StateUpdate
    <3>. QED BY <1>2, <3>1 DEF MessageFits
  <2>3. CASE \E m \in told : ev = Envelope(t, m)
    <3>1. ev.type = "envelope" /\ EnvelopeFits(ev, chain, sec, top)
      BY <2>1, <2>3 DEF Envelope
    <3>. QED BY <1>2, <3>1 DEF MessageFits
  <2>. QED BY <1>7, <2>2, <2>3
<1>8. ASSUME IsTrue(d) PROVE PhoneFits(d, sec, top)'
  <2>1. GroupFits(d, t.cand, chain, sec, top)
    <3>1. Tracks(t.cand, chain, sec, top) /\ t.cand.members = chain[t.cand.epoch + 1].members
          /\ d \in t.cand.members
      BY <1>1, <1>5, <1>8 DEF TransitionFits, ShapeFits
    <3>. QED BY <3>1 DEF GroupFits
  <2>2. saved'[d] = t.cand /\ listening'[d] = KeyOf(t.cand)
    BY <1>1, <1>2 DEF TypeOK, PhonesTyped
  <2>3. listening'[d][2] <= group'[d].epoch
    BY <1>1, <1>2, <1>5, <1>8, <2>2, CommitmentRecord
  <2>. QED BY <1>2, <1>5, <1>8, <2>1, <2>2, <2>3 DEF PhoneFits
<1>9. \A x \in Devices : x # d =>
         /\ group'[x] = group[x] /\ saved'[x] = saved[x] /\ baseline'[x] = baseline[x]
         /\ listening'[x] = listening[x] /\ pending'[x] = pending[x]
  BY <1>2 DEF TypeOK, PhonesTyped
<1>10. IsTrue(d)' => IsTrue(d)
  BY <1>2 DEF IsTrue
<1>11. \A ev \in events' : ev.type \in {"invitation", "update", "envelope"} =>
          ev \in events \/ (ev.from = d /\ (IsTrue(d)' => MessageFits(ev, sec, top)'))
  <2>1. StateUpdate(t).from = d /\ \A m \in told : Envelope(t, m).from = d
    BY DEF StateUpdate, Envelope
  <2>. QED BY <1>4, <1>7, <1>10, <2>1
<1>12. \A v \in tasks' : v \in tasks \/
          /\ v.dev = d /\ ~(v.kind = "transition" /\ v.phase = "accepted")
          /\ IsTrue(d)' => TaskFits(v, sec, top)'
  BY <1>3, <1>4, <1>6, <1>10
<1>. HIDE DEF d, told
<1>. QED BY <1>1, <1>2, <1>8, <1>9, <1>10, <1>11, <1>12, Forward


\* A step in which only the records of a device change, and what it sends again.
LEMMA RecordsOnly ==
    ASSUME TypeOK, NEW d \in Devices, NEW sec, NEW top \in Nat, Known(sec, top),
           UNCHANGED <<chain, group, saved, baseline, listening, unverified>>,
           tasks' \subseteq tasks,
           \A x \in Devices : x # d => pending'[x] = pending[x],
           IsTrue(d) => \A r \in pending'[d] : RecordFits(r, chain, sec, top),
           \A ev \in events' : ev.type \in {"invitation", "update", "envelope"} =>
               ev \in events \/ (ev.from = d /\ (IsTrue(d) => MessageFits(ev, sec, top)))
    PROVE  Known(sec, top)'
<1>1. IsTrue(d)' <=> IsTrue(d)
  BY DEF IsTrue
<1>2. ASSUME IsTrue(d) PROVE PhoneFits(d, sec, top)'
  <2>1. PhoneFits(d, sec, top)
    BY <1>2 DEF Known, DeviceFits
  <2>. QED BY <1>2, <2>1 DEF PhoneFits
<1>3. \A ev : MessageFits(ev, sec, top)' <=> MessageFits(ev, sec, top)
  BY DEF MessageFits
<1>4. \A x \in Devices : x # d =>
         /\ group'[x] = group[x] /\ saved'[x] = saved[x] /\ baseline'[x] = baseline[x]
         /\ listening'[x] = listening[x] /\ pending'[x] = pending[x]
  OBVIOUS
<1>5. \A ev \in events' :
         ev \in events \/ ev.type \notin {"invitation", "update", "envelope"} \/
         (ev.from = d /\ (IsTrue(d)' => MessageFits(ev, sec, top)'))
  BY <1>1, <1>3
<1>6. \A t \in tasks' : t \in tasks
  OBVIOUS
<1>. QED BY <1>1, <1>2, <1>4, <1>5, <1>6, Forward

LEMMA SavePendingRekeyKnown ==
    ASSUME TypeOK, NEW sec, NEW top \in Nat, Known(sec, top), NEW t \in tasks,
           SavePendingRekey(t)
    PROVE  Known(sec, top)'
<1>. DEFINE d == t.dev
            r == [task |-> t, unacked |-> t.cand.members \ {d}, retries |-> 0]
<1>1. /\ d \in Devices /\ t.phase = "told" /\ t.kind = "transition"
      /\ tasks' = tasks \ {t} /\ pending' = [pending EXCEPT ![d] = @ \cup {r}]
      /\ UNCHANGED <<chain, group, saved, baseline, listening, unverified, events>>
  BY TaskKinds DEF SavePendingRekey, history
<1>2. r.task = t /\ r.unacked = t.cand.members \ {d}
  OBVIOUS
<1>. HIDE DEF r
<1>3. pending'[d] = pending[d] \cup {r} /\ \A x \in Devices : x # d => pending'[x] = pending[x]
  BY <1>1 DEF TypeOK, PhonesTyped
<1>4. ASSUME IsTrue(d) PROVE \A s \in pending'[d] : RecordFits(s, chain, sec, top)
  <2>1. TransitionFits(t, chain, sec, top) /\ PhoneFits(d, sec, top)
    BY <1>1, <1>4 DEF Known, DeviceFits, TaskFits
  <2>2. Tracks(t.cand, chain, sec, top) /\ t.gone \cap t.cand.members = {}
    BY <1>1, <2>1 DEF TransitionFits, ShapeFits
  <2>3. RecordFits(r, chain, sec, top)
    BY <1>2, <2>2 DEF RecordFits
  <2>. QED BY <1>3, <2>1, <2>3 DEF PhoneFits
<1>. HIDE DEF d
<1>. QED BY <1>1, <1>3, <1>4, RecordsOnly

LEMMA ResendPendingRekeysKnown ==
    ASSUME TypeOK, NEW sec, NEW top \in Nat, Known(sec, top), NEW d \in Devices,
           NEW r \in pending[d], ResendPendingRekeys(d, r)
    PROVE  Known(sec, top)'
<1>. DEFINE again == [r EXCEPT !.retries = @ + 1]
<1>1. /\ pending' = [pending EXCEPT ![d] = (@ \ {r}) \cup {again}]
      /\ events' = events \cup {Envelope(r.task, m) : m \in r.unacked \cap bundles[d]}
      /\ UNCHANGED <<chain, group, saved, baseline, listening, unverified, tasks>>
  BY DEF ResendPendingRekeys, history
<1>2. r \in Records /\ r.task.dev = d
  BY RecordFacts
<1>3. again.task = r.task /\ again.unacked = r.unacked
  BY <1>2 DEF Records
<1>. HIDE DEF again
<1>4. pending'[d] = (pending[d] \ {r}) \cup {again} /\ \A x \in Devices : x # d => pending'[x] = pending[x]
  BY <1>1 DEF TypeOK, PhonesTyped
<1>5. ASSUME IsTrue(d)
      PROVE  /\ \A s \in pending'[d] : RecordFits(s, chain, sec, top)
             /\ \A m \in r.unacked : MessageFits(Envelope(r.task, m), sec, top)
  <2>1. \A s \in pending[d] : RecordFits(s, chain, sec, top)
    BY <1>5 DEF Known, DeviceFits, PhoneFits
  <2>2. RecordFits(r, chain, sec, top)
    BY <2>1
  <2>3. RecordFits(again, chain, sec, top)
    BY <1>3, <2>2 DEF RecordFits
  <2>4. ASSUME NEW m \in r.unacked
        PROVE  MessageFits(Envelope(r.task, m), sec, top)
    <3>1. /\ Tracks(r.task.cand, chain, sec, top) /\ m \notin r.task.gone
      BY <2>2 DEF RecordFits
    <3>. QED BY <3>1 DEF Tracks, Envelope, EnvelopeFits, MessageFits
  <2>. QED BY <1>4, <2>1, <2>3, <2>4
<1>6. \A ev \in events' : ev.type \in {"invitation", "update", "envelope"} =>
         ev \in events \/ (ev.from = d /\ (IsTrue(d) => MessageFits(ev, sec, top)))
  BY <1>1, <1>2, <1>5 DEF Envelope
<1>. QED BY <1>1, <1>4, <1>5, <1>6, RecordsOnly

LEMMA ExpirePendingRekeyKnown ==
    ASSUME TypeOK, NEW sec, NEW top \in Nat, Known(sec, top), NEW d \in Devices,
           NEW r \in pending[d], ExpirePendingRekey(d, r)
    PROVE  Known(sec, top)'
<1>1. /\ pending' = [pending EXCEPT ![d] = @ \ {r}]
      /\ UNCHANGED <<chain, group, saved, baseline, listening, unverified, tasks, events>>
  BY DEF ExpirePendingRekey
<1>2. pending'[d] = pending[d] \ {r} /\ \A x \in Devices : x # d => pending'[x] = pending[x]
  BY <1>1 DEF TypeOK, PhonesTyped
<1>3. ASSUME IsTrue(d) PROVE \A s \in pending'[d] : RecordFits(s, chain, sec, top)
  BY <1>2, <1>3 DEF Known, DeviceFits, PhoneFits
<1>. QED BY <1>1, <1>2, <1>3, RecordsOnly

LEMMA RekeyAckedKnown ==
    ASSUME TypeOK, NEW sec, NEW top \in Nat, Known(sec, top), NEW d \in Devices,
           NEW ev, RekeyAcked(d, ev)
    PROVE  Known(sec, top)'
<1>. DEFINE Struck(r) == [r EXCEPT !.unacked = IF r.task.cand.epoch = ev.epoch THEN @ \ {ev.from} ELSE @]
<1>1. /\ pending' = [pending EXCEPT ![d] = {r \in {Struck(s) : s \in pending[d]} : r.unacked # {}}]
      /\ UNCHANGED <<chain, group, saved, baseline, listening, unverified, tasks, events>>
  BY DEF RekeyAcked, history
<1>2. \A r \in pending[d] : Struck(r).task = r.task /\ Struck(r).unacked \subseteq r.unacked
  BY RecordFacts DEF Records
<1>. HIDE DEF Struck
<1>3. /\ \A r \in pending'[d] : \E s \in pending[d] : r = Struck(s)
      /\ \A x \in Devices : x # d => pending'[x] = pending[x]
  BY <1>1 DEF TypeOK, PhonesTyped
<1>4. ASSUME IsTrue(d), NEW r \in pending'[d] PROVE RecordFits(r, chain, sec, top)
  <2>1. PICK s \in pending[d] : r = Struck(s)
    BY <1>3
  <2>2. RecordFits(s, chain, sec, top)
    BY <1>4 DEF Known, DeviceFits, PhoneFits
  <2>. QED BY <1>2, <2>1, <2>2 DEF RecordFits
<1>. QED BY <1>1, <1>3, <1>4, RecordsOnly

LEMMA InviteKnown ==
    ASSUME TypeOK, NEW sec, NEW top \in Nat, Known(sec, top), NEW d \in Devices,
           NEW m \in Devices, Invite(d, m)
    PROVE  Known(sec, top)'
<1>. DEFINE ev == [type |-> "invitation", to |-> m, from |-> d, group |-> group[d],
                   bundles |-> bundles[d] \cup {d}]
<1>1. /\ events' = events \cup {ev} /\ group[d] # NoGroup
      /\ UNCHANGED <<chain, group, saved, baseline, listening, unverified, tasks, pending>>
  BY DEF Invite, IsMember, history
<1>2. ev.type = "invitation" /\ ev.from = d /\ ev.group = group[d]
  OBVIOUS
<1>. HIDE DEF ev
<1>3. ASSUME IsTrue(d)
      PROVE  /\ MessageFits(ev, sec, top)
             /\ \A r \in pending'[d] : RecordFits(r, chain, sec, top)
  <2>1. PhoneFits(d, sec, top)
    BY <1>3 DEF Known, DeviceFits
  <2>. QED BY <1>1, <1>2, <2>1 DEF PhoneFits, GroupFits, MessageFits
<1>. QED BY <1>1, <1>2, <1>3, RecordsOnly


\* A device that goes on without the chain may do as it likes.
LEMMA GoesAlone ==
    ASSUME TypeOK, NEW d \in Devices, NEW sec, NEW top \in Nat, Known(sec, top),
           chain' = chain, unverified \subseteq unverified', d \in unverified',
           \A x \in Devices : x # d =>
               /\ group'[x] = group[x] /\ saved'[x] = saved[x] /\ baseline'[x] = baseline[x]
               /\ listening'[x] = listening[x] /\ pending'[x] = pending[x],
           \A t \in tasks' : t \in tasks \/
               (t.dev = d /\ ~(t.kind = "transition" /\ t.phase = "accepted")),
           \A ev \in events' :
               ev \in events \/ ev.type \notin {"invitation", "update", "envelope"} \/ ev.from = d
    PROVE  Known(sec, top)'
<1>1. ~IsTrue(d)'
  BY DEF IsTrue
<1>. QED BY <1>1, Forward

\* A change that a true device starts follows from what the device has.
LEMMA TransitionKnown ==
    ASSUME TypeOK, NEW sec, NEW top \in Nat, Known(sec, top), NEW d \in Devices,
           group[d] \in Groups, NEW cand \in Groups, NEW added \in SUBSET Devices,
           NEW gone \in SUBSET Devices, Transition(d, cand, added, gone),
           cand.epoch = group[d].epoch + 1, cand.published = group[d].published,
           cand.members = (group[d].members \ gone) \cup added, gone \cap cand.members = {},
           d \in group[d].members => d \in cand.members,
           gone = {} => cand.secret = group[d].secret
    PROVE  Known(sec, top)'
<1>. DEFINE Task(phase, base) ==
                [kind |-> "transition", dev |-> d, from |-> group[d], cand |-> cand,
                 added |-> added, gone |-> gone, phase |-> phase, base |-> base]
            base0 == IF baseline[d] = NoBaseline THEN Commitment(group[d]) ELSE baseline[d]
<1>1. UNCHANGED <<chain, saved, baseline, listening, events, pending>>
  BY DEF Transition
<1>2. CASE ~group[d].published
  <2>1. /\ group' = [group EXCEPT ![d] = cand] /\ unverified' = unverified \cup {d}
        /\ tasks' = tasks \cup {Task("installed", NoBaseline)}
    BY <1>2 DEF Transition
  <2>2. \A x \in Devices : x # d => group'[x] = group[x]
    BY <2>1 DEF TypeOK, PhonesTyped
  <2>. QED BY <1>1, <2>1, <2>2, GoesAlone
<1>3. CASE group[d].published
  <2>. PICK t : t = Task("sent", base0)
    OBVIOUS
  <2>1. UNCHANGED <<group, unverified>> /\ tasks' = tasks \cup {t}
    BY <1>3 DEF Transition
  <2>2. /\ t.kind = "transition" /\ t.dev = d /\ t.from = group[d] /\ t.cand = cand
        /\ t.added = added /\ t.gone = gone /\ t.phase = "sent" /\ t.base = base0
    OBVIOUS
  <2>. HIDE DEF Task, base0
  <2>3. ASSUME IsTrue(d) PROVE TaskFits(t, sec, top)'
    <3>1. PhoneFits(d, sec, top)
      BY <2>3 DEF Known, DeviceFits
    <3>2. Tracks(group[d], chain, sec, top) /\ d \in group[d].members
      BY <1>3, <3>1, AbsentAssumption DEF PhoneFits, GroupFits
    <3>3. base0 = Commitment(group[d])
      BY <3>1 DEF PhoneFits, base0
    <3>4. ShapeFits(t)
      BY <1>3, <2>2, <3>2 DEF ShapeFits
    <3>5. TransitionFits(t, chain, sec, top)
      BY <2>2, <3>2, <3>3, <3>4 DEF TransitionFits
    <3>. QED BY <1>1, <1>3, <2>1, <2>2, <3>5 DEF TaskFits
  <2>4. IsTrue(d)' <=> IsTrue(d)
    BY <2>1 DEF IsTrue
  <2>5. ASSUME IsTrue(d) PROVE PhoneFits(d, sec, top)'
    BY <1>1, <2>1, <2>5, PhoneStays
  <2>6. \A v \in tasks' : v \in tasks \/
           /\ v.dev = d /\ ~(v.kind = "transition" /\ v.phase = "accepted")
           /\ IsTrue(d)' => TaskFits(v, sec, top)'
    BY <2>1, <2>2, <2>3, <2>4
  <2>. QED BY <1>1, <2>1, <2>4, <2>5, <2>6, Forward
<1>. QED BY <1>2, <1>3

LEMMA RemoveSomeoneKnown ==
    ASSUME TypeOK, NEW sec, NEW top \in Nat, Known(sec, top), NEW d \in Devices, RemoveSomeone(d)
    PROVE  Known(sec, top)'
<1>1. group[d] \in Groups /\ starts \in Nat /\ group[d].members \subseteq Devices
  BY PhoneFacts, GroupRecord DEF RemoveSomeone, IsMember, TypeOK, HistoryTyped
<1>2. PICK m \in group[d].members \ {d} : Transition(d, RemoveMember(group[d], m), {}, {m})
  BY DEF RemoveSomeone
<1>. DEFINE cand == RemoveMember(group[d], m)
<1>3. /\ cand \in Groups /\ cand.members = group[d].members \ {m}
      /\ cand.epoch = group[d].epoch + 1 /\ cand.published = group[d].published
  BY <1>1, <1>2, RemoveMemberFacts
<1>4. Transition(d, cand, {}, {m}) /\ {m} \in SUBSET Devices /\ {} \in SUBSET Devices
  BY <1>1, <1>2
<1>5. cand.members = (group[d].members \ {m}) \cup {} /\ {m} \cap cand.members = {}
  BY <1>3
<1>6. d \in group[d].members => d \in cand.members
  BY <1>2, <1>3
<1>7. {m} # {}
  OBVIOUS
<1>. HIDE DEF cand
<1>. QED BY <1>1, <1>3, <1>4, <1>5, <1>6, <1>7, TransitionKnown

LEMMA RotateGroupKeyKnown ==
    ASSUME TypeOK, NEW sec, NEW top \in Nat, Known(sec, top), NEW d \in Devices, RotateGroupKey(d)
    PROVE  Known(sec, top)'
<1>1. group[d] \in Groups /\ starts \in Nat
  BY PhoneFacts DEF RotateGroupKey, IsMember, TypeOK, HistoryTyped
<1>. DEFINE cand == RotateKey(group[d])
<1>2. /\ cand \in Groups /\ cand.members = group[d].members /\ cand.secret = group[d].secret
      /\ cand.epoch = group[d].epoch + 1 /\ cand.published = group[d].published
  BY <1>1, RotateKeyFacts
<1>3. Transition(d, cand, {}, {}) /\ {} \in SUBSET Devices
  BY DEF RotateGroupKey
<1>4. cand.members = (group[d].members \ {}) \cup {} /\ {} \cap cand.members = {}
  BY <1>2
<1>. HIDE DEF cand
<1>. QED BY <1>1, <1>2, <1>3, <1>4, TransitionKnown

LEMMA MemberJoinedKnown ==
    ASSUME TypeOK, NEW sec, NEW top \in Nat, Known(sec, top), NEW d \in Devices,
           group[d] \in Groups, NEW ev \in Joined, MemberJoined(d, ev)
    PROVE  Known(sec, top)'
<1>1. ev.member \in Devices
  BY DEF Joined
<1>. DEFINE cand == AddMember(group[d], ev.member)
<1>2. /\ cand \in Groups /\ cand.members = group[d].members \cup {ev.member}
      /\ cand.secret = group[d].secret
      /\ cand.epoch = group[d].epoch + 1 /\ cand.published = group[d].published
  BY <1>1, AddMemberFacts
<1>3. Transition(d, cand, {ev.member}, {}) /\ {ev.member} \in SUBSET Devices /\ {} \in SUBSET Devices
  BY <1>1 DEF MemberJoined
<1>4. cand.members = (group[d].members \ {}) \cup {ev.member} /\ {} \cap cand.members = {}
  BY <1>2
<1>5. d \in group[d].members => d \in cand.members
  BY <1>2
<1>. HIDE DEF cand
<1>. QED BY <1>2, <1>3, <1>4, <1>5, TransitionKnown

LEMMA RemovalNoticedKnown ==
    ASSUME TypeOK, NEW sec, NEW top \in Nat, Known(sec, top), NEW d \in Devices,
           NEW ev, RemovalNoticed(d, ev)
    PROVE  Known(sec, top)'
<1>1. /\ \A x \in Devices : x # d => group'[x] = group[x] /\ listening'[x] = listening[x]
      /\ unverified' = unverified \cup {d}
      /\ UNCHANGED <<chain, saved, baseline, tasks, events, pending>>
  BY DEF RemovalNoticed, TypeOK, PhonesTyped
<1>. QED BY <1>1, GoesAlone

\* So may one that adopts an update.
LEMMA AdoptKnown ==
    ASSUME TypeOK, NEW sec, NEW top \in Nat, Known(sec, top), NEW d \in Devices,
           NEW update, NEW e, Adopt(d, update, e),
           UNCHANGED <<chain, saved, baseline, pending, events>>, tasks' \subseteq tasks
    PROVE  Known(sec, top)'
<1>1. /\ \A x \in Devices : x # d => group'[x] = group[x] /\ listening'[x] = listening[x]
      /\ unverified' = unverified \cup {d}
  BY DEF Adopt, TypeOK, PhonesTyped
<1>. QED BY <1>1, GoesAlone

LEMMA ForkResolvedKnown ==
    ASSUME TypeOK, NEW sec, NEW top \in Nat, Known(sec, top), NEW t \in tasks, ForkResolved(t)
    PROVE  Known(sec, top)'
<1>1. t.dev \in Devices
  BY TaskKinds
<1>2. /\ tasks' \subseteq tasks /\ UNCHANGED <<chain, saved, baseline, pending, events>>
      /\ \/ \E e : Adopt(t.dev, t.update, e)
         \/ UNCHANGED <<group, listening, unverified>>
  BY DEF ForkResolved
<1>. QED BY <1>1, <1>2, AdoptKnown, Quiet


LEMMA AcceptInvitationKnown ==
    ASSUME TypeOK, NEW sec, NEW top \in Nat, Known(sec, top), NEW d \in Devices,
           NEW ev \in events, AcceptInvitation(d, ev)
    PROVE  Known(sec, top)'
<1>1. /\ ev.group \in Groups /\ ev.from \in Devices /\ ev.type = "invitation" /\ group[d] = NoGroup
  BY EventTypes DEF AcceptInvitation, Invitations
<1>. PICK verified \in {FALSE} \cup {Commitment(ev.group) = OnChain} :
        LET g == [ev.group EXCEPT !.members = @ \cup {d}, !.published = verified]
        IN  /\ group' = [group EXCEPT ![d] = g]
            /\ listening' = [listening EXCEPT ![d] = KeyOf(g)]
            /\ bundles' = [bundles EXCEPT ![d] = @ \cup ev.bundles \cup {d}]
            /\ events' = events \cup {[type |-> "joined", key |-> KeyOf(g), member |-> d]}
  BY DEF AcceptInvitation
<1>. DEFINE g == [ev.group EXCEPT !.members = @ \cup {d}, !.published = verified]
<1>2. verified \in BOOLEAN /\ (verified => Commitment(ev.group) = OnChain)
  OBVIOUS
<1>3. /\ g \in Groups /\ g.members = ev.group.members \cup {d} /\ g.published = verified
      /\ g.epoch = ev.group.epoch /\ g.salt = ev.group.salt /\ g.secret = ev.group.secret
  BY <1>1, <1>2 DEF Groups
<1>4. /\ group' = [group EXCEPT ![d] = g]
      /\ listening' = [listening EXCEPT ![d] = KeyOf(g)]
      /\ events' = events \cup {[type |-> "joined", key |-> KeyOf(g), member |-> d]}
      /\ unverified' = Tainted(d, ev.from)
      /\ UNCHANGED <<chain, saved, baseline, tasks, pending>>
  BY DEF AcceptInvitation
<1>. HIDE DEF g
<1>5. /\ group'[d] = g /\ listening'[d] = KeyOf(g)
      /\ \A x \in Devices : x # d => group'[x] = group[x] /\ listening'[x] = listening[x]
  BY <1>4 DEF TypeOK, PhonesTyped
<1>6. \A v \in events' : v.type \in {"invitation", "update", "envelope"} => v \in events
  BY <1>4
<1>7. ASSUME IsTrue(d)' PROVE DeviceFits(d, sec, top)'
  <2>1. IsTrue(d) /\ IsTrue(ev.from)
    BY <1>1, <1>4, <1>7 DEF IsTrue, Tainted
  <2>2. DeviceFits(d, sec, top) /\ PhoneFits(d, sec, top)
    BY <2>1 DEF Known, DeviceFits
  <2>3. Tracks(ev.group, chain, sec, top)
    BY <1>1, <2>1 DEF Known, DeviceFits, MessageFits
  <2>4. ASSUME verified PROVE g.members = chain[g.epoch + 1].members \cup {d}
    <3>1. Commitment(ev.group) = OnChain /\ OnChain = chain[Len(chain)]
      BY <1>2, <2>4 DEF OnChain
    <3>2. Commitment(ev.group).members = ev.group.members /\ Commitment(ev.group).epoch = ev.group.epoch
      BY <1>1, CommitmentRecord
    <3>3. OnChain.epoch = Len(chain) - 1 /\ Len(chain) \in Nat
      BY ChainFacts
    <3>4. Len(chain) = ev.group.epoch + 1
      BY <3>1, <3>2, <3>3
    <3>. QED BY <1>3, <3>1, <3>2, <3>4
  <2>5. GroupFits(d, g, chain, sec, top)
    BY <1>3, <2>3, <2>4 DEF GroupFits, Tracks
  <2>6. baseline[d] = NoBaseline
    BY <1>1, <2>2 DEF PhoneFits
  <2>7. listening'[d][2] <= group'[d].epoch
    <3>1. KeyOf(g)[2] = g.epoch /\ g.epoch \in Nat
      BY <1>3, CommitmentRecord, GroupRecord
    <3>2. KeyOf(g)[2] <= g.epoch
      BY <3>1
    <3>. QED BY <1>5, <3>2
  <2>8. PhoneFits(d, sec, top)'
    BY <1>4, <1>5, <2>2, <2>5, <2>6, <2>7 DEF PhoneFits
  <2>9. \A t \in tasks' : t.dev # d
    BY <1>1, <1>4 DEF TypeOK, TasksTyped
  <2>10. ASSUME NEW v \in events', v.type \in {"invitation", "update", "envelope"}, v.from = d
         PROVE  MessageFits(v, sec, top)'
    <3>1. MessageFits(v, sec, top)
      BY <1>6, <2>2, <2>10 DEF DeviceFits
    <3>. QED BY <1>4, <3>1, MessageStays
  <2>. QED BY <2>8, <2>9, <2>10 DEF DeviceFits
<1>8. unverified \subseteq unverified'
  BY <1>4 DEF Tainted
<1>9. \A x \in Devices : x # d =>
         /\ group'[x] = group[x] /\ saved'[x] = saved[x] /\ baseline'[x] = baseline[x]
         /\ listening'[x] = listening[x] /\ pending'[x] = pending[x]
  BY <1>4, <1>5
<1>10. \A v \in events' :
          v \in events \/ v.type \notin {"invitation", "update", "envelope"} \/ v.from = d
  BY <1>6
<1>. QED BY <1>4, <1>7, <1>8, <1>9, <1>10, OnlyOne

LEMMA RestartKnown ==
    ASSUME TypeOK, NEW sec, NEW top \in Nat, Known(sec, top), NEW d \in Devices, Restart(d)
    PROVE  Known(sec, top)'
<1>1. PICK kept \in {saved[d], group[d]} :
        /\ kept # NoGroup
        /\ group' = [group EXCEPT ![d] = kept]
        /\ saved' = [saved EXCEPT ![d] = kept]
        /\ listening' = [listening EXCEPT ![d] = KeyOf(kept)]
  BY DEF Restart
<1>2. /\ baseline' = [baseline EXCEPT ![d] = NoBaseline] /\ tasks' = {t \in tasks : t.dev # d}
      /\ UNCHANGED <<chain, events, pending, unverified>>
  BY DEF Restart
<1>3. /\ group'[d] = kept /\ saved'[d] = kept /\ listening'[d] = KeyOf(kept)
      /\ baseline'[d] = NoBaseline
      /\ \A x \in Devices : x # d =>
            /\ group'[x] = group[x] /\ saved'[x] = saved[x] /\ baseline'[x] = baseline[x]
            /\ listening'[x] = listening[x] /\ pending'[x] = pending[x]
  BY <1>1, <1>2 DEF TypeOK, PhonesTyped
<1>4. ASSUME IsTrue(d)' PROVE DeviceFits(d, sec, top)'
  <2>1. DeviceFits(d, sec, top) /\ PhoneFits(d, sec, top)
    BY <1>2, <1>4 DEF Known, DeviceFits, IsTrue
  <2>2. GroupFits(d, kept, chain, sec, top)
    BY <1>1, <2>1 DEF PhoneFits
  <2>3. KeyOf(kept)[2] <= kept.epoch
    <3>1. kept \in Groups
      BY <1>1, PhoneFacts
    <3>2. KeyOf(kept)[2] = kept.epoch /\ kept.epoch \in Nat
      BY <3>1, CommitmentRecord, GroupRecord
    <3>. QED BY <3>2
  <2>4. PhoneFits(d, sec, top)'
    BY <1>2, <1>3, <2>1, <2>2, <2>3 DEF PhoneFits
  <2>5. \A ev \in events' : ev.type \in {"invitation", "update", "envelope"} /\ ev.from = d =>
           MessageFits(ev, sec, top)'
    BY <1>2, <2>1, MessageStays DEF DeviceFits
  <2>. QED BY <1>2, <2>4, <2>5 DEF DeviceFits
<1>5. \A t \in tasks' : t \in tasks
  BY <1>2
<1>. QED BY <1>2, <1>3, <1>4, <1>5, OnlyOne


\* What a true device installs on another's word fits, when the other is true.
LEMMA CommitRemoteFits ==
    ASSUME TypeOK, NEW sec, NEW top \in Nat, Known(sec, top), NEW d \in Devices,
           group[d] \in Groups, NEW cand \in Groups, NEW sender \in Devices,
           CommitRemote(d, cand, sender), UNCHANGED <<chain, saved, pending>>,
           IsTrue(d) /\ IsTrue(sender) /\ cand.published => GroupFits(d, cand, chain, sec, top)
    PROVE  /\ unverified \subseteq unverified'
           /\ \A x \in Devices : x # d =>
                 /\ group'[x] = group[x] /\ baseline'[x] = baseline[x]
                 /\ listening'[x] = listening[x]
           /\ IsTrue(d)' =>
                 /\ PhoneFits(d, sec, top)'
                 /\ group[d].published => group'[d].published
                 /\ \A n \in Nat : n <= group[d].epoch => n <= group'[d].epoch
<1>1. CASE cand.epoch <= group[d].epoch
  <2>1. UNCHANGED <<group, baseline, listening, unverified>>
    BY <1>1 DEF CommitRemote
  <2>2. ASSUME IsTrue(d) PROVE PhoneFits(d, sec, top)'
    BY <2>1, <2>2, PhoneStays
  <2>. QED BY <2>1, <2>2 DEF IsTrue
<1>2. CASE ~(cand.epoch <= group[d].epoch)
  <2>1. /\ group'[d] = cand
        /\ baseline'[d] = IF cand.published THEN Commitment(cand) ELSE baseline[d]
        /\ listening'[d] = IF d \in cand.members THEN KeyOf(cand) ELSE NoKey
        /\ unverified' = IF cand.published THEN Tainted(d, sender) ELSE unverified \cup {d}
        /\ \A x \in Devices : x # d =>
              /\ group'[x] = group[x] /\ baseline'[x] = baseline[x]
              /\ listening'[x] = listening[x]
    BY <1>2 DEF CommitRemote, TypeOK, PhonesTyped
  <2>2. unverified \subseteq unverified'
    BY <2>1 DEF Tainted
  <2>3. ASSUME IsTrue(d)'
        PROVE  /\ PhoneFits(d, sec, top)' /\ group'[d].published
               /\ \A n \in Nat : n <= group[d].epoch => n <= group'[d].epoch
    <3>1. cand.published /\ IsTrue(d) /\ IsTrue(sender)
      BY <2>1, <2>3 DEF IsTrue, Tainted
    <3>2. GroupFits(d, cand, chain, sec, top) /\ PhoneFits(d, sec, top)
      BY <3>1 DEF Known, DeviceFits
    <3>3. cand.epoch \in Nat /\ group[d].epoch \in Nat /\ KeyOf(cand)[2] = cand.epoch
      BY GroupRecord, CommitmentRecord
    <3>4. \A n \in Nat : n <= group[d].epoch => n <= cand.epoch
      BY <1>2, <3>3
    <3>5. KeyOf(cand)[2] <= cand.epoch
      BY <3>3
    <3>6. cand # NoGroup
      BY AbsentAssumption
    <3>7. PhoneFits(d, sec, top)'
      BY <2>1, <3>1, <3>2, <3>5, <3>6 DEF PhoneFits
    <3>. QED BY <2>1, <3>1, <3>4, <3>7
  <2>. QED BY <2>1, <2>2, <2>3
<1>. QED BY <1>1, <1>2

\* The state that an update leads to, from the epoch that its key is of.
LEMMA UpdatedFits ==
    ASSUME TypeOK, NEW sec, NEW top \in Nat, NEW d \in Devices, group[d] \in Groups,
           PhoneFits(d, sec, top), NEW u \in Updates, UpdateFits(u, chain, sec, top),
           u.key = listening[d], u.epoch > group[d].epoch, group[d].published,
           NEW t, t.kind = "check", t.dev = d, t.cand = Updated(group[d], u, u.epoch)
    PROVE  CheckFits(t, chain, sec, top)
<1>. DEFINE e == u.key[2]
<1>1. e \in Nat /\ group[d].epoch \in Nat /\ u.epoch \in Nat
  BY GroupRecord DEF Updates, Keyed
<1>2. /\ u.epoch = e + 1 /\ u.epoch < top /\ u.salt = chain[e + 2].salt /\ u.gone = {}
      /\ chain[e + 2].members = chain[e + 1].members \cup u.added /\ sec[e + 1] = sec[e]
  BY DEF UpdateFits
<1>3. listening[d] # NoKey
  BY AbsentAssumption DEF Updates
<1>4. e <= group[d].epoch
  BY <1>3 DEF PhoneFits
<1>5. /\ t.cand.members = (group[d].members \ u.gone) \cup u.added /\ t.cand.epoch = u.epoch
      /\ t.cand.salt = u.salt /\ t.cand.secret = group[d].secret
      /\ t.cand.published = group[d].published
  <2>. DEFINE c == Updated(group[d], u, u.epoch)
  <2>1. /\ c.members = (group[d].members \ u.gone) \cup u.added /\ c.epoch = u.epoch
        /\ c.salt = u.salt /\ c.secret = group[d].secret
        /\ c.published = group[d].published
    <3>1. group[d] \in Groups /\ u \in Updates /\ u.epoch \in Nat
      BY <1>1
    <3>. QED BY ONLY <3>1, UpdatedFacts
  <2>2. t.cand = c
    OBVIOUS
  <2>. HIDE DEF c
  <2>. QED BY ONLY <2>1, <2>2
<1>. HIDE DEF e
<1>6. group[d].epoch = e /\ (e + 1) + 1 = e + 2
  <2>. DEFINE n == group[d].epoch
  <2>1. n \in Nat /\ e \in Nat /\ e <= n /\ e + 1 > n
    BY <1>1, <1>2, <1>4
  <2>. HIDE DEF n
  <2>2. n = e
    BY <2>1
  <2>. QED BY <1>1, <2>2 DEF n
<1>7. /\ group[d].secret = sec[e] /\ group[d].members = chain[e + 1].members \cup {d}
  BY <1>6, AbsentAssumption DEF PhoneFits, GroupFits, Tracks
<1>8. Tracks(t.cand, chain, sec, top)
  BY <1>2, <1>5, <1>6, <1>7 DEF Tracks
<1>9. t.cand.members = chain[t.cand.epoch + 1].members \cup {d} /\ t.cand.published
  <2>1. chain[t.cand.epoch + 1] = chain[e + 2]
    BY <1>2, <1>5, <1>6
  <2>2. t.cand.members = group[d].members \cup u.added
    BY <1>2, <1>5
  <2>. QED BY <1>2, <1>5, <1>7, <2>1, <2>2
<1>. QED BY <1>8, <1>9 DEF CheckFits

LEMMA ApplyStateUpdateKnown ==
    ASSUME TypeOK, NEW sec, NEW top \in Nat, Known(sec, top), NEW d \in Devices,
           group[d] \in Groups, NEW u \in events, u \in Updates, u.key = listening[d],
           ApplyStateUpdate(d, u)
    PROVE  Known(sec, top)'
<1>1. UNCHANGED <<chain, saved, events, pending>> /\ u.from \in Devices /\ u.type = "update"
  BY DEF ApplyStateUpdate, Updates
<1>2. CASE SameEpoch(d, u)
  <2>. PICK fork : fork = [kind |-> "fork", dev |-> d, update |-> u]
    OBVIOUS
  <2>1. fork.kind = "fork" /\ fork.dev = d
    OBVIOUS
  <2>2. CASE UNCHANGED <<group, baseline, listening, unverified>> /\ tasks' = tasks \cup {fork}
    <3>1. TaskFits(fork, sec, top)'
      BY <2>1 DEF TaskFits
    <3>2. IsTrue(d)' => PhoneFits(d, sec, top)'
      BY <1>1, <2>2, PhoneStays DEF IsTrue
    <3>. QED BY <1>1, <2>1, <2>2, <3>1, <3>2, Forward
  <2>3. CASE Adopt(d, u, group[d].epoch + 1) /\ UNCHANGED <<baseline, tasks>>
    BY <1>1, <2>3, AdoptKnown
  <2>. QED BY <1>2, <2>2, <2>3 DEF SameEpoch
<1>3. CASE LaterEpoch(d, u)
  <2>. DEFINE cand == Updated(group[d], u, u.epoch)
  <2>1. u.epoch \in Nat /\ u.epoch > group[d].epoch
    BY <1>3 DEF LaterEpoch, Updates
  <2>2. cand \in Groups /\ cand.published = group[d].published
    BY <2>1, UpdatedFacts
  <2>. PICK check : check = [kind |-> "check", dev |-> d, from |-> u.from,
                             cand |-> cand, commitment |-> u.commitment]
    OBVIOUS
  <2>3. check.kind = "check" /\ check.dev = d /\ check.from = u.from /\ check.cand = cand
    OBVIOUS
  <2>4. CASE /\ cand.published /\ tasks' = tasks \cup {check}
             /\ UNCHANGED <<group, baseline, listening, unverified>>
    <3>1. IsTrue(d)' <=> IsTrue(d)
      BY <2>4 DEF IsTrue
    <3>2. ASSUME IsTrue(d) PROVE TaskFits(check, sec, top)'
      <4>1. ASSUME IsTrue(u.from) PROVE CheckFits(check, chain, sec, top)
        <5>1. PhoneFits(d, sec, top) /\ UpdateFits(u, chain, sec, top)
          BY <1>1, <3>2, <4>1 DEF Known, DeviceFits, MessageFits
        <5>2. group[d].published
          BY <2>2, <2>4
        <5>. QED BY <2>1, <2>3, <5>1, <5>2, UpdatedFits
      <4>. HIDE DEF cand
      <4>. QED BY <1>1, <2>3, <2>4, <4>1 DEF TaskFits, IsTrue
    <3>3. IsTrue(d)' => PhoneFits(d, sec, top)'
      BY <1>1, <2>4, <3>1, PhoneStays
    <3>. HIDE DEF cand
    <3>. QED BY <1>1, <2>3, <2>4, <3>1, <3>2, <3>3, Forward
  <2>5. CASE ~cand.published /\ CommitRemote(d, cand, u.from) /\ UNCHANGED tasks
    <3>1. ~(cand.epoch <= group[d].epoch)
      BY <2>1, GroupRecord, UpdatedFacts
    <3>2. d \in unverified'
      BY <2>5, <3>1 DEF CommitRemote
    <3>3. /\ unverified \subseteq unverified'
          /\ \A x \in Devices : x # d =>
                 /\ group'[x] = group[x] /\ baseline'[x] = baseline[x]
                 /\ listening'[x] = listening[x]
      <4>. HIDE DEF cand
      <4>. QED BY <1>1, <2>2, <2>5, CommitRemoteFits
    <3>. QED BY <1>1, <2>5, <3>2, <3>3, GoesAlone
  <2>. QED BY <1>3, <2>4, <2>5 DEF LaterEpoch
<1>. QED BY <1>2, <1>3 DEF ApplyStateUpdate


LEMMA HearKnown ==
    ASSUME TypeOK, NEW sec, NEW top \in Nat, Known(sec, top), NEW d \in Devices,
           NEW ev \in events, Hear(d, ev)
    PROVE  Known(sec, top)'
<1>1. group[d] \in Groups /\ ev.key = listening[d]
  BY HeardFacts DEF Hear
<1>2. CASE ev.type = "joined" /\ MemberJoined(d, ev)
  BY <1>1, <1>2, EventTypes, MemberJoinedKnown
<1>3. CASE ev.type = "update" /\ ApplyStateUpdate(d, ev)
  BY <1>1, <1>3, EventTypes, ApplyStateUpdateKnown
<1>4. CASE ev.type = "notice" /\ RemovalNoticed(d, ev)
  BY <1>4, RemovalNoticedKnown
<1>5. CASE ev.type = "ack" /\ RekeyAcked(d, ev)
  BY <1>5, RekeyAckedKnown
<1>. QED BY <1>2, <1>3, <1>4, <1>5 DEF Hear

LEMMA OpenEnvelopeKnown ==
    ASSUME TypeOK, NEW sec, NEW top \in Nat, Known(sec, top), NEW d \in Devices,
           NEW ev \in events, OpenEnvelope(d, ev)
    PROVE  Known(sec, top)'
<1>1. /\ ev \in Envelopes /\ ev.type = "envelope" /\ ev.to = d /\ ev.from \in Devices
      /\ group[d] \in Groups /\ ev.epoch \in Nat /\ ev.epoch > group[d].epoch
  BY EventTypes, PhoneFacts DEF OpenEnvelope, Envelopes
<1>. DEFINE cand == Rekeyed(group[d], ev)
<1>2. /\ cand \in Groups /\ cand.members = group[d].members \ ev.gone /\ cand.epoch = ev.epoch
      /\ cand.salt = ev.salt /\ cand.secret = ev.secret /\ cand.published = group[d].published
  <2>1. group[d] \in Groups /\ ev \in Envelopes
    BY <1>1
  <2>. QED BY ONLY <2>1, RekeyedFacts
<1>. PICK rekey : rekey = [kind |-> "rekey", dev |-> d, from |-> ev.from,
                           cand |-> cand, commitment |-> Commitment(cand)]
  OBVIOUS
<1>3. /\ rekey.kind = "rekey" /\ rekey.dev = d /\ rekey.from = ev.from /\ rekey.cand = cand
      /\ rekey.commitment = Commitment(cand)
  OBVIOUS
<1>. PICK ack : ack = Ack(d, cand)
  OBVIOUS
<1>4. ack.type = "ack"
  BY DEF Ack
<1>5. UNCHANGED <<chain, saved, pending>>
  BY DEF OpenEnvelope
<1>6. CASE /\ cand.published /\ tasks' = tasks \cup {rekey}
           /\ UNCHANGED <<group, baseline, listening, events, unverified>>
  <2>1. IsTrue(d)' <=> IsTrue(d)
    BY <1>6 DEF IsTrue
  <2>2. ASSUME IsTrue(d) PROVE TaskFits(rekey, sec, top)'
    <3>1. ASSUME IsTrue(ev.from) PROVE CheckFits(rekey, chain, sec, top)
      <4>1. PhoneFits(d, sec, top) /\ EnvelopeFits(ev, chain, sec, top)
        BY <1>1, <2>2, <3>1 DEF Known, DeviceFits, MessageFits
      <4>2. group[d].published /\ d \in group[d].members
        BY <1>1, <1>2, <1>6, <4>1, AbsentAssumption DEF PhoneFits, GroupFits
      <4>3. Tracks(cand, chain, sec, top) /\ d \in cand.members
        BY <1>1, <1>2, <4>1, <4>2 DEF EnvelopeFits, Tracks
      <4>. HIDE DEF cand
      <4>. QED BY <1>3, <1>6, <4>3 DEF CheckFits
    <3>. HIDE DEF cand
    <3>. QED BY <1>3, <1>5, <1>6, <3>1 DEF TaskFits, IsTrue
  <2>3. IsTrue(d)' => PhoneFits(d, sec, top)'
    BY <1>5, <1>6, <2>1, PhoneStays
  <2>. HIDE DEF cand
  <2>. QED BY <1>3, <1>5, <1>6, <2>1, <2>2, <2>3, Forward
<1>7. CASE /\ ~cand.published /\ CommitRemote(d, cand, ev.from)
           /\ events' = events \cup {ack} /\ UNCHANGED tasks
  <2>1. ~(cand.epoch <= group[d].epoch)
    BY <1>1, <1>2, GroupRecord
  <2>2. d \in unverified'
    BY <1>7, <2>1 DEF CommitRemote
  <2>3. /\ unverified \subseteq unverified'
        /\ \A x \in Devices : x # d =>
               /\ group'[x] = group[x] /\ baseline'[x] = baseline[x]
               /\ listening'[x] = listening[x]
    <3>. HIDE DEF cand
    <3>. QED BY <1>1, <1>2, <1>5, <1>7, CommitRemoteFits
  <2>. QED BY <1>4, <1>5, <1>7, <2>2, <2>3, GoesAlone
<1>. QED BY <1>6, <1>7 DEF OpenEnvelope

LEMMA CheckedWithChainKnown ==
    ASSUME TypeOK, NEW sec, NEW top \in Nat, Known(sec, top), NEW t \in tasks,
           CheckedWithChain(t)
    PROVE  Known(sec, top)'
<1>. PICK d : d = t.dev
  OBVIOUS
<1>1. /\ t \in Checks /\ t.kind \in {"check", "rekey"} /\ d \in Devices /\ t.from \in Devices
      /\ t.cand \in Groups /\ t.commitment \in Commitments /\ group[d] \in Groups
  BY TaskKinds DEF CheckedWithChain, Checks
<1>2. tasks' \subseteq tasks /\ UNCHANGED <<chain, saved, pending>>
  BY DEF CheckedWithChain
<1>3. \A ev \in events' : ev \in events \/ ev.type \notin {"invitation", "update", "envelope"}
  BY DEF CheckedWithChain, Ack
<1>4. CASE t.commitment \in Views /\ CommitRemote(d, t.cand, t.from)
  <2>1. ASSUME IsTrue(d), IsTrue(t.from) PROVE GroupFits(d, t.cand, chain, sec, top)
    <3>1. CheckFits(t, chain, sec, top)
      BY <1>1, <2>1 DEF Known, DeviceFits, TaskFits
    <3>2. ASSUME t.kind = "rekey" PROVE t.cand.members = chain[t.cand.epoch + 1].members
      <4>1. t.commitment = Commitment(t.cand)
        BY <3>1, <3>2 DEF CheckFits
      <4>2. t.commitment = chain[t.commitment.epoch + 1]
        BY <1>4, ChainFacts
      <4>3. t.commitment.members = t.cand.members /\ t.commitment.epoch = t.cand.epoch
        BY <1>1, <4>1, CommitmentRecord
      <4>. QED BY <4>2, <4>3
    <3>3. t.cand.members = chain[t.cand.epoch + 1].members \cup {d}
      BY <1>1, <3>1, <3>2 DEF CheckFits
    <3>. QED BY <3>1, <3>3 DEF CheckFits, GroupFits
  <2>2. /\ unverified \subseteq unverified'
        /\ \A x \in Devices : x # d =>
                 /\ group'[x] = group[x] /\ baseline'[x] = baseline[x]
                 /\ listening'[x] = listening[x]
        /\ IsTrue(d)' =>
                 /\ PhoneFits(d, sec, top)'
                 /\ group[d].published => group'[d].published
                 /\ \A n \in Nat : n <= group[d].epoch => n <= group'[d].epoch
    BY <1>1, <1>2, <1>4, <2>1, CommitRemoteFits
  <2>3. \A v \in tasks' : v \in tasks
    BY <1>2
  <2>. QED BY <1>1, <1>2, <1>3, <2>2, <2>3, Forward
<1>5. CASE UNCHANGED <<group, baseline, listening, events, unverified>>
  BY <1>2, <1>5, Quiet
<1>. QED BY <1>4, <1>5 DEF CheckedWithChain


\* The first true device to install what the chain has accepted is at a later
\* epoch than it was, and moves top up.
LEMMA InstallMovesUp ==
    ASSUME TypeOK, NEW sec, NEW top \in Nat, Known(sec, top), NEW t \in tasks, Install(t),
           IsTrue(t.dev)
    PROVE  /\ t.cand \in Groups /\ TransitionFits(t, chain, sec, top)
           /\ PhoneFits(t.dev, sec, top)
           /\ group[t.dev] \in Groups /\ group[t.dev].epoch < top /\ t.cand.epoch = top
           /\ top < Len(chain)
<1>1. /\ t \in Transitions /\ t.kind = "transition" /\ t.phase = "accepted" /\ t.dev \in Devices
      /\ group[t.dev] \in Groups /\ group[t.dev] # NoGroup
  BY TaskKinds, AbsentAssumption DEF Install
<1>2. TransitionFits(t, chain, sec, top) /\ PhoneFits(t.dev, sec, top)
  BY <1>1 DEF Known, DeviceFits, TaskFits
<1>3. group[t.dev].epoch < top
  BY <1>1, <1>2 DEF PhoneFits, GroupFits, Tracks
<1>. QED BY <1>1, <1>2, <1>3 DEF TransitionFits, Transitions

LEMMA InstallKnown ==
    ASSUME TypeOK, NEW sec \in [Nat -> Nat], NEW top \in Nat, top <= Len(chain),
           Known(sec, top), NEW t \in tasks, Install(t)
    PROVE  KnownNext(sec, top)
<1>. DEFINE d == t.dev
            u == [t EXCEPT !.phase = "installed"]
<1>1. /\ t \in Transitions /\ d \in Devices /\ t.kind = "transition" /\ t.phase = "accepted"
      /\ t.cand \in Groups
  BY TaskKinds DEF Install, Transitions
<1>2. /\ u \in Transitions /\ u.phase = "installed" /\ u.kind = "transition" /\ u.dev = d
      /\ u.from = t.from /\ u.cand = t.cand /\ u.added = t.added /\ u.gone = t.gone
      /\ u.base = t.base
  BY <1>1, PhaseFacts
<1>3. /\ tasks' = (tasks \ {t}) \cup {u}
      /\ group' = [group EXCEPT ![d] = t.cand]
      /\ baseline' = [baseline EXCEPT ![d] = Commitment(t.cand)]
      /\ UNCHANGED <<chain, saved, listening, events, pending, unverified>>
  BY DEF Install, Change, history
<1>4. /\ group'[d] = t.cand /\ baseline'[d] = Commitment(t.cand)
      /\ \A x \in Devices : x # d => group'[x] = group[x] /\ baseline'[x] = baseline[x]
  BY <1>1, <1>3 DEF TypeOK, PhonesTyped
<1>. HIDE DEF u
<1>5. CASE ~IsTrue(d)
  <2>1. ~IsTrue(d)'
    BY <1>3, <1>5 DEF IsTrue
  <2>2. \A v \in tasks' : v \in tasks \/ v = u
    BY <1>3
  <2>3. Known(sec, top)'
    <3>. HIDE DEF d
    <3>. QED BY <1>1, <1>2, <1>3, <1>4, <2>1, <2>2, Forward
  <2>. QED BY <1>3, <2>3 DEF KnownNext, Moves
<1>6. CASE IsTrue(d)
  <2>1. /\ TransitionFits(t, chain, sec, top) /\ PhoneFits(d, sec, top)
        /\ group[d] \in Groups /\ group[d].epoch < top /\ t.cand.epoch = top
        /\ top < Len(chain)
    BY <1>6, InstallMovesUp
  <2>. DEFINE top2 == top + 1
  <2>2. top2 \in Nat /\ top < top2 /\ top2 <= Len(chain')
    <3>1. Len(chain) \in Nat /\ top < Len(chain) /\ chain' = chain
      BY <1>3, <2>1, ChainFacts
    <3>2. \A n \in Nat : top < n => top + 1 <= n
      OBVIOUS
    <3>. QED BY <3>1, <3>2
  <2>. HIDE DEF top2
  <2>3. Extends(chain, sec, top, chain', sec, top2)
    BY <1>3, <2>2 DEF Extends
  <2>4. \A v \in tasks : Accepted(v) => v = t
    BY <1>1, <1>6 DEF Known, OneAccepted, Accepted
  <2>5. OneAccepted'
    <3>1. \A v : Accepted(v)' <=> Accepted(v)
      BY <1>3 DEF Accepted, IsTrue
    <3>2. \A v \in tasks' : ~Accepted(v)
      BY <1>2, <1>3, <2>4 DEF Accepted
    <3>. QED BY <3>1, <3>2 DEF OneAccepted
  <2>6. /\ Tracks(t.cand, chain, sec, top2) /\ t.cand.published /\ d \in t.cand.members
        /\ t.cand.members = chain[t.cand.epoch + 1].members
    <3>1. Commitment(t.cand) = chain[t.cand.epoch + 1] /\ t.cand.secret = sec[t.cand.epoch]
      BY <1>1, <2>1 DEF TransitionFits
    <3>2. Commitment(t.cand).members = t.cand.members /\ Commitment(t.cand).salt = t.cand.salt
      BY <1>1, CommitmentRecord
    <3>3. t.cand.published /\ d \in t.cand.members
      BY <2>1 DEF TransitionFits, ShapeFits
    <3>. QED BY <2>1, <2>2, <3>1, <3>2, <3>3 DEF Tracks
  <2>7. TaskFits(u, sec, top2)'
    <3>1. Tracks(t.from, chain', sec, top2) /\ chain'[t.from.epoch + 1] = chain[t.from.epoch + 1]
      BY <1>1, <2>1, <2>2, <2>3, TracksKeeps DEF TransitionFits, Transitions
    <3>2. ShapeFits(u)
      BY <1>2, <2>1 DEF TransitionFits, ShapeFits
    <3>3. t.from.members = chain[t.from.epoch + 1].members
      BY <1>1, <2>1 DEF TransitionFits
    <3>4. TransitionFits(u, chain', sec, top2)
      BY <1>2, <1>3, <2>6, <3>1, <3>2, <3>3 DEF TransitionFits
    <3>5. group'[d].published /\ u.cand.epoch <= group'[d].epoch
      BY <1>2, <1>4, <2>1, <2>6
    <3>. QED BY <1>2, <3>4, <3>5 DEF TaskFits
  <2>8. PhoneFits(d, sec, top2)'
    <3>1. saved[d] \in Groups \cup {NoGroup} /\ t.cand # NoGroup
      BY <1>1, PhoneFacts, AbsentAssumption
    <3>2. GroupFits(d, saved[d], chain', sec, top2)
      <4>1. GroupFits(d, saved[d], chain, sec, top)
        BY <2>1 DEF PhoneFits
      <4>2. CASE saved[d] = NoGroup
        BY <4>2 DEF GroupFits
      <4>3. CASE saved[d] \in Groups
        <5>1. saved[d] \in Groups \cup {NoGroup}
          BY <4>3
        <5>. HIDE DEF d
        <5>. QED BY ONLY top \in Nat, <2>2, <2>3, <4>1, <5>1, GroupFitsKeeps
      <4>. QED BY <3>1, <4>2, <4>3
    <3>3. GroupFits(d, t.cand, chain', sec, top2)
      BY <1>3, <2>6 DEF GroupFits
    <3>4. \A r \in pending[d] : RecordFits(r, chain', sec, top2)
      <4>1. \A r \in pending[d] : r \in Records /\ RecordFits(r, chain, sec, top)
        BY <1>1, <2>1, RecordFacts DEF PhoneFits
      <4>. QED BY ONLY top \in Nat, <2>2, <2>3, <4>1, RecordFitsKeeps
    <3>5. ASSUME listening[d] # NoKey PROVE listening[d][2] <= t.cand.epoch
      <4>. DEFINE n == listening[d][2]
                  e == group[d].epoch
      <4>1. n \in Nat /\ e \in Nat /\ n <= e /\ e < top
        BY <1>1, <2>1, <3>5, PhoneFacts, GroupRecord DEF PhoneFits, Keyed
      <4>. HIDE DEF n, e
      <4>2. n <= top
        BY <4>1
      <4>. QED BY <2>1, <4>2 DEF n
    <3>. QED BY <1>3, <1>4, <2>6, <3>1, <3>2, <3>3, <3>4, <3>5 DEF PhoneFits
  <2>9. ASSUME NEW v \in tasks', v \in tasks, IsTrue(v.dev)
        PROVE  TaskFits(v, sec, top2)'
    <3>1. v.dev \in Devices /\ TaskFits(v, sec, top)
      BY <2>9, TaskKinds DEF Known, DeviceFits
    <3>2. v # t
      <4>1. t # u
        BY <1>1, <1>2
      <4>. QED BY <1>3, <4>1
    <3>3. ~(v.kind = "transition" /\ v.phase = "accepted")
      BY <2>4, <2>9, <3>2 DEF Accepted
    <3>4. /\ group[v.dev].published => group'[v.dev].published
          /\ \A n \in Nat : n <= group[v.dev].epoch => n <= group'[v.dev].epoch
      <4>1. CASE v.dev # d
        BY <1>4, <3>1, <4>1
      <4>2. CASE v.dev = d
        <5>. DEFINE e == group[d].epoch
        <5>1. e \in Nat /\ e < top
          BY <2>1, GroupRecord
        <5>. HIDE DEF e
        <5>2. \A n \in Nat : n <= e => n <= top
          BY <5>1
        <5>. QED BY <1>4, <2>1, <2>6, <4>2, <5>2 DEF e
      <4>. QED BY <4>1, <4>2
    <3>. QED BY <1>3, <2>2, <2>3, <2>9, <3>1, <3>3, <3>4, TaskKeeps
  <2>10. ASSUME NEW x \in Devices, IsTrue(x)' PROVE DeviceFits(x, sec, top2)'
    <3>1. IsTrue(x) /\ DeviceFits(x, sec, top) /\ PhoneFits(x, sec, top)
      BY <1>3, <2>10 DEF Known, IsTrue, DeviceFits
    <3>2. PhoneFits(x, sec, top2)'
      <4>1. CASE x = d
        BY <2>8, <4>1
      <4>2. CASE x # d
        BY <1>3, <1>4, <2>2, <2>3, <3>1, <4>2, PhoneKeeps
      <4>. QED BY <4>1, <4>2
    <3>3. ASSUME NEW v \in tasks', v.dev = x PROVE TaskFits(v, sec, top2)'
      BY <1>3, <2>7, <2>9, <3>1, <3>3
    <3>4. ASSUME NEW ev \in events', ev.type \in {"invitation", "update", "envelope"}, ev.from = x
          PROVE  MessageFits(ev, sec, top2)'
      <4>1. ev \in events /\ MessageFits(ev, sec, top)
        BY <1>3, <3>1, <3>4 DEF DeviceFits
      <4>. QED BY <2>2, <2>3, <4>1, MessageKeeps
    <3>. QED BY <3>2, <3>3, <3>4 DEF DeviceFits
  <2>11. Known(sec, top2)'
    BY <2>5, <2>10 DEF Known
  <2>12. Moves(sec, top, sec, top2)
    BY <1>6, <2>2 DEF Moves, top2
  <2>. QED BY <2>2, <2>11, <2>12 DEF KnownNext
<1>. QED BY <1>5, <1>6


LEMMA NextKnown ==
    ASSUME TypeOK, [Next]_vars, NEW sec \in [Nat -> Nat], NEW top \in Nat, top <= Len(chain),
           Known(sec, top)
    PROVE  KnownNext(sec, top)
<1>1. ASSUME Known(sec, top)', chain' = chain
      PROVE  KnownNext(sec, top)
  BY <1>1 DEF KnownNext, Moves
<1>2. ASSUME NEW d \in Devices, RemoveSomeone(d) \/ RotateGroupKey(d) \/ Restart(d)
      PROVE  Known(sec, top)' /\ chain' = chain
  BY <1>2, RemoveSomeoneKnown, RotateGroupKeyKnown, RestartKnown
     DEF RemoveSomeone, RotateGroupKey, Restart, Transition
<1>3. ASSUME NEW d \in Devices, NEW m \in Devices, Invite(d, m)
      PROVE  Known(sec, top)' /\ chain' = chain
  BY <1>3, InviteKnown DEF Invite
<1>4. ASSUME NEW d \in Devices, NEW r \in pending[d],
             ResendPendingRekeys(d, r) \/ ExpirePendingRekey(d, r)
      PROVE  Known(sec, top)' /\ chain' = chain
  BY <1>4, ResendPendingRekeysKnown, ExpirePendingRekeyKnown
     DEF ResendPendingRekeys, ExpirePendingRekey
<1>5. ASSUME NEW d \in Devices, NEW ev \in events,
             AcceptInvitation(d, ev) \/ Hear(d, ev) \/ OpenEnvelope(d, ev)
      PROVE  Known(sec, top)' /\ chain' = chain
  BY <1>5, AcceptInvitationKnown, HearKnown, OpenEnvelopeKnown
     DEF AcceptInvitation, Hear, OpenEnvelope, MemberJoined, Transition, ApplyStateUpdate,
         RemovalNoticed, RekeyAcked
<1>6. ASSUME NEW t \in tasks,
             \/ AnswerLost(t) \/ Announce(t)
             \/ SavePendingRekey(t) \/ CheckedWithChain(t) \/ ForkResolved(t)
      PROVE  Known(sec, top)' /\ chain' = chain
  BY <1>6, AnswerLostKnown, AnnounceKnown, SavePendingRekeyKnown, CheckedWithChainKnown,
     ForkResolvedKnown DEF AnswerLost, Announce, SavePendingRekey, CheckedWithChain, ForkResolved
<1>7. ASSUME NEW ev \in events, LoseEnvelope(ev)
      PROVE  Known(sec, top)' /\ chain' = chain
  BY <1>7, LoseEnvelopeKnown DEF LoseEnvelope
<1>8. CASE UNCHANGED vars
  <2>1. Known(sec, top)' /\ chain' = chain
    BY <1>8, Quiet DEF vars, history
  <2>. QED BY <1>1, <2>1
<1>. QED BY <1>1, <1>2, <1>3, <1>4, <1>5, <1>6, <1>7, <1>8, ChainDecidesKnown, InstallKnown DEF Next

\* In every reachable state there are a secret for each epoch and a first epoch
\* that no true device has reached, such that each true device has, is about to
\* install and has told the others what the chain says of an earlier epoch, and
\* at most one change that the chain has accepted is still to be installed.
THEOREM SyncInvariant == Spec => []SyncInv
<1>1. Init => SyncInv
  BY InitKnown
<1>2. SyncInv /\ [Next]_vars => SyncInv'
  <2>. SUFFICES ASSUME SyncInv, [Next]_vars PROVE SyncInv'
    OBVIOUS
  <2>1. TypeOK /\ TypeOK'
    BY NextTyped DEF SyncInv
  <2>2. PICK sec \in [Nat -> Nat], top \in Nat : top <= Len(chain) /\ Known(sec, top)
    BY DEF SyncInv
  <2>3. \E sec2 \in [Nat -> Nat], top2 \in Nat : top2 <= Len(chain') /\ Known(sec2, top2)'
    BY <2>1, <2>2, NextKnown DEF KnownNext
  <2>. QED BY <2>1, <2>3 DEF SyncInv
<1>. QED BY <1>1, <1>2, PTL DEF Spec

-------------------------------------------------------------------------------
(* What follows from it.                                                   *)

LEMMA ChainAtFacts ==
    ASSUME TypeOK, NEW n \in Nat, n + 1 \in 1 .. Len(chain)
    PROVE  chain[n + 1] \in Commitments /\ chain[n + 1].epoch = n
<1>1. chain \in Seq(Commitments) /\ \A i \in 1 .. Len(chain) : chain[i].epoch = i - 1
  BY ChainFacts DEF TypeOK, ChainTyped
<1>2. \A i \in 1 .. Len(chain) : chain[i] \in Commitments
  BY <1>1
<1>3. (n + 1) - 1 = n
  OBVIOUS
<1>. QED BY <1>1, <1>2, <1>3

LEMMA SameCommitment ==
    ASSUME NEW a \in Commitments, NEW b \in Commitments,
           a.members = b.members, a.epoch = b.epoch, a.salt = b.salt
    PROVE  a = b
BY DEF Commitments

\* A group that has the chain's members and salt is the one it has committed to.
LEMMA TrackedCommitment ==
    ASSUME TypeOK, NEW sec, NEW top \in Nat, top <= Len(chain), NEW g \in Groups,
           Tracks(g, chain, sec, top)
    PROVE  /\ g.epoch \in Nat /\ g.epoch <= OnChain.epoch
           /\ g.epoch + 1 \in 1 .. Len(chain)
           /\ g.members = chain[g.epoch + 1].members => Commitment(g) = chain[g.epoch + 1]
<1>. DEFINE e == g.epoch
            last == Len(chain)
<1>1. e \in Nat /\ e < top /\ top <= last /\ last \in Nat /\ OnChain.epoch = last - 1
  BY GroupRecord, ChainFacts DEF Tracks
<1>. HIDE DEF e, last
<1>2. e + 1 \in 1 .. last /\ e <= last - 1
  BY <1>1
<1>3. chain[e + 1] \in Commitments /\ chain[e + 1].epoch = e
  BY <1>1, <1>2, ChainAtFacts DEF last
<1>4. /\ Commitment(g) \in Commitments /\ Commitment(g).members = g.members
      /\ Commitment(g).epoch = e /\ Commitment(g).salt = g.salt
  BY CommitmentRecord DEF e
<1>5. g.salt = chain[e + 1].salt
  BY DEF Tracks, e
<1>6. g.members = chain[e + 1].members => Commitment(g) = chain[e + 1]
  BY <1>3, <1>4, <1>5, SameCommitment
<1>. QED BY <1>1, <1>2, <1>6 DEF e, last

LEMMA AgreementFollows ==
    ASSUME SyncInv
    PROVE  MembersAgreeWithChain
<1>. PICK sec \in [Nat -> Nat], top \in Nat : top <= Len(chain) /\ Known(sec, top)
  BY DEF SyncInv
<1>0. TypeOK
  BY DEF SyncInv
<1>. DEFINE settled == {d \in Devices \ unverified :
                            group[d] # NoGroup /\ group[d].published}
            counted == {d \in settled : d \in ChainAt(group[d].epoch).members}
<1>1. ASSUME NEW d \in settled
      PROVE  /\ d \in Devices /\ group[d] \in Groups /\ Tracks(group[d], chain, sec, top)
             /\ group[d].members = chain[group[d].epoch + 1].members \cup {d}
  <2>1. IsTrue(d) /\ group[d] # NoGroup /\ group[d].published /\ d \in Devices
    BY DEF IsTrue
  <2>2. GroupFits(d, group[d], chain, sec, top)
    BY <2>1 DEF Known, DeviceFits, PhoneFits
  <2>. QED BY <1>0, <2>1, <2>2, PhoneFacts DEF GroupFits
<1>2. ASSUME NEW d \in settled
      PROVE  /\ group[d].epoch <= OnChain.epoch
             /\ group[d].members = chain[group[d].epoch + 1].members =>
                   Commitment(group[d]) = chain[group[d].epoch + 1]
  BY <1>0, <1>1, TrackedCommitment
<1>3. ASSUME NEW d \in counted PROVE Commitment(group[d]) = ChainAt(group[d].epoch)
  <2>1. d \in settled /\ d \in chain[group[d].epoch + 1].members
    BY DEF ChainAt
  <2>2. group[d].members = chain[group[d].epoch + 1].members
    <3>. DEFINE known == chain[group[d].epoch + 1].members
    <3>1. group[d].members = known \cup {d} /\ d \in known
      BY <1>1, <2>1
    <3>. HIDE DEF known
    <3>2. known \cup {d} = known
      BY <3>1
    <3>. QED BY <3>1, <3>2 DEF known
  <2>. QED BY <1>2, <2>1, <2>2 DEF ChainAt
<1>4. ASSUME NEW d \in counted, NEW m \in counted, group[d].epoch = group[m].epoch
      PROVE  group[d].secret = group[m].secret
  BY <1>1, <1>4 DEF Tracks
<1>. HIDE DEF settled
<1>. QED BY <1>2, <1>3, <1>4 DEF MembersAgreeWithChain, settled

\* Devices that have followed the chain agree with it and with each other.
THEOREM MembersAgreeWithChainAlways == Spec => []MembersAgreeWithChain
<1>1. SyncInv => MembersAgreeWithChain
  BY AgreementFollows
<1>. QED BY <1>1, SyncInvariant, PTL


Onward(d) ==
    group[d] # NoGroup =>
       \/ group'[d].epoch >= group[d].epoch
       \/ faults' > faults
       \/ d \in unverified'

\* A device whose group a step leaves alone is not taken back.
LEMMA StaysOnward ==
    ASSUME TypeOK, NEW d \in Devices, group'[d] = group[d]
    PROVE  Onward(d)
<1>. SUFFICES ASSUME group[d] # NoGroup PROVE group'[d].epoch >= group[d].epoch
  BY DEF Onward
<1>. DEFINE e == group[d].epoch
<1>1. e \in Nat
  BY PhoneFacts, GroupRecord
<1>. HIDE DEF e
<1>2. e >= e
  BY <1>1
<1>. QED BY <1>2 DEF e

\* Nor is any, if the one that changes moves forward or goes on alone.
LEMMA OneOnward ==
    ASSUME TypeOK, NEW d \in Devices, Onward(d),
           \A x \in Devices : x # d => group'[x] = group[x]
    PROVE  \A x \in Devices : Onward(x)
BY StaysOnward

LEMMA TransitionOnward ==
    ASSUME TypeOK, NEW d \in Devices, NEW cand, NEW added, NEW gone,
           Transition(d, cand, added, gone)
    PROVE  \A x \in Devices : Onward(x)
<1>1. CASE group' = group
  BY <1>1, StaysOnward
<1>2. CASE group' = [group EXCEPT ![d] = cand] /\ unverified' = unverified \cup {d}
  <2>1. \A x \in Devices : x # d => group'[x] = group[x]
    BY <1>2 DEF TypeOK, PhonesTyped
  <2>. QED BY <1>2, <2>1, OneOnward DEF Onward
<1>. QED BY <1>1, <1>2 DEF Transition

LEMMA CommitRemoteOnward ==
    ASSUME TypeOK, NEW d \in Devices, group[d] \in Groups, NEW cand \in Groups, NEW sender,
           CommitRemote(d, cand, sender)
    PROVE  \A x \in Devices : Onward(x)
<1>1. CASE group' = group
  BY <1>1, StaysOnward
<1>2. CASE group' = [group EXCEPT ![d] = cand] /\ ~(cand.epoch <= group[d].epoch)
  <2>1. group'[d] = cand /\ \A x \in Devices : x # d => group'[x] = group[x]
    BY <1>2 DEF TypeOK, PhonesTyped
  <2>2. cand.epoch >= group[d].epoch
    BY <1>2, GroupRecord
  <2>. QED BY <2>1, <2>2, OneOnward DEF Onward
<1>. QED BY <1>1, <1>2 DEF CommitRemote

LEMMA AdoptOnward ==
    ASSUME TypeOK, NEW d \in Devices, NEW update, NEW e, Adopt(d, update, e)
    PROVE  \A x \in Devices : Onward(x)
<1>1. unverified' = unverified \cup {d} /\ \A x \in Devices : x # d => group'[x] = group[x]
  BY DEF Adopt, TypeOK, PhonesTyped
<1>. QED BY <1>1, OneOnward DEF Onward

LEMMA AcceptInvitationOnward ==
    ASSUME TypeOK, NEW d \in Devices, NEW ev, AcceptInvitation(d, ev)
    PROVE  \A x \in Devices : Onward(x)
<1>1. group[d] = NoGroup /\ \A x \in Devices : x # d => group'[x] = group[x]
  BY DEF AcceptInvitation, TypeOK, PhonesTyped
<1>. QED BY <1>1, OneOnward DEF Onward

LEMMA RestartOnward ==
    ASSUME TypeOK, NEW d \in Devices, Restart(d)
    PROVE  \A x \in Devices : Onward(x)
BY DEF Restart, Fault, Onward, TypeOK, HistoryTyped

LEMMA InstallOnward ==
    ASSUME TypeOK, NEW sec, NEW top \in Nat, Known(sec, top), NEW t \in tasks, Install(t)
    PROVE  \A x \in Devices : Onward(x)
<1>1. /\ t.dev \in Devices /\ group' = [group EXCEPT ![t.dev] = t.cand]
      /\ unverified' = unverified
  BY TaskKinds DEF Install, history
<1>2. group'[t.dev] = t.cand /\ \A x \in Devices : x # t.dev => group'[x] = group[x]
  BY <1>1 DEF TypeOK, PhonesTyped
<1>3. CASE ~IsTrue(t.dev)
  BY <1>1, <1>2, <1>3, OneOnward DEF Onward, IsTrue
<1>4. CASE IsTrue(t.dev)
  <2>. DEFINE e == group[t.dev].epoch
  <2>1. e \in Nat /\ e < top /\ t.cand.epoch = top
    BY <1>4, InstallMovesUp, GroupRecord
  <2>. HIDE DEF e
  <2>2. top >= e
    BY <2>1
  <2>3. group'[t.dev].epoch >= group[t.dev].epoch
    BY <1>2, <2>1, <2>2 DEF e
  <2>. QED BY <1>1, <1>2, <2>3, OneOnward DEF Onward
<1>. QED BY <1>3, <1>4

LEMMA HearOnward ==
    ASSUME TypeOK, NEW d \in Devices, NEW ev \in events, Hear(d, ev)
    PROVE  \A x \in Devices : Onward(x)
<1>1. group[d] \in Groups
  BY HeardFacts DEF Hear
<1>2. CASE ev.type = "joined" /\ MemberJoined(d, ev)
  BY <1>2, TransitionOnward DEF MemberJoined
<1>3. CASE ev.type = "update" /\ ApplyStateUpdate(d, ev)
  <2>1. ev \in Updates /\ ev.epoch \in Nat
    BY <1>3, EventTypes DEF Updates
  <2>. DEFINE cand == Updated(group[d], ev, ev.epoch)
  <2>2. cand \in Groups
    BY <1>1, <2>1, UpdatedFacts
  <2>3. \/ group' = group \/ Adopt(d, ev, group[d].epoch + 1) \/ CommitRemote(d, cand, ev.from)
    BY <1>3 DEF ApplyStateUpdate, SameEpoch, LaterEpoch
  <2>. HIDE DEF cand
  <2>. QED BY <1>1, <2>2, <2>3, StaysOnward, AdoptOnward, CommitRemoteOnward
<1>4. CASE ev.type = "notice" /\ RemovalNoticed(d, ev)
  <2>1. unverified' = unverified \cup {d} /\ \A x \in Devices : x # d => group'[x] = group[x]
    BY <1>4 DEF RemovalNoticed, TypeOK, PhonesTyped
  <2>. QED BY <2>1, OneOnward DEF Onward
<1>5. CASE ev.type = "ack" /\ RekeyAcked(d, ev)
  BY <1>5, StaysOnward DEF RekeyAcked
<1>. QED BY <1>2, <1>3, <1>4, <1>5 DEF Hear

LEMMA OpenEnvelopeOnward ==
    ASSUME TypeOK, NEW d \in Devices, NEW ev \in events, OpenEnvelope(d, ev)
    PROVE  \A x \in Devices : Onward(x)
<1>. DEFINE cand == Rekeyed(group[d], ev)
<1>1. ev \in Envelopes /\ group[d] \in Groups
  BY EventTypes, PhoneFacts DEF OpenEnvelope
<1>2. cand \in Groups
  BY <1>1, RekeyedFacts
<1>3. group' = group \/ CommitRemote(d, cand, ev.from)
  BY DEF OpenEnvelope
<1>. HIDE DEF cand
<1>. QED BY <1>1, <1>2, <1>3, StaysOnward, CommitRemoteOnward

LEMMA NextOnward ==
    ASSUME SyncInv, [Next]_vars
    PROVE  \A x \in Devices : Onward(x)
<1>0. TypeOK
  BY DEF SyncInv
<1>. PICK sec \in [Nat -> Nat], top \in Nat : top <= Len(chain) /\ Known(sec, top)
  BY DEF SyncInv
<1>1. CASE group' = group
  BY <1>0, <1>1, StaysOnward
<1>2. ASSUME NEW d \in Devices, RemoveSomeone(d) \/ RotateGroupKey(d) \/ Restart(d)
      PROVE  \A x \in Devices : Onward(x)
  BY <1>0, <1>2, TransitionOnward, RestartOnward DEF RemoveSomeone, RotateGroupKey
<1>3. ASSUME NEW d \in Devices, NEW ev \in events,
             AcceptInvitation(d, ev) \/ Hear(d, ev) \/ OpenEnvelope(d, ev)
      PROVE  \A x \in Devices : Onward(x)
  BY <1>0, <1>3, AcceptInvitationOnward, HearOnward, OpenEnvelopeOnward
<1>4. ASSUME NEW t \in tasks, CheckedWithChain(t) \/ ForkResolved(t)
      PROVE  \A x \in Devices : Onward(x)
  <2>1. t.dev \in Devices /\ group[t.dev] \in Groups
    BY <1>0, TaskKinds
  <2>2. \/ group' = group \/ (\E e : Adopt(t.dev, t.update, e))
        \/ t.cand \in Groups /\ CommitRemote(t.dev, t.cand, t.from)
    BY <1>0, <1>4, TaskKinds DEF CheckedWithChain, ForkResolved, Checks
  <2>. QED BY <1>0, <1>1, <2>1, <2>2, AdoptOnward, CommitRemoteOnward
<1>5. ASSUME NEW d \in Devices, NEW m \in Devices, Invite(d, m)
      PROVE  group' = group
  BY <1>5 DEF Invite
<1>6. ASSUME NEW d \in Devices, NEW r \in pending[d],
             ResendPendingRekeys(d, r) \/ ExpirePendingRekey(d, r)
      PROVE  group' = group
  BY <1>6 DEF ResendPendingRekeys, ExpirePendingRekey
<1>7. ASSUME NEW t \in tasks,
             ChainDecides(t) \/ AnswerLost(t) \/ Announce(t) \/ SavePendingRekey(t)
      PROVE  group' = group
  BY <1>7 DEF ChainDecides, AnswerLost, Announce, SavePendingRekey
<1>8. (\E ev \in events : LoseEnvelope(ev)) \/ UNCHANGED vars => group' = group
  BY DEF LoseEnvelope, vars
<1>. QED BY <1>0, <1>1, <1>2, <1>3, <1>4, <1>5, <1>6, <1>7, <1>8, InstallOnward DEF Next

\* No message and no answer takes a device back that has followed the chain.
THEOREM EpochsMoveForwardAlways == Spec => EpochsMoveForward
<1>. DEFINE Forwards == \A d \in Devices :
                           group[d] # NoGroup =>
                              \/ group'[d].epoch >= group[d].epoch
                              \/ faults' > faults
                              \/ d \in unverified'
<1>1. SyncInv /\ [Next]_vars => [Forwards]_vars
  BY NextOnward DEF Onward
<1>2. EpochsMoveForward <=> [][Forwards]_vars
  BY DEF EpochsMoveForward
<1>. HIDE DEF Forwards
<1>3. Spec => [][Forwards]_vars
  BY <1>1, SyncInvariant, PTL DEF Spec
<1>. QED BY <1>2, <1>3


\* A device or a coroutine has the chain's state: no message is needed for it.
HeldBy(d) == group[d] # NoGroup /\ Commitment(group[d]) = OnChain

HeldIn(t) == /\ t.kind = "transition" /\ Commitment(t.cand) = OnChain
             /\ t.phase \in {"accepted", "installed"}

Holder ==
    \/ orphaned \/ unverified # {}
    \/ \E d \in Devices : HeldBy(d)
    \/ \E t \in tasks : HeldIn(t)

\* Whoever has the chain's state is at its last epoch, and nobody true is at a
\* later one.
LEMMA HeldEpoch ==
    ASSUME TypeOK, NEW g \in Groups, Commitment(g) = OnChain, NEW n \in Nat, n < Len(chain)
    PROVE  n <= g.epoch
<1>1. g.epoch = Len(chain) - 1 /\ Len(chain) \in Nat
  BY ChainFacts, CommitmentRecord
<1>. DEFINE last == Len(chain)
<1>2. last \in Nat /\ n < last /\ g.epoch = last - 1
  BY <1>1
<1>. HIDE DEF last
<1>. QED BY <1>2

\* A step that leaves the groups alone keeps who has the chain's state.
LEMMA GroupsStayHolder ==
    ASSUME Holder, UNCHANGED <<chain, group>>, unverified \subseteq unverified',
           orphaned' \in BOOLEAN, orphaned => orphaned',
           ~orphaned' => \A t \in tasks : HeldIn(t) => t \in tasks'
    PROVE  Holder'
BY DEF Holder, HeldBy, HeldIn, OnChain

\* Nobody holds the chain's state any more only by going on alone.
LEMMA AloneHolder ==
    ASSUME NEW d, d \in unverified'
    PROVE  Holder'
BY DEF Holder

LEMMA TransitionHolder ==
    ASSUME TypeOK, Holder, NEW d \in Devices, NEW cand, NEW added, NEW gone,
           Transition(d, cand, added, gone)
    PROVE  Holder'
<1>1. CASE d \in unverified'
  BY <1>1, AloneHolder
<1>2. CASE UNCHANGED <<group, unverified>>
  <2>1. UNCHANGED <<chain, orphaned>> /\ tasks \subseteq tasks'
    BY DEF Transition
  <2>2. orphaned \in BOOLEAN
    BY DEF TypeOK, HistoryTyped
  <2>. QED BY <1>2, <2>1, <2>2, GroupsStayHolder
<1>. QED BY <1>1, <1>2 DEF Transition

\* A true device that is overtaken by what it installs did not hold the chain's
\* state: what it installs is of a later epoch.
LEMMA CommitRemoteHolder ==
    ASSUME TypeOK, Holder, NEW sec, NEW top \in Nat, top <= Len(chain), NEW d \in Devices,
           group[d] \in Groups, NEW cand \in Groups, NEW sender \in Devices,
           CommitRemote(d, cand, sender), UNCHANGED <<chain, orphaned>>,
           \A t \in tasks : HeldIn(t) => t \in tasks',
           unverified = {} /\ cand.published => Tracks(cand, chain, sec, top)
    PROVE  Holder'
<1>0. orphaned \in BOOLEAN
  BY DEF TypeOK, HistoryTyped
<1>1. CASE UNCHANGED <<group, unverified>>
  BY <1>0, <1>1, GroupsStayHolder
<1>2. CASE ~(cand.epoch <= group[d].epoch)
  <2>1. /\ unverified' = IF cand.published THEN Tainted(d, sender) ELSE unverified \cup {d}
        /\ \A x \in Devices : x # d => group'[x] = group[x]
    BY <1>2 DEF CommitRemote, TypeOK, PhonesTyped
  <2>2. CASE unverified' # {}
    BY <2>2 DEF Holder
  <2>3. CASE unverified' = {}
    <3>1. unverified = {} /\ cand.published
      BY <2>1, <2>3 DEF Tainted
    <3>2. cand.epoch \in Nat /\ cand.epoch < Len(chain)
      <4>. DEFINE e == cand.epoch
                  last == Len(chain)
      <4>1. e \in Nat /\ e < top /\ top <= last /\ last \in Nat
        BY <3>1, GroupRecord, ChainFacts DEF Tracks
      <4>. HIDE DEF e, last
      <4>2. e < last
        BY <4>1
      <4>. QED BY <4>1, <4>2 DEF e, last
    <3>3. ~HeldBy(d)
      BY <1>2, <3>2, HeldEpoch DEF HeldBy
    <3>4. \A x \in Devices : HeldBy(x) => HeldBy(x)'
      BY <2>1, <3>3 DEF HeldBy, OnChain
    <3>5. \A t : HeldIn(t) => HeldIn(t)'
      BY DEF HeldIn, OnChain
    <3>. QED BY <3>1, <3>4, <3>5 DEF Holder
  <2>. QED BY <2>2, <2>3
<1>. QED BY <1>1, <1>2 DEF CommitRemote

LEMMA ChainDecidesHolder ==
    ASSUME TypeOK, Holder, NEW sec, NEW top \in Nat, Known(sec, top), NEW t \in tasks,
           ChainDecides(t)
    PROVE  Holder'
<1>1. /\ t \in Transitions /\ t.kind = "transition" /\ t.phase = "sent" /\ t.dev \in Devices
      /\ UNCHANGED <<group, orphaned, unverified>>
  BY TaskKinds DEF ChainDecides, history
<1>2. CASE tasks' = tasks \ {t} /\ UNCHANGED chain
  <2>1. orphaned \in BOOLEAN
    BY DEF TypeOK, HistoryTyped
  <2>2. \A v \in tasks : HeldIn(v) => v \in tasks'
    BY <1>1, <1>2 DEF HeldIn
  <2>. QED BY <1>1, <1>2, <2>1, <2>2, GroupsStayHolder
<1>3. CASE /\ Acceptable(t) /\ Change(t, "accepted")
           /\ chain' = Append(chain, [Commitment(t.cand) EXCEPT !.epoch = t.base.epoch + 1])
  <2>1. CASE unverified # {}
    BY <1>1, <2>1 DEF Holder
  <2>2. CASE unverified = {}
    <3>. DEFINE u == [t EXCEPT !.phase = "accepted"]
                k == Commitment(t.cand)
    <3>1. u \in tasks' /\ u.phase = "accepted" /\ u.kind = "transition" /\ u.cand = t.cand
      BY <1>1, <1>3, PhaseFacts DEF Change
    <3>2. TransitionFits(t, chain, sec, top)
      BY <1>1, <2>2 DEF Known, DeviceFits, TaskFits, IsTrue
    <3>3. t.from \in Groups /\ t.cand \in Groups
      BY <1>1 DEF Transitions
    <3>4. t.cand.epoch = t.base.epoch + 1
      BY <1>1, <3>2, <3>3, CommitmentRecord DEF TransitionFits, ShapeFits
    <3>5. k \in Commitments /\ k.epoch = t.base.epoch + 1
      BY <3>3, <3>4, CommitmentRecord
    <3>. HIDE DEF k
    <3>6. [k EXCEPT !.epoch = t.base.epoch + 1] = k
      BY <3>5 DEF Commitments
    <3>7. chain' = Append(chain, k) /\ chain \in Seq(Commitments)
      BY <1>3, <3>6 DEF k, TypeOK, ChainTyped
    <3>8. OnChain' = k
      <4>1. Len(Append(chain, k)) = Len(chain) + 1 /\ Append(chain, k)[Len(chain) + 1] = k
        BY ONLY <3>5, <3>7, AppendedFacts
      <4>. QED BY <3>7, <4>1 DEF OnChain
    <3>9. HeldIn(u)'
      BY <3>1, <3>8 DEF HeldIn, k
    <3>. HIDE DEF u
    <3>. QED BY <3>1, <3>9 DEF Holder
  <2>. QED BY <2>1, <2>2
<1>. QED BY <1>2, <1>3 DEF ChainDecides


LEMMA InstallHolder ==
    ASSUME TypeOK, Holder, NEW sec, NEW top \in Nat, Known(sec, top), NEW t \in tasks, Install(t)
    PROVE  Holder'
<1>. DEFINE u == [t EXCEPT !.phase = "installed"]
<1>1. /\ t \in Transitions /\ t.dev \in Devices /\ tasks' = (tasks \ {t}) \cup {u}
      /\ group' = [group EXCEPT ![t.dev] = t.cand]
      /\ UNCHANGED <<chain, orphaned, unverified>>
  BY TaskKinds DEF Install, Change, history
<1>2. u.phase = "installed" /\ u.kind = "transition" /\ u.cand = t.cand
  BY <1>1, PhaseFacts
<1>. HIDE DEF u
<1>3. CASE unverified # {}
  BY <1>1, <1>3 DEF Holder
<1>4. CASE unverified = {}
  <2>1. /\ group[t.dev] \in Groups /\ group[t.dev].epoch < top /\ top < Len(chain)
    BY <1>1, <1>4, InstallMovesUp DEF IsTrue
  <2>2. ~HeldBy(t.dev)
    <3>. SUFFICES ASSUME HeldBy(t.dev) PROVE FALSE
      OBVIOUS
    <3>. DEFINE e == group[t.dev].epoch
    <3>1. top <= e /\ e < top /\ e \in Nat
      BY <2>1, HeldEpoch, GroupRecord DEF HeldBy
    <3>. HIDE DEF e
    <3>. QED BY <3>1
  <2>3. \A x \in Devices : HeldBy(x) => HeldBy(x)'
    <3>1. \A x \in Devices : x # t.dev => group'[x] = group[x]
      BY <1>1 DEF TypeOK, PhonesTyped
    <3>. QED BY <1>1, <2>2, <3>1 DEF HeldBy, OnChain
  <2>4. HeldIn(t) => HeldIn(u)'
    BY <1>1, <1>2 DEF HeldIn, OnChain
  <2>5. \A v : HeldIn(v) => HeldIn(v)'
    BY <1>1 DEF HeldIn, OnChain
  <2>6. \A v \in tasks : v = t \/ v \in tasks'
    BY <1>1
  <2>7. u \in tasks'
    BY <1>1
  <2>8. (\E v \in tasks : HeldIn(v)) => \E v \in tasks' : HeldIn(v)'
    BY <2>4, <2>5, <2>6, <2>7
  <2>. QED BY <1>1, <1>4, <2>3, <2>8 DEF Holder
<1>. QED BY <1>3, <1>4

\* When a change is told to the others its device has it, or a later one.
LEMMA AnnounceHolder ==
    ASSUME TypeOK, Holder, NEW sec, NEW top \in Nat, top <= Len(chain), Known(sec, top),
           NEW t \in tasks, Announce(t)
    PROVE  Holder'
<1>1. /\ t \in Transitions /\ t.dev \in Devices /\ t.phase = "installed" /\ t.kind = "transition"
      /\ t.cand \in Groups /\ group[t.dev] \in Groups
      /\ \A v \in tasks : v = t \/ v \in tasks'
      /\ UNCHANGED <<chain, group, orphaned, unverified>>
  BY TaskKinds DEF Announce, Change, Transitions
<1>2. CASE unverified # {}
  BY <1>1, <1>2 DEF Holder
<1>3. CASE unverified = {}
  <2>. DEFINE g == group[t.dev]
  <2>1. TransitionFits(t, chain, sec, top) /\ t.cand.epoch <= g.epoch /\ g.published
        /\ GroupFits(t.dev, g, chain, sec, top)
    BY <1>1, <1>3 DEF Known, DeviceFits, TaskFits, PhoneFits, IsTrue
  <2>2. /\ Tracks(t.cand, chain, sec, top) /\ Tracks(g, chain, sec, top)
        /\ t.cand.members = chain[t.cand.epoch + 1].members /\ t.dev \in t.cand.members
        /\ g.members = chain[g.epoch + 1].members \cup {t.dev}
    BY <1>1, <2>1, AbsentAssumption DEF TransitionFits, ShapeFits, GroupFits
  <2>3. ASSUME HeldIn(t) PROVE HeldBy(t.dev)
    <3>1. Commitment(t.cand) = OnChain
      BY <2>3 DEF HeldIn
    <3>2. g.epoch \in Nat /\ g.epoch < Len(chain)
      <4>. DEFINE e == g.epoch
                  last == Len(chain)
      <4>1. e \in Nat /\ e < top /\ top <= last /\ last \in Nat
        BY <1>1, <2>2, GroupRecord, ChainFacts DEF Tracks
      <4>. HIDE DEF e, last
      <4>2. e < last
        BY <4>1
      <4>. QED BY <4>1, <4>2 DEF e, last
    <3>3. g.epoch = t.cand.epoch
      <4>. DEFINE e == g.epoch
                  n == t.cand.epoch
      <4>1. e <= n /\ n <= e /\ e \in Nat /\ n \in Nat
        BY <1>1, <2>1, <3>1, <3>2, HeldEpoch, GroupRecord
      <4>. HIDE DEF e, n
      <4>2. e = n
        BY <4>1
      <4>. QED BY <4>2 DEF e, n
    <3>4. g.salt = t.cand.salt
      BY <2>2, <3>3 DEF Tracks
    <3>5. g.members = t.cand.members
      BY <2>2, <3>3
    <3>6. Commitment(g) = Commitment(t.cand)
      BY <3>3, <3>4, <3>5 DEF Commitment
    <3>. QED BY <1>1, <3>1, <3>6, AbsentAssumption DEF HeldBy
  <2>4. \A d : HeldBy(d) => HeldBy(d)'
    BY <1>1 DEF HeldBy, OnChain
  <2>5. \A v : HeldIn(v) => HeldIn(v)'
    BY <1>1 DEF HeldIn, OnChain
  <2>. QED BY <1>1, <1>3, <2>3, <2>4, <2>5 DEF Holder
<1>. QED BY <1>2, <1>3

LEMMA RestartHolder ==
    ASSUME TypeOK, Holder, NEW d \in Devices, Restart(d)
    PROVE  Holder'
<1>1. PICK kept \in {saved[d], group[d]} :
        /\ kept # NoGroup
        /\ group' = [group EXCEPT ![d] = kept]
        /\ orphaned' = (\/ orphaned
                        \/ Commitment(group[d]) = OnChain /\ kept # group[d]
                        \/ \E t \in tasks : /\ t.dev = d /\ t.kind = "transition"
                                            /\ t.phase \in {"accepted", "installed"})
  BY DEF Restart
<1>2. /\ tasks' = {t \in tasks : t.dev # d} /\ UNCHANGED <<chain, unverified>>
  BY DEF Restart
<1>3. group'[d] = kept /\ \A x \in Devices : x # d => group'[x] = group[x]
  BY <1>1 DEF TypeOK, PhonesTyped
<1>4. SUFFICES ASSUME ~orphaned' PROVE Holder'
  BY DEF Holder
<1>5. ~orphaned /\ (Commitment(group[d]) = OnChain => kept = group[d])
  BY <1>1, <1>4
<1>6. \A x \in Devices : HeldBy(x) => HeldBy(x)'
  BY <1>2, <1>3, <1>5 DEF HeldBy, OnChain
<1>7. \A t \in tasks : HeldIn(t) => t \in tasks' /\ HeldIn(t)'
  BY <1>1, <1>2, <1>4 DEF HeldIn, OnChain
<1>. QED BY <1>2, <1>5, <1>6, <1>7 DEF Holder

LEMMA AcceptInvitationHolder ==
    ASSUME TypeOK, Holder, NEW d \in Devices, NEW ev, AcceptInvitation(d, ev)
    PROVE  Holder'
<1>1. /\ group[d] = NoGroup /\ \A x \in Devices : x # d => group'[x] = group[x]
      /\ UNCHANGED <<chain, tasks, orphaned>> /\ unverified \subseteq unverified'
  BY DEF AcceptInvitation, Tainted, TypeOK, PhonesTyped
<1>2. \A x \in Devices : HeldBy(x) => HeldBy(x)'
  BY <1>1 DEF HeldBy, OnChain
<1>3. \A t : HeldIn(t) => HeldIn(t)'
  BY <1>1 DEF HeldIn, OnChain
<1>. QED BY <1>1, <1>2, <1>3 DEF Holder


LEMMA AnswerLostHolder ==
    ASSUME TypeOK, Holder, NEW t \in tasks, AnswerLost(t)
    PROVE  Holder'
<1>1. /\ tasks' = tasks \ {t} /\ orphaned' = (orphaned \/ t.phase = "accepted")
      /\ t.phase \in {"sent", "accepted"} /\ UNCHANGED <<chain, group, unverified>>
  BY DEF AnswerLost
<1>2. orphaned \in BOOLEAN
  BY DEF TypeOK, HistoryTyped
<1>3. CASE t.phase = "accepted"
  BY <1>1, <1>3 DEF Holder
<1>4. CASE t.phase = "sent"
  <2>1. orphaned' \in BOOLEAN /\ (orphaned => orphaned')
    BY <1>1, <1>2
  <2>2. \A v \in tasks : HeldIn(v) => v \in tasks'
    BY <1>1, <1>4 DEF HeldIn
  <2>. QED BY <1>1, <2>1, <2>2, GroupsStayHolder
<1>. QED BY <1>1, <1>3, <1>4

LEMMA CheckedWithChainHolder ==
    ASSUME TypeOK, Holder, NEW sec, NEW top \in Nat, top <= Len(chain), Known(sec, top),
           NEW t \in tasks, CheckedWithChain(t)
    PROVE  Holder'
<1>1. /\ t \in Checks /\ t.kind \in {"check", "rekey"} /\ t.dev \in Devices /\ t.from \in Devices
      /\ t.cand \in Groups /\ group[t.dev] \in Groups
      /\ tasks' = tasks \ {t} /\ UNCHANGED <<chain, orphaned>>
  BY TaskKinds DEF CheckedWithChain, Checks
<1>2. \A v \in tasks : HeldIn(v) => v \in tasks'
  BY <1>1 DEF HeldIn
<1>3. CASE CommitRemote(t.dev, t.cand, t.from)
  <2>1. unverified = {} /\ t.cand.published => Tracks(t.cand, chain, sec, top)
    BY <1>1 DEF Known, DeviceFits, TaskFits, CheckFits, IsTrue
  <2>. QED BY <1>1, <1>2, <1>3, <2>1, CommitRemoteHolder
<1>4. CASE UNCHANGED <<group, unverified>>
  <2>1. orphaned \in BOOLEAN
    BY DEF TypeOK, HistoryTyped
  <2>. QED BY <1>1, <1>2, <1>4, <2>1, GroupsStayHolder
<1>. QED BY <1>3, <1>4 DEF CheckedWithChain

LEMMA ForkResolvedHolder ==
    ASSUME TypeOK, Holder, NEW t \in tasks, ForkResolved(t)
    PROVE  Holder'
<1>1. /\ t.kind = "fork" /\ tasks' = tasks \ {t} /\ UNCHANGED <<chain, orphaned>>
      /\ \/ \E e : Adopt(t.dev, t.update, e)
         \/ UNCHANGED <<group, unverified>>
  BY DEF ForkResolved
<1>2. CASE \E e : Adopt(t.dev, t.update, e)
  BY <1>2, AloneHolder DEF Adopt
<1>3. CASE UNCHANGED <<group, unverified>>
  <2>1. orphaned \in BOOLEAN
    BY DEF TypeOK, HistoryTyped
  <2>2. \A v \in tasks : HeldIn(v) => v \in tasks'
    BY <1>1 DEF HeldIn
  <2>. QED BY <1>1, <1>3, <2>1, <2>2, GroupsStayHolder
<1>. QED BY <1>1, <1>2, <1>3

\* A device that is told and does not ask the chain goes on alone.
LEMMA UnaskedHolder ==
    ASSUME NEW d, NEW cand, NEW sender, ~cand.published, ~(cand.epoch <= group[d].epoch),
           CommitRemote(d, cand, sender)
    PROVE  Holder'
BY AloneHolder DEF CommitRemote

LEMMA HearHolder ==
    ASSUME TypeOK, Holder, NEW d \in Devices, NEW ev \in events, Hear(d, ev)
    PROVE  Holder'
<1>1. group[d] \in Groups /\ orphaned \in BOOLEAN
  BY HeardFacts DEF Hear, TypeOK, HistoryTyped
<1>2. CASE ev.type = "joined" /\ MemberJoined(d, ev)
  BY <1>2, TransitionHolder DEF MemberJoined
<1>3. CASE ev.type = "update" /\ ApplyStateUpdate(d, ev)
  <2>1. ev \in Updates /\ ev.epoch \in Nat
    BY <1>3, EventTypes DEF Updates
  <2>2. UNCHANGED <<chain, orphaned>>
    BY <1>3 DEF ApplyStateUpdate
  <2>. DEFINE cand == Updated(group[d], ev, ev.epoch)
  <2>3. \/ UNCHANGED <<group, unverified>> /\ tasks \subseteq tasks'
        \/ d \in unverified'
        \/ /\ ev.epoch > group[d].epoch /\ ~cand.published
           /\ CommitRemote(d, cand, ev.from)
    BY <1>3 DEF ApplyStateUpdate, SameEpoch, LaterEpoch, Adopt
  <2>4. ev.epoch > group[d].epoch => ~(cand.epoch <= group[d].epoch)
    BY <1>1, <2>1, UpdatedFacts, GroupRecord
  <2>. HIDE DEF cand
  <2>5. CASE UNCHANGED <<group, unverified>> /\ tasks \subseteq tasks'
    BY <1>1, <2>2, <2>5, GroupsStayHolder
  <2>. QED BY <2>3, <2>4, <2>5, AloneHolder, UnaskedHolder
<1>4. CASE ev.type = "notice" /\ RemovalNoticed(d, ev)
  BY <1>4, AloneHolder DEF RemovalNoticed
<1>5. CASE ev.type = "ack" /\ RekeyAcked(d, ev)
  <2>1. UNCHANGED <<chain, group, tasks, orphaned, unverified>>
    BY <1>5 DEF RekeyAcked, history
  <2>. QED BY <1>1, <2>1, GroupsStayHolder
<1>. QED BY <1>2, <1>3, <1>4, <1>5 DEF Hear

LEMMA OpenEnvelopeHolder ==
    ASSUME TypeOK, Holder, NEW d \in Devices, NEW ev \in events, OpenEnvelope(d, ev)
    PROVE  Holder'
<1>1. ev \in Envelopes /\ group[d] \in Groups /\ orphaned \in BOOLEAN
  BY EventTypes, PhoneFacts DEF OpenEnvelope, TypeOK, HistoryTyped
<1>. DEFINE cand == Rekeyed(group[d], ev)
<1>2. UNCHANGED <<chain, orphaned>> /\ ev.epoch > group[d].epoch
  BY DEF OpenEnvelope
<1>3. \/ UNCHANGED <<group, unverified>> /\ tasks \subseteq tasks'
      \/ ~cand.published /\ CommitRemote(d, cand, ev.from)
  BY DEF OpenEnvelope
<1>4. ~(cand.epoch <= group[d].epoch)
  <2>1. cand.epoch = ev.epoch /\ ev.epoch \in Nat /\ group[d].epoch \in Nat
    BY <1>1, RekeyedFacts, GroupRecord DEF Envelopes
  <2>. QED BY <1>2, <2>1
<1>. HIDE DEF cand
<1>5. CASE UNCHANGED <<group, unverified>> /\ tasks \subseteq tasks'
  BY <1>1, <1>2, <1>5, GroupsStayHolder
<1>. QED BY <1>3, <1>4, <1>5, UnaskedHolder

LEMMA NextHolder ==
    ASSUME SyncInv, Holder, [Next]_vars
    PROVE  Holder'
<1>0. TypeOK /\ orphaned \in BOOLEAN
  BY DEF SyncInv, TypeOK, HistoryTyped
<1>. PICK sec \in [Nat -> Nat], top \in Nat : top <= Len(chain) /\ Known(sec, top)
  BY DEF SyncInv
<1>1. CASE UNCHANGED <<chain, group, orphaned, unverified>> /\ \A t \in tasks : HeldIn(t) => t \in tasks'
  BY <1>0, <1>1, GroupsStayHolder
<1>2. ASSUME NEW d \in Devices, RemoveSomeone(d) \/ RotateGroupKey(d) \/ Restart(d)
      PROVE  Holder'
  BY <1>0, <1>2, TransitionHolder, RestartHolder DEF RemoveSomeone, RotateGroupKey
<1>3. ASSUME NEW d \in Devices, NEW ev \in events,
             AcceptInvitation(d, ev) \/ Hear(d, ev) \/ OpenEnvelope(d, ev)
      PROVE  Holder'
  BY <1>0, <1>3, AcceptInvitationHolder, HearHolder, OpenEnvelopeHolder
<1>4. ASSUME NEW t \in tasks,
             \/ ChainDecides(t) \/ AnswerLost(t) \/ Install(t) \/ Announce(t)
             \/ CheckedWithChain(t) \/ ForkResolved(t)
      PROVE  Holder'
  BY <1>0, <1>4, ChainDecidesHolder, AnswerLostHolder, InstallHolder, AnnounceHolder,
     CheckedWithChainHolder, ForkResolvedHolder
<1>5. ASSUME NEW d \in Devices, NEW m \in Devices, Invite(d, m)
      PROVE  Holder'
  BY <1>1, <1>5 DEF Invite, history
<1>6. ASSUME NEW d \in Devices, NEW r \in pending[d],
             ResendPendingRekeys(d, r) \/ ExpirePendingRekey(d, r)
      PROVE  Holder'
  BY <1>1, <1>6 DEF ResendPendingRekeys, ExpirePendingRekey, history
<1>7. ASSUME NEW t \in tasks, SavePendingRekey(t)
      PROVE  Holder'
  BY <1>1, <1>7 DEF SavePendingRekey, history, HeldIn
<1>8. (\E ev \in events : LoseEnvelope(ev)) \/ UNCHANGED vars => Holder'
  BY <1>1 DEF LoseEnvelope, vars, history
<1>. QED BY <1>2, <1>3, <1>4, <1>5, <1>6, <1>7, <1>8 DEF Next

LEMMA InitHolder ==
    ASSUME Init
    PROVE  Holder
<1>. PICK members \in FirstMembers :
        LET g == [epoch |-> 0, members |-> members, salt |-> <<0>>, secret |-> 0,
                  published |-> TRUE]
        IN  /\ chain = <<Commitment(g)>>
            /\ group = [d \in Devices |-> IF d \in members THEN g ELSE NoGroup]
  BY DEF Init
<1>. DEFINE g == [epoch |-> 0, members |-> members, salt |-> <<0>>, secret |-> 0,
                  published |-> TRUE]
<1>1. members \subseteq Devices /\ members # {}
  BY SyncAssumption
<1>2. PICK d \in Devices : d \in members
  BY <1>1
<1>3. g \in Groups
  BY <1>1 DEF Groups, Salts
<1>4. chain = <<Commitment(g)>> /\ group[d] = g
  BY <1>2
<1>. HIDE DEF g
<1>5. OnChain = Commitment(g)
  BY <1>4 DEF OnChain
<1>. QED BY <1>3, <1>4, <1>5, AbsentAssumption DEF Holder, HeldBy

\* The state that the chain has moved to has a holder until somebody goes on
\* alone, an answer is lost or a phone restarts.
THEOREM ChainStateIsKnownAlways == Spec => []ChainStateIsKnown
<1>1. Init => Holder
  BY InitHolder
<1>2. SyncInv /\ Holder /\ [Next]_vars => Holder'
  BY NextHolder
<1>3. Holder => ChainStateIsKnown
  BY DEF Holder, HeldBy, HeldIn, ChainStateIsKnown
<1>. QED BY <1>1, <1>2, <1>3, SyncInvariant, PTL DEF Spec


-------------------------------------------------------------------------------
(***************************************************************************)
(* Who has a secret, on which device or in which message it may be.  A     *)
(* removal's secret is its device's alone until the change is installed.   *)
(***************************************************************************)
Unheard(t) == t.kind = "transition" /\ t.phase \in {"sent", "accepted"} /\ t.gone # {}

HoldsGroup(g, s) == g # NoGroup /\ g.secret = s

HoldsTask(t, x, s) ==
    \/ t.kind = "transition" /\ t.dev = x /\ t.from.secret = s
    \/ /\ t.kind = "transition" /\ ~Unheard(t) /\ t.cand.secret = s
       /\ \/ t.dev = x
          \/ (t.gone # {} \/ t.phase = "told") /\ x \in t.cand.members
    \/ t.kind \in {"check", "rekey"} /\ t.dev = x /\ t.cand.secret = s

HoldsRecord(r, x, s) == x \in r.unacked /\ r.task.cand.secret = s

HoldsMessage(ev, x, s) ==
    \/ ev.type = "envelope" /\ ev.to = x /\ ev.secret = s
    \/ ev.type = "invitation" /\ ev.to = x /\ ev.group.secret = s

\* x has the secret s, or a coroutine, a record or a message may give it to it.
Holds(x, s) ==
    \/ HoldsGroup(group[x], s) \/ HoldsGroup(saved[x], s)
    \/ \E t \in tasks : HoldsTask(t, x, s)
    \/ \E d \in Devices : \E r \in pending[d] : HoldsRecord(r, x, s)
    \/ \E ev \in events : HoldsMessage(ev, x, s)

\* How a step may give s to x: it is new, or x is invited, or a removal is installed.
Gains(x, s) ==
    \/ Holds(x, s)
    \/ s = starts' /\ starts' = starts + 1
    \/ group[x] = NoGroup /\ \E y \in Devices : Holds(y, s)
    \/ \E t \in tasks : /\ Install(t) /\ Unheard(t) /\ s = t.cand.secret
                        /\ x = t.dev \/ x \in t.cand.members

\* Where a device is named as a member.
MentionsTask(t, x) ==
    \/ t.kind = "transition" /\ x \in t.cand.members \cup t.added
    \/ t.kind \in {"check", "rekey"} /\ x \in t.cand.members
    \/ t.kind = "fork" /\ x \in t.update.added

MentionsMessage(ev, x) ==
    \/ ev.type = "joined" /\ x = ev.member
    \/ ev.type = "update" /\ x \in ev.added
    \/ ev.type = "invitation" /\ x \in ev.group.members

Mentions(x) ==
    \/ \E i \in DOMAIN chain : x \in chain[i].members
    \/ \E d \in Devices : \/ group[d] # NoGroup /\ x \in group[d].members
                          \/ saved[d] # NoGroup /\ x \in saved[d].members
    \/ \E t \in tasks : MentionsTask(t, x)
    \/ \E ev \in events : MentionsMessage(ev, x)

\* Nobody is a member who has not got a group.
MembersHaveGroups == \A x \in Devices : Mentions(x) => group[x] # NoGroup

(***************************************************************************)
(* Secrets are numbered as they are made, so those of later epochs are     *)
(* later, and while the secret stays nobody is counted out.  Whoever was a *)
(* member under an earlier secret and holds the one of an epoch is counted *)
(* in at that epoch.                                                       *)
(***************************************************************************)
Entitled(x, s, ch, sec, top) ==
    \A e, i \in Nat :
        e < top /\ i < top /\ sec[e] = s /\ sec[i] < s /\ x \in ch[i + 1].members
        => x \in ch[e + 1].members

Succeeds(i, e, ch, sec) ==
    sec[i] < sec[e] \/ (sec[i] = sec[e] /\ ch[i + 1].members \subseteq ch[e + 1].members)

EpochsInOrder(ch, sec, top) ==
    \A i, e \in Nat : i <= e /\ e < top => Succeeds(i, e, ch, sec)

HoldersEntitled(sec, top) ==
    \A x \in Devices, s \in Nat : Holds(x, s) => s <= starts /\ Entitled(x, s, chain, sec, top)

UnheardIsUnknown(sec, top) ==
    \A t \in tasks : Unheard(t) =>
        /\ t.from.secret < t.cand.secret /\ t.cand.secret <= starts
        /\ \A e \in Nat : e < top => sec[e] # t.cand.secret
        /\ \A x \in Devices : ~Holds(x, t.cand.secret)
        /\ \A u \in tasks : Unheard(u) /\ u.cand.secret = t.cand.secret => u = t

Secrecy(sec, top) ==
    /\ EpochsInOrder(chain, sec, top)
    /\ \A e \in Nat : e < top => sec[e] <= starts
    /\ HoldersEntitled(sec, top)
    /\ UnheardIsUnknown(sec, top)

\* The inductive invariant: SyncInv's secrets are kept.
SecrecyInv ==
    /\ TypeOK /\ MembersHaveGroups
    /\ \E sec \in [Nat -> Nat], top \in Nat :
          top <= Len(chain) /\ Known(sec, top) /\ Secrecy(sec, top)

LEMMA GainsOnly ==
    ASSUME NEW x \in Devices, NEW s,
           HoldsGroup(group'[x], s) => Gains(x, s),
           HoldsGroup(saved'[x], s) => Gains(x, s),
           \A t \in tasks' : t \in tasks \/ (HoldsTask(t, x, s) => Gains(x, s)),
           \A d \in Devices : \A r \in pending'[d] :
               r \in pending[d] \/ (HoldsRecord(r, x, s) => Gains(x, s)),
           \A ev \in events' : ev \in events \/ (HoldsMessage(ev, x, s) => Gains(x, s)),
           Holds(x, s)'
    PROVE  Gains(x, s)
<1>1. \/ HoldsGroup(group'[x], s) \/ HoldsGroup(saved'[x], s)
      \/ \E t \in tasks' : HoldsTask(t, x, s)
      \/ \E d \in Devices : \E r \in pending'[d] : HoldsRecord(r, x, s)
      \/ \E ev \in events' : HoldsMessage(ev, x, s)
  BY DEF Holds
<1>2. \A t \in tasks : HoldsTask(t, x, s) => Gains(x, s)
  BY DEF Holds, Gains
<1>3. \A d \in Devices : \A r \in pending[d] : HoldsRecord(r, x, s) => Gains(x, s)
  BY DEF Holds, Gains
<1>4. \A ev \in events : HoldsMessage(ev, x, s) => Gains(x, s)
  BY DEF Holds, Gains
<1>. QED BY <1>1, <1>2, <1>3, <1>4

\* What a device holds at once.
LEMMA HasHolds ==
    ASSUME NEW x \in Devices, NEW s
    PROVE  /\ HoldsGroup(group[x], s) => Gains(x, s)
           /\ HoldsGroup(saved[x], s) => Gains(x, s)
           /\ \A t \in tasks : HoldsTask(t, x, s) => Gains(x, s)
           /\ \A d \in Devices : \A r \in pending[d] : HoldsRecord(r, x, s) => Gains(x, s)
           /\ \A ev \in events : HoldsMessage(ev, x, s) => Gains(x, s)
BY DEF Holds, Gains

\* A change that a device starts: its secret is the group's, or new.
LEMMA TransitionGains ==
    ASSUME TypeOK, NEW d \in Devices, NEW cand, NEW added, NEW gone,
           group[d] \in Groups, Transition(d, cand, added, gone),
           \/ gone = {} /\ cand.secret = group[d].secret
           \/ gone # {} /\ cand.secret = starts + 1,
           NEW x \in Devices, NEW s, Holds(x, s)'
    PROVE  Gains(x, s)
<1>. DEFINE Task(phase, base) == [kind |-> "transition", dev |-> d, from |-> group[d], cand |-> cand,
                                  added |-> added, gone |-> gone, phase |-> phase, base |-> base]
<1>0. group[d] # NoGroup
  BY AbsentAssumption
<1>1. /\ starts' = starts + 1 /\ UNCHANGED <<saved, events, pending>>
      /\ \A y \in Devices : y # d => group'[y] = group[y]
      /\ group'[d] \in {group[d], cand}
  BY DEF Transition, TypeOK, PhonesTyped
<1>2. PICK phase \in {"sent", "installed"} : \E base : tasks' = tasks \cup {Task(phase, base)}
  BY DEF Transition
<1>. PICK base : tasks' = tasks \cup {Task(phase, base)}
  BY <1>2
<1>3. x = d /\ s = cand.secret => Gains(x, s)
  BY <1>0, <1>1, HasHolds DEF HoldsGroup, Gains
<1>4. HoldsTask(Task(phase, base), x, s) => Gains(x, s)
  <2>1. CASE gone = {}
    <3>1. phase # "told"
      OBVIOUS
    <3>2. HoldsTask(Task(phase, base), x, s) => x = d /\ s \in {group[d].secret, cand.secret}
      BY <2>1, <3>1 DEF HoldsTask
    <3>. QED BY <1>0, <1>3, <3>2, HasHolds DEF HoldsGroup
  <2>2. CASE gone # {}
    <3>1. HoldsTask(Task(phase, base), x, s) => (x = d /\ s = group[d].secret) \/ s = cand.secret
      BY DEF HoldsTask
    <3>2. s = cand.secret => Gains(x, s)
      BY <1>1, <2>2 DEF Gains
    <3>. QED BY <1>0, <3>1, <3>2, HasHolds DEF HoldsGroup
  <2>. QED BY <2>1, <2>2
<1>5. HoldsGroup(group'[x], s) => Gains(x, s)
  BY <1>1, <1>3, HasHolds DEF HoldsGroup
<1>. HIDE DEF Task
<1>. QED BY <1>1, <1>2, <1>4, <1>5, HasHolds, GainsOnly

LEMMA RemoveSomeoneGains ==
    ASSUME TypeOK, NEW d \in Devices, RemoveSomeone(d), NEW x \in Devices, NEW s, Holds(x, s)'
    PROVE  Gains(x, s)
<1>1. PICK m \in group[d].members : Transition(d, RemoveMember(group[d], m), {}, {m})
  BY DEF RemoveSomeone
<1>2. group[d] \in Groups
  BY PhoneFacts DEF RemoveSomeone, IsMember
<1>3. RemoveMember(group[d], m).secret = starts + 1
  BY <1>2 DEF RemoveMember, Groups
<1>. QED BY <1>1, <1>2, <1>3, TransitionGains

LEMMA RotateGroupKeyGains ==
    ASSUME TypeOK, NEW d \in Devices, RotateGroupKey(d), NEW x \in Devices, NEW s, Holds(x, s)'
    PROVE  Gains(x, s)
<1>1. Transition(d, RotateKey(group[d]), {}, {})
  BY DEF RotateGroupKey
<1>2. group[d] \in Groups
  BY PhoneFacts DEF RotateGroupKey, IsMember
<1>3. RotateKey(group[d]).secret = group[d].secret
  BY <1>2 DEF RotateKey, Groups
<1>. QED BY <1>1, <1>2, <1>3, TransitionGains

\* What a step that neither starts nor installs anything new may change.
LEMMA QuietGains ==
    ASSUME UNCHANGED <<group, saved>>, tasks' \subseteq tasks, events' \subseteq events,
           \A d \in Devices : pending'[d] \subseteq pending[d],
           NEW x \in Devices, NEW s, Holds(x, s)'
    PROVE  Gains(x, s)
BY HasHolds, GainsOnly

LEMMA RestartGains ==
    ASSUME TypeOK, NEW d \in Devices, Restart(d), NEW x \in Devices, NEW s, Holds(x, s)'
    PROVE  Gains(x, s)
<1>1. PICK kept \in {saved[d], group[d]} :
         group' = [group EXCEPT ![d] = kept] /\ saved' = [saved EXCEPT ![d] = kept]
  BY DEF Restart
<1>2. tasks' \subseteq tasks /\ UNCHANGED <<events, pending>>
  BY DEF Restart
<1>3. /\ group'[x] \in {group[x], saved[x]}
      /\ saved'[x] \in {group[x], saved[x]}
  BY <1>1 DEF TypeOK, PhonesTyped
<1>. QED BY <1>2, <1>3, HasHolds, GainsOnly

LEMMA InviteGains ==
    ASSUME TypeOK, NEW d \in Devices, NEW m \in Devices, Invite(d, m),
           NEW x \in Devices, NEW s, Holds(x, s)'
    PROVE  Gains(x, s)
<1>. DEFINE ev == [type |-> "invitation", to |-> m, from |-> d, group |-> group[d],
                   bundles |-> bundles[d] \cup {d}]
<1>1. /\ group[m] = NoGroup /\ group[d] # NoGroup /\ events' = events \cup {ev}
      /\ UNCHANGED <<group, saved, tasks, pending>>
  BY DEF Invite, IsMember
<1>2. HoldsMessage(ev, x, s) => x = m /\ HoldsGroup(group[d], s)
  BY <1>1 DEF HoldsMessage, HoldsGroup
<1>3. HoldsGroup(group[d], s) => Holds(d, s)
  BY DEF Holds
<1>4. HoldsMessage(ev, x, s) => Gains(x, s)
  BY <1>1, <1>2, <1>3 DEF Gains
<1>. HIDE DEF ev
<1>. QED BY <1>1, <1>4, HasHolds, GainsOnly

LEMMA AcceptInvitationGains ==
    ASSUME TypeOK, NEW d \in Devices, NEW ev \in events, AcceptInvitation(d, ev),
           NEW x \in Devices, NEW s, Holds(x, s)'
    PROVE  Gains(x, s)
<1>1. ev.type = "invitation" /\ ev.to = d /\ ev.group \in Groups
  BY EventTypes DEF AcceptInvitation, Invitations
<1>2. PICK verified \in BOOLEAN :
         group' = [group EXCEPT ![d] = [ev.group EXCEPT !.members = @ \cup {d}, !.published = verified]]
  BY DEF AcceptInvitation
<1>3. /\ \A y \in Devices : y # d => group'[y] = group[y]
      /\ group'[d].secret = ev.group.secret
  BY <1>1, <1>2 DEF TypeOK, PhonesTyped, Groups
<1>4. HoldsGroup(group'[x], s) => HoldsGroup(group[x], s) \/ HoldsMessage(ev, x, s)
  BY <1>1, <1>3 DEF HoldsGroup, HoldsMessage
<1>5. UNCHANGED <<saved, tasks, pending>>
  BY DEF AcceptInvitation
<1>6. \A e \in events' : e \in events \/ e.type = "joined"
  BY DEF AcceptInvitation
<1>7. \A e \in events' : e \in events \/ ~HoldsMessage(e, x, s)
  BY <1>6 DEF HoldsMessage
<1>. QED BY <1>4, <1>5, <1>7, HasHolds, GainsOnly

LEMMA CommitRemoteGains ==
    ASSUME TypeOK, NEW d \in Devices, NEW cand, NEW sender, CommitRemote(d, cand, sender),
           NEW x \in Devices, NEW s, HoldsGroup(group'[x], s)
    PROVE  HoldsGroup(group[x], s) \/ (x = d /\ s = cand.secret)
<1>1. group' \in {group, [group EXCEPT ![d] = cand]}
  BY DEF CommitRemote
<1>. QED BY <1>1 DEF HoldsGroup, TypeOK, PhonesTyped

\* Whatever is heard, the secret stays.
LEMMA HearGains ==
    ASSUME TypeOK, NEW d \in Devices, NEW ev \in events, Hear(d, ev),
           NEW x \in Devices, NEW s, Holds(x, s)'
    PROVE  Gains(x, s)
<1>1. group[d] \in Groups /\ group[d] # NoGroup
  BY HeardFacts DEF Hear
<1>2. CASE ev.type = "joined" /\ MemberJoined(d, ev)
  <2>1. Transition(d, AddMember(group[d], ev.member), {ev.member}, {})
    BY <1>2 DEF MemberJoined
  <2>2. AddMember(group[d], ev.member).secret = group[d].secret
    BY <1>1 DEF AddMember, Groups
  <2>. QED BY <1>1, <2>1, <2>2, TransitionGains
<1>3. CASE ev.type = "update" /\ ApplyStateUpdate(d, ev)
  <2>1. UNCHANGED <<saved, events, pending>>
    BY <1>3 DEF ApplyStateUpdate
  <2>2. \A e : Updated(group[d], ev, e).secret = group[d].secret
    BY <1>1 DEF Updated, WithDelta, Groups
  <2>3. ASSUME HoldsGroup(group'[x], s) PROVE Gains(x, s)
    <3>1. CASE UNCHANGED group
      BY <2>3, <3>1, HasHolds
    <3>2. CASE \E e : Adopt(d, ev, e)
      <4>1. PICK e : group' = [group EXCEPT ![d] = Updated(group[d], ev, e)]
        BY <3>2 DEF Adopt
      <4>2. HoldsGroup(group[x], s)
        BY <1>1, <2>2, <2>3, <4>1 DEF HoldsGroup, TypeOK, PhonesTyped
      <4>. QED BY <4>2, HasHolds
    <3>3. CASE CommitRemote(d, Updated(group[d], ev, ev.epoch), ev.from)
      <4>1. HoldsGroup(group[x], s)
        BY <1>1, <2>2, <2>3, <3>3, CommitRemoteGains DEF HoldsGroup
      <4>. QED BY <4>1, HasHolds
    <3>. QED BY <1>3, <3>1, <3>2, <3>3 DEF ApplyStateUpdate, SameEpoch, LaterEpoch
  <2>4. \A t \in tasks' :
           \/ t \in tasks \/ t.kind = "fork"
           \/ (t.kind = "check" /\ t.dev = d /\ t.cand = Updated(group[d], ev, ev.epoch))
    BY <1>3 DEF ApplyStateUpdate, SameEpoch, LaterEpoch
  <2>5. \A t \in tasks' : t \in tasks \/ (HoldsTask(t, x, s) => HoldsGroup(group[x], s))
    BY <1>1, <2>2, <2>4 DEF HoldsTask, HoldsGroup
  <2>. QED BY <2>1, <2>3, <2>5, HasHolds, GainsOnly
<1>4. CASE ev.type = "notice" /\ RemovalNoticed(d, ev)
  <2>1. /\ \A y \in Devices : y # d => group'[y] = group[y]
        /\ group'[d].secret = group[d].secret
    BY <1>1, <1>4 DEF RemovalNoticed, TypeOK, PhonesTyped, Groups
  <2>2. HoldsGroup(group'[x], s) => HoldsGroup(group[x], s)
    BY <1>1, <2>1 DEF HoldsGroup
  <2>3. UNCHANGED <<saved, tasks, events, pending>>
    BY <1>4 DEF RemovalNoticed
  <2>. QED BY <2>2, <2>3, HasHolds, GainsOnly
<1>5. CASE ev.type = "ack" /\ RekeyAcked(d, ev)
  <2>1. UNCHANGED <<group, saved, tasks, events>>
    BY <1>5 DEF RekeyAcked
  <2>2. \A y \in Devices : y # d => pending'[y] = pending[y]
    BY <1>5 DEF RekeyAcked, TypeOK, PhonesTyped
  <2>3. ASSUME NEW r \in pending'[d]
        PROVE  \E q \in pending[d] : r.unacked \subseteq q.unacked /\ r.task = q.task
    <3>1. PICK q \in pending[d] :
             r = [q EXCEPT !.unacked = IF q.task.cand.epoch = ev.epoch THEN @ \ {ev.from} ELSE @]
      BY <1>5, <2>3 DEF RekeyAcked, TypeOK, PhonesTyped
    <3>2. q \in Records
      BY PhoneFacts
    <3>. QED BY <3>1, <3>2 DEF Records
  <2>4. \A y \in Devices : \A r \in pending'[y] :
           r \in pending[y] \/ (HoldsRecord(r, x, s) => Gains(x, s))
    BY <2>2, <2>3, HasHolds DEF HoldsRecord
  <2>. QED BY <2>1, <2>4, HasHolds, GainsOnly
<1>. QED BY <1>2, <1>3, <1>4, <1>5 DEF Hear

LEMMA OpenEnvelopeGains ==
    ASSUME TypeOK, NEW d \in Devices, NEW ev \in events, OpenEnvelope(d, ev),
           NEW x \in Devices, NEW s, Holds(x, s)'
    PROVE  Gains(x, s)
<1>. DEFINE cand == Rekeyed(group[d], ev)
<1>1. ev.type = "envelope" /\ ev.to = d /\ group[d] \in Groups
  BY PhoneFacts DEF OpenEnvelope
<1>2. cand.secret = ev.secret
  BY <1>1 DEF Rekeyed, Groups
<1>3. x = d /\ s = cand.secret => HoldsMessage(ev, x, s)
  BY <1>1, <1>2 DEF HoldsMessage
<1>. HIDE DEF cand
<1>4. UNCHANGED <<saved, pending>>
  BY DEF OpenEnvelope
<1>5. group' = group \/ CommitRemote(d, cand, ev.from)
  BY DEF OpenEnvelope, cand
<1>6. \A t \in tasks' : t \in tasks \/ (t.kind = "rekey" /\ t.dev = d /\ t.cand = cand)
  BY DEF OpenEnvelope, cand
<1>7. \A e \in events' : e \in events \/ e.type = "ack"
  BY DEF OpenEnvelope, Ack
<1>8. HoldsGroup(group'[x], s) => HoldsGroup(group[x], s) \/ HoldsMessage(ev, x, s)
  BY <1>3, <1>5, CommitRemoteGains
<1>9. \A t \in tasks' : t \in tasks \/ (HoldsTask(t, x, s) => HoldsMessage(ev, x, s))
  BY <1>3, <1>6 DEF HoldsTask
<1>10. \A e \in events' : e \in events \/ ~HoldsMessage(e, x, s)
  BY <1>7 DEF HoldsMessage
<1>. QED BY <1>4, <1>8, <1>9, <1>10, HasHolds, GainsOnly

LEMMA CheckedWithChainGains ==
    ASSUME TypeOK, NEW t \in tasks, CheckedWithChain(t), NEW x \in Devices, NEW s, Holds(x, s)'
    PROVE  Gains(x, s)
<1>1. t.dev \in Devices /\ t.kind \in {"check", "rekey"}
  BY TaskKinds DEF CheckedWithChain
<1>2. tasks' \subseteq tasks /\ UNCHANGED <<saved, pending>>
  BY DEF CheckedWithChain
<1>3. group' = group \/ CommitRemote(t.dev, t.cand, t.from)
  BY DEF CheckedWithChain
<1>4. \A e \in events' : e \in events \/ e.type = "ack"
  BY DEF CheckedWithChain, Ack
<1>5. HoldsGroup(group'[x], s) => HoldsGroup(group[x], s) \/ HoldsTask(t, x, s)
  BY <1>1, <1>3, CommitRemoteGains DEF HoldsTask
<1>6. \A e \in events' : e \in events \/ ~HoldsMessage(e, x, s)
  BY <1>4 DEF HoldsMessage
<1>. QED BY <1>2, <1>5, <1>6, HasHolds, GainsOnly

LEMMA ForkResolvedGains ==
    ASSUME TypeOK, NEW t \in tasks, ForkResolved(t), NEW x \in Devices, NEW s, Holds(x, s)'
    PROVE  Gains(x, s)
<1>1. t.dev \in Devices /\ group[t.dev] \in Groups /\ group[t.dev] # NoGroup
  BY TaskKinds, PhoneFacts
<1>2. tasks' \subseteq tasks /\ UNCHANGED <<saved, pending, events>>
  BY DEF ForkResolved
<1>3. group' = group \/ \E e : Adopt(t.dev, t.update, e)
  BY DEF ForkResolved
<1>4. \A e : Updated(group[t.dev], t.update, e).secret = group[t.dev].secret
  BY <1>1 DEF Updated, WithDelta, Groups
<1>5. HoldsGroup(group'[x], s) => HoldsGroup(group[x], s)
  <2>1. CASE group' = group
    BY <2>1
  <2>2. ASSUME NEW e, Adopt(t.dev, t.update, e)
        PROVE  HoldsGroup(group'[x], s) => HoldsGroup(group[x], s)
    <3>1. group' = [group EXCEPT ![t.dev] = Updated(group[t.dev], t.update, e)]
      BY <2>2 DEF Adopt
    <3>. QED BY <1>1, <1>4, <3>1 DEF HoldsGroup, TypeOK, PhonesTyped
  <2>. QED BY <1>3, <2>1, <2>2
<1>. QED BY <1>2, <1>5, HasHolds, GainsOnly

LEMMA ChainDecidesGains ==
    ASSUME TypeOK, NEW t \in tasks, ChainDecides(t), NEW x \in Devices, NEW s, Holds(x, s)'
    PROVE  Gains(x, s)
<1>. DEFINE u == [t EXCEPT !.phase = "accepted"]
<1>1. t \in Transitions /\ t.phase = "sent"
  BY TaskKinds DEF ChainDecides
<1>2. /\ u.phase = "accepted" /\ u.kind = "transition" /\ t.kind = "transition" /\ u.dev = t.dev
      /\ u.from = t.from /\ u.cand = t.cand /\ u.gone = t.gone
  BY <1>1, PhaseFacts DEF Transitions
<1>. HIDE DEF u
<1>3. HoldsTask(u, x, s) => HoldsTask(t, x, s)
  BY <1>1, <1>2 DEF HoldsTask, Unheard
<1>4. \A v \in tasks' : v \in tasks \/ v = u
  BY DEF ChainDecides, Change, u
<1>5. UNCHANGED <<group, saved, pending, events>>
  BY DEF ChainDecides
<1>. QED BY <1>3, <1>4, <1>5, HasHolds, GainsOnly

LEMMA InstallGains ==
    ASSUME TypeOK, NEW t \in tasks, Install(t), NEW x \in Devices, NEW s, Holds(x, s)'
    PROVE  Gains(x, s)
<1>. DEFINE u == [t EXCEPT !.phase = "installed"]
<1>1. t \in Transitions /\ t.phase = "accepted" /\ t.dev \in Devices
  BY TaskKinds DEF Install
<1>2. /\ u.phase = "installed" /\ u.kind = "transition" /\ t.kind = "transition" /\ u.dev = t.dev
      /\ u.from = t.from /\ u.cand = t.cand /\ u.gone = t.gone
  BY <1>1, PhaseFacts DEF Transitions
<1>. HIDE DEF u
<1>3. /\ \A v \in tasks' : v \in tasks \/ v = u
      /\ UNCHANGED <<saved, pending, events>>
      /\ \A y \in Devices : y # t.dev => group'[y] = group[y]
      /\ group'[t.dev] = t.cand
  BY <1>1 DEF Install, Change, u, TypeOK, PhonesTyped
<1>4. s = t.cand.secret /\ (x = t.dev \/ (t.gone # {} /\ x \in t.cand.members)) => Gains(x, s)
  <2>1. CASE t.gone = {}
    <3>1. s = t.cand.secret /\ x = t.dev => HoldsTask(t, x, s)
      BY <1>2, <2>1 DEF HoldsTask, Unheard
    <3>. QED BY <2>1, <3>1, HasHolds
  <2>2. CASE t.gone # {}
    <3>1. Unheard(t)
      BY <1>1, <1>2, <2>2 DEF Unheard
    <3>. QED BY <3>1 DEF Gains
  <2>. QED BY <2>1, <2>2
<1>5. HoldsGroup(group'[x], s) => Gains(x, s)
  BY <1>3, <1>4, HasHolds DEF HoldsGroup
<1>6. HoldsTask(u, x, s) => Gains(x, s)
  <2>1. HoldsTask(u, x, s) =>
           \/ HoldsTask(t, x, s)
           \/ s = t.cand.secret /\ (x = t.dev \/ (t.gone # {} /\ x \in t.cand.members))
    BY <1>2 DEF HoldsTask
  <2>. QED BY <1>4, <2>1, HasHolds
<1>. QED BY <1>3, <1>5, <1>6, HasHolds, GainsOnly

LEMMA AnnounceGains ==
    ASSUME TypeOK, NEW t \in tasks, Announce(t), NEW x \in Devices, NEW s, Holds(x, s)'
    PROVE  Gains(x, s)
<1>. DEFINE u == [t EXCEPT !.phase = "told"]
<1>1. t \in Transitions /\ t.phase = "installed" /\ t.dev \in Devices /\ t.kind = "transition"
  BY TaskKinds DEF Announce
<1>2. /\ u.phase = "told" /\ u.kind = "transition" /\ u.dev = t.dev
      /\ u.from = t.from /\ u.cand = t.cand /\ u.gone = t.gone
  BY <1>1, PhaseFacts
<1>. HIDE DEF u
<1>3. /\ UNCHANGED <<group, pending>>
      /\ \A y \in Devices : y # t.dev => saved'[y] = saved[y]
      /\ saved'[t.dev] = t.cand
  BY <1>1 DEF Announce, TypeOK, PhonesTyped
<1>4. \A v \in tasks' : v \in tasks \/ (v = u /\ t.gone # {})
  BY DEF Announce, Change, u
<1>5. \A e \in events' : \/ e \in events \/ e.type \in {"update", "notice"}
                         \/ t.gone # {} /\ \E m \in t.cand.members : e = Envelope(t, m)
  BY DEF Announce, StateUpdate, RemovalNotice
<1>6. HoldsGroup(saved'[x], s) => Gains(x, s)
  <2>1. x = t.dev /\ s = t.cand.secret => HoldsTask(t, x, s)
    BY <1>1 DEF HoldsTask, Unheard
  <2>. QED BY <1>3, <2>1, HasHolds DEF HoldsGroup
<1>7. t.gone # {} /\ HoldsTask(u, x, s) => HoldsTask(t, x, s)
  BY <1>1, <1>2 DEF HoldsTask, Unheard
<1>8. ASSUME NEW e \in events' PROVE e \in events \/ (HoldsMessage(e, x, s) => HoldsTask(t, x, s))
  <2>1. CASE e.type \in {"update", "notice"}
    BY <2>1 DEF HoldsMessage
  <2>2. ASSUME t.gone # {}, NEW m \in t.cand.members, e = Envelope(t, m)
        PROVE  HoldsMessage(e, x, s) => HoldsTask(t, x, s)
    BY <1>1, <2>2 DEF HoldsMessage, HoldsTask, Unheard, Envelope
  <2>. QED BY <1>5, <2>1, <2>2
<1>. QED BY <1>3, <1>4, <1>6, <1>7, <1>8, HasHolds, GainsOnly

LEMMA SavePendingRekeyGains ==
    ASSUME TypeOK, NEW t \in tasks, SavePendingRekey(t), NEW x \in Devices, NEW s, Holds(x, s)'
    PROVE  Gains(x, s)
<1>. DEFINE r == [task |-> t, unacked |-> t.cand.members \ {t.dev}, retries |-> 0]
<1>1. t.dev \in Devices /\ t.kind = "transition" /\ t.phase = "told"
  BY TaskKinds DEF SavePendingRekey
<1>2. \A d \in Devices : \A q \in pending'[d] : q \in pending[d] \/ q = r
  BY <1>1 DEF SavePendingRekey, TypeOK, PhonesTyped
<1>3. tasks' \subseteq tasks /\ UNCHANGED <<group, saved, events>>
  BY DEF SavePendingRekey
<1>4. HoldsRecord(r, x, s) => HoldsTask(t, x, s)
  BY <1>1 DEF HoldsRecord, HoldsTask, Unheard
<1>. HIDE DEF r
<1>. QED BY <1>2, <1>3, <1>4, HasHolds, GainsOnly

LEMMA ResendPendingRekeysGains ==
    ASSUME TypeOK, NEW d \in Devices, NEW r \in pending[d], ResendPendingRekeys(d, r),
           NEW x \in Devices, NEW s, Holds(x, s)'
    PROVE  Gains(x, s)
<1>. DEFINE q == [r EXCEPT !.retries = @ + 1]
<1>1. q.unacked = r.unacked /\ q.task = r.task
  BY RecordFacts DEF Records
<1>. HIDE DEF q
<1>2. \A y \in Devices : \A p \in pending'[y] : p \in pending[y] \/ p = q
  BY DEF ResendPendingRekeys, TypeOK, PhonesTyped, q
<1>3. UNCHANGED <<group, saved, tasks>>
  BY DEF ResendPendingRekeys
<1>4. \A e \in events' : e \in events \/ \E m \in r.unacked : e = Envelope(r.task, m)
  BY DEF ResendPendingRekeys
<1>5. HoldsRecord(q, x, s) => HoldsRecord(r, x, s)
  BY <1>1 DEF HoldsRecord
<1>6. \A e \in events' : e \in events \/ (HoldsMessage(e, x, s) => HoldsRecord(r, x, s))
  BY <1>4 DEF HoldsMessage, HoldsRecord, Envelope
<1>. QED BY <1>2, <1>3, <1>5, <1>6, HasHolds, GainsOnly

\* In every step, whoever comes to hold a secret gains it in one of these ways.
LEMMA NextGains ==
    ASSUME TypeOK, [Next]_vars, NEW x \in Devices, NEW s, Holds(x, s)'
    PROVE  Gains(x, s)
<1>1. ASSUME NEW d \in Devices, NEW r \in pending[d], ExpirePendingRekey(d, r) PROVE Gains(x, s)
  <2>1. UNCHANGED <<group, saved, tasks, events>> /\ pending' = [pending EXCEPT ![d] = @ \ {r}]
    BY <1>1 DEF ExpirePendingRekey
  <2>2. \A y \in Devices : pending'[y] \subseteq pending[y]
    BY <2>1 DEF TypeOK, PhonesTyped
  <2>. QED BY <2>1, <2>2, QuietGains
<1>2. ASSUME NEW t \in tasks, AnswerLost(t) PROVE Gains(x, s)
  BY <1>2, QuietGains DEF AnswerLost
<1>3. ASSUME NEW ev \in events, LoseEnvelope(ev) PROVE Gains(x, s)
  BY <1>3, QuietGains DEF LoseEnvelope
<1>4. CASE UNCHANGED vars
  BY <1>4, QuietGains DEF vars
<1>. QED
  BY <1>1, <1>2, <1>3, <1>4, RemoveSomeoneGains, RotateGroupKeyGains, RestartGains, InviteGains,
     ResendPendingRekeysGains, AcceptInvitationGains, HearGains, OpenEnvelopeGains,
     ChainDecidesGains, InstallGains, AnnounceGains, SavePendingRekeyGains,
     CheckedWithChainGains, ForkResolvedGains DEF Next

-------------------------------------------------------------------------------
(* Nobody is named as a member before it has a group.                      *)

Named(x) == Mentions(x) \/ group'[x] # NoGroup

MentionsGroup(g, x) == g # NoGroup /\ x \in g.members

LEMMA WhereNamed ==
    ASSUME NEW x
    PROVE  /\ \A i \in DOMAIN chain : x \in chain[i].members => Named(x)
           /\ \A d \in Devices : MentionsGroup(group[d], x) => Named(x)
           /\ \A d \in Devices : MentionsGroup(saved[d], x) => Named(x)
           /\ \A t \in tasks : MentionsTask(t, x) => Named(x)
           /\ \A ev \in events : MentionsMessage(ev, x) => Named(x)
BY DEF Mentions, Named, MentionsGroup

LEMMA NamedOnly ==
    ASSUME NEW x,
           \A i \in DOMAIN chain' : x \in chain'[i].members => Named(x),
           \A d \in Devices : group'[d] = group[d] \/ (MentionsGroup(group'[d], x) => Named(x)),
           \A d \in Devices : saved'[d] = saved[d] \/ (MentionsGroup(saved'[d], x) => Named(x)),
           \A t \in tasks' : t \in tasks \/ (MentionsTask(t, x) => Named(x)),
           \A ev \in events' : ev \in events \/ (MentionsMessage(ev, x) => Named(x)),
           Mentions(x)'
    PROVE  Named(x)
<1>1. \/ \E i \in DOMAIN chain' : x \in chain'[i].members
      \/ \E d \in Devices : MentionsGroup(group'[d], x)
      \/ \E d \in Devices : MentionsGroup(saved'[d], x)
      \/ \E t \in tasks' : MentionsTask(t, x)
      \/ \E ev \in events' : MentionsMessage(ev, x)
  BY DEF Mentions, MentionsGroup
<1>. QED BY <1>1, WhereNamed

LEMMA SameChainNamed ==
    ASSUME NEW x, chain' = chain
    PROVE  \A i \in DOMAIN chain' : x \in chain'[i].members => Named(x)
BY WhereNamed

LEMMA TransitionNamed ==
    ASSUME TypeOK, NEW d \in Devices, NEW cand \in Groups, NEW added, NEW gone,
           group[d] \in Groups, Transition(d, cand, added, gone), NEW x, Mentions(x)',
           x \in cand.members \cup added => Named(x)
    PROVE  Named(x)
<1>. DEFINE Task(phase, base) == [kind |-> "transition", dev |-> d, from |-> group[d], cand |-> cand,
                                  added |-> added, gone |-> gone, phase |-> phase, base |-> base]
<1>1. /\ UNCHANGED <<chain, saved, events>>
      /\ \A y \in Devices : y # d => group'[y] = group[y]
      /\ group'[d] \in {group[d], cand}
  BY DEF Transition, TypeOK, PhonesTyped
<1>2. PICK phase \in {"sent", "installed"} : \E base : tasks' = tasks \cup {Task(phase, base)}
  BY DEF Transition
<1>. PICK base : tasks' = tasks \cup {Task(phase, base)}
  BY <1>2
<1>3. MentionsTask(Task(phase, base), x) => Named(x)
  BY DEF MentionsTask
<1>4. MentionsGroup(group'[d], x) => Named(x)
  BY <1>1, WhereNamed DEF MentionsGroup
<1>. HIDE DEF Task
<1>. QED BY <1>1, <1>2, <1>3, <1>4, SameChainNamed, NamedOnly

LEMMA RemoveSomeoneNamed ==
    ASSUME TypeOK, NEW d \in Devices, RemoveSomeone(d), NEW x, Mentions(x)'
    PROVE  Named(x)
<1>1. PICK m \in group[d].members : Transition(d, RemoveMember(group[d], m), {}, {m})
  BY DEF RemoveSomeone
<1>2. /\ group[d] \in Groups /\ group[d] # NoGroup /\ group[d].members \subseteq Devices
      /\ starts \in Nat
  BY PhoneFacts DEF RemoveSomeone, IsMember, Groups, TypeOK, HistoryTyped
<1>3. /\ RemoveMember(group[d], m) \in Groups
      /\ RemoveMember(group[d], m).members \subseteq group[d].members
  BY <1>2, RemoveMemberFacts
<1>4. x \in RemoveMember(group[d], m).members \cup {} => Named(x)
  BY <1>2, <1>3, WhereNamed DEF MentionsGroup
<1>. QED BY <1>1, <1>2, <1>3, <1>4, TransitionNamed

LEMMA RotateGroupKeyNamed ==
    ASSUME TypeOK, NEW d \in Devices, RotateGroupKey(d), NEW x, Mentions(x)'
    PROVE  Named(x)
<1>1. Transition(d, RotateKey(group[d]), {}, {})
  BY DEF RotateGroupKey
<1>2. group[d] \in Groups /\ group[d] # NoGroup /\ starts \in Nat
  BY PhoneFacts DEF RotateGroupKey, IsMember, TypeOK, HistoryTyped
<1>3. RotateKey(group[d]) \in Groups /\ RotateKey(group[d]).members = group[d].members
  BY <1>2, RotateKeyFacts
<1>4. x \in RotateKey(group[d]).members \cup {} => Named(x)
  BY <1>2, <1>3, WhereNamed DEF MentionsGroup
<1>. QED BY <1>1, <1>2, <1>3, <1>4, TransitionNamed

LEMMA RestartNamed ==
    ASSUME TypeOK, NEW d \in Devices, Restart(d), NEW x, Mentions(x)'
    PROVE  Named(x)
<1>1. PICK kept \in {saved[d], group[d]} :
         group' = [group EXCEPT ![d] = kept] /\ saved' = [saved EXCEPT ![d] = kept]
  BY DEF Restart
<1>2. tasks' \subseteq tasks /\ UNCHANGED <<chain, events>>
  BY DEF Restart
<1>3. \A y \in Devices : /\ group'[y] \in {group[y], saved[y]}
                         /\ saved'[y] \in {group[y], saved[y]}
  BY <1>1 DEF TypeOK, PhonesTyped
<1>4. \A y \in Devices : /\ MentionsGroup(group'[y], x) => Named(x)
                         /\ MentionsGroup(saved'[y], x) => Named(x)
  BY <1>3, WhereNamed
<1>. QED BY <1>2, <1>4, SameChainNamed, NamedOnly

LEMMA InviteNamed ==
    ASSUME TypeOK, NEW d \in Devices, NEW m \in Devices, Invite(d, m), NEW x, Mentions(x)'
    PROVE  Named(x)
<1>1. /\ group[d] # NoGroup /\ UNCHANGED <<chain, group, saved, tasks>>
      /\ \A ev \in events' : ev \in events \/ (ev.type = "invitation" /\ ev.group = group[d])
  BY DEF Invite, IsMember
<1>2. \A ev \in events' : ev \in events \/ (MentionsMessage(ev, x) => MentionsGroup(group[d], x))
  BY <1>1 DEF MentionsMessage, MentionsGroup
<1>. QED BY <1>1, <1>2, WhereNamed, SameChainNamed, NamedOnly

LEMMA AcceptInvitationNamed ==
    ASSUME TypeOK, NEW d \in Devices, NEW ev \in events, AcceptInvitation(d, ev), NEW x, Mentions(x)'
    PROVE  Named(x)
<1>1. ev.type = "invitation" /\ ev.group \in Groups
  BY EventTypes DEF AcceptInvitation, Invitations
<1>2. PICK verified \in BOOLEAN :
         group' = [group EXCEPT ![d] = [ev.group EXCEPT !.members = @ \cup {d}, !.published = verified]]
  BY DEF AcceptInvitation
<1>3. /\ \A y \in Devices : y # d => group'[y] = group[y]
      /\ group'[d].members = ev.group.members \cup {d} /\ group'[d] \in Groups
  BY <1>1, <1>2 DEF TypeOK, PhonesTyped, Groups
<1>4. Named(d)
  BY <1>3, AbsentAssumption DEF Named
<1>5. MentionsGroup(group'[d], x) => Named(x)
  BY <1>1, <1>3, <1>4, WhereNamed DEF MentionsGroup, MentionsMessage
<1>6. UNCHANGED <<chain, saved, tasks>>
  BY DEF AcceptInvitation
<1>7. \A e \in events' : e \in events \/ (e.type = "joined" /\ e.member = d)
  BY DEF AcceptInvitation
<1>8. \A e \in events' : e \in events \/ (MentionsMessage(e, x) => Named(x))
  BY <1>4, <1>7 DEF MentionsMessage
<1>. QED BY <1>3, <1>5, <1>6, <1>8, WhereNamed, SameChainNamed, NamedOnly

LEMMA CommitRemoteNamed ==
    ASSUME TypeOK, NEW d \in Devices, NEW cand, NEW sender, CommitRemote(d, cand, sender),
           NEW x, x \in cand.members => Named(x)
    PROVE  \A y \in Devices : MentionsGroup(group'[y], x) => Named(x)
<1>1. group' \in {group, [group EXCEPT ![d] = cand]}
  BY DEF CommitRemote
<1>2. \A y \in Devices : group'[y] = group[y] \/ group'[y] = cand
  BY <1>1 DEF TypeOK, PhonesTyped
<1>. QED BY <1>2, WhereNamed DEF MentionsGroup

LEMMA AdoptNamed ==
    ASSUME TypeOK, NEW d \in Devices, NEW update, NEW e, Adopt(d, update, e), group[d] \in Groups,
           NEW x, x \in update.added => Named(x)
    PROVE  \A y \in Devices : MentionsGroup(group'[y], x) => Named(x)
<1>. DEFINE g == Updated(group[d], update, e)
<1>1. group' = [group EXCEPT ![d] = g]
  BY DEF Adopt
<1>2. g.members = (group[d].members \ update.gone) \cup update.added
  BY DEF Updated, WithDelta, Groups
<1>. HIDE DEF g
<1>3. \A y \in Devices : group'[y] = group[y] \/ group'[y] = g
  BY <1>1 DEF TypeOK, PhonesTyped
<1>4. x \in g.members => Named(x)
  BY <1>2, WhereNamed, AbsentAssumption DEF MentionsGroup
<1>. QED BY <1>3, <1>4, WhereNamed DEF MentionsGroup

LEMMA HearNamed ==
    ASSUME TypeOK, NEW d \in Devices, NEW ev \in events, Hear(d, ev), NEW x, Mentions(x)'
    PROVE  Named(x)
<1>1. group[d] \in Groups /\ group[d] # NoGroup
  BY HeardFacts DEF Hear
<1>2. x \in group[d].members => Named(x)
  BY <1>1, WhereNamed DEF MentionsGroup
<1>3. CASE ev.type = "joined" /\ MemberJoined(d, ev)
  <2>1. Transition(d, AddMember(group[d], ev.member), {ev.member}, {}) /\ ev.member \in Devices
    BY <1>3, EventTypes DEF MemberJoined, Joined
  <2>2. /\ AddMember(group[d], ev.member) \in Groups
        /\ AddMember(group[d], ev.member).members = group[d].members \cup {ev.member}
    BY <1>1, <2>1, AddMemberFacts
  <2>3. x = ev.member => Named(x)
    BY <1>3, WhereNamed DEF MentionsMessage
  <2>. QED BY <1>1, <1>2, <2>1, <2>2, <2>3, TransitionNamed
<1>4. CASE ev.type = "update" /\ ApplyStateUpdate(d, ev)
  <2>. DEFINE cand == Updated(group[d], ev, ev.epoch)
  <2>1. UNCHANGED <<chain, saved, events>>
    BY <1>4 DEF ApplyStateUpdate
  <2>2. x \in ev.added => Named(x)
    BY <1>4, WhereNamed DEF MentionsMessage
  <2>3. cand.members = (group[d].members \ ev.gone) \cup ev.added
    BY <1>1 DEF Updated, WithDelta, Groups
  <2>4. x \in cand.members => Named(x)
    BY <1>2, <2>2, <2>3
  <2>. HIDE DEF cand
  <2>5. \A y \in Devices : MentionsGroup(group'[y], x) => Named(x)
    <3>1. CASE UNCHANGED group
      BY <3>1, WhereNamed
    <3>2. ASSUME NEW e, Adopt(d, ev, e)
          PROVE  \A y \in Devices : MentionsGroup(group'[y], x) => Named(x)
      BY <1>1, <2>2, <3>2, AdoptNamed
    <3>3. CASE CommitRemote(d, cand, ev.from)
      BY <2>4, <3>3, CommitRemoteNamed
    <3>. QED BY <1>4, <3>1, <3>2, <3>3 DEF ApplyStateUpdate, SameEpoch, LaterEpoch, cand
  <2>6. \A t \in tasks' :
           \/ t \in tasks \/ (t.kind = "fork" /\ t.update = ev)
           \/ (t.kind = "check" /\ t.cand = cand)
    BY <1>4 DEF ApplyStateUpdate, SameEpoch, LaterEpoch, cand
  <2>7. \A t \in tasks' : t \in tasks \/ (MentionsTask(t, x) => Named(x))
    BY <2>2, <2>4, <2>6 DEF MentionsTask
  <2>. QED BY <2>1, <2>5, <2>7, SameChainNamed, NamedOnly
<1>5. CASE ev.type = "notice" /\ RemovalNoticed(d, ev)
  <2>1. /\ \A y \in Devices : y # d => group'[y] = group[y]
        /\ group'[d].members \subseteq group[d].members
    BY <1>1, <1>5 DEF RemovalNoticed, TypeOK, PhonesTyped, Groups
  <2>2. MentionsGroup(group'[d], x) => Named(x)
    BY <1>2, <2>1 DEF MentionsGroup
  <2>3. UNCHANGED <<chain, saved, tasks, events>>
    BY <1>5 DEF RemovalNoticed
  <2>. QED BY <2>1, <2>2, <2>3, SameChainNamed, NamedOnly
<1>6. CASE ev.type = "ack" /\ RekeyAcked(d, ev)
  BY <1>6, SameChainNamed, NamedOnly DEF RekeyAcked
<1>. QED BY <1>3, <1>4, <1>5, <1>6 DEF Hear

LEMMA OpenEnvelopeNamed ==
    ASSUME TypeOK, NEW d \in Devices, NEW ev \in events, OpenEnvelope(d, ev), NEW x, Mentions(x)'
    PROVE  Named(x)
<1>. DEFINE cand == Rekeyed(group[d], ev)
<1>1. group[d] \in Groups /\ group[d] # NoGroup
  BY PhoneFacts DEF OpenEnvelope
<1>2. cand.members \subseteq group[d].members
  BY <1>1 DEF Rekeyed, Groups
<1>3. x \in cand.members => Named(x)
  BY <1>1, <1>2, WhereNamed DEF MentionsGroup
<1>. HIDE DEF cand
<1>4. UNCHANGED <<chain, saved>>
  BY DEF OpenEnvelope
<1>5. group' = group \/ CommitRemote(d, cand, ev.from)
  BY DEF OpenEnvelope, cand
<1>6. \A t \in tasks' : t \in tasks \/ (t.kind = "rekey" /\ t.cand = cand)
  BY DEF OpenEnvelope, cand
<1>7. \A e \in events' : e \in events \/ e.type = "ack"
  BY DEF OpenEnvelope, Ack
<1>8. \A y \in Devices : MentionsGroup(group'[y], x) => Named(x)
  BY <1>3, <1>5, CommitRemoteNamed, WhereNamed
<1>9. \A t \in tasks' : t \in tasks \/ (MentionsTask(t, x) => Named(x))
  BY <1>3, <1>6 DEF MentionsTask
<1>10. \A e \in events' : e \in events \/ ~MentionsMessage(e, x)
  BY <1>7 DEF MentionsMessage
<1>. QED BY <1>4, <1>8, <1>9, <1>10, SameChainNamed, NamedOnly

LEMMA CheckedWithChainNamed ==
    ASSUME TypeOK, NEW t \in tasks, CheckedWithChain(t), NEW x, Mentions(x)'
    PROVE  Named(x)
<1>1. t.dev \in Devices /\ t.kind \in {"check", "rekey"}
  BY TaskKinds DEF CheckedWithChain
<1>2. tasks' \subseteq tasks /\ UNCHANGED <<chain, saved>>
  BY DEF CheckedWithChain
<1>3. group' = group \/ CommitRemote(t.dev, t.cand, t.from)
  BY DEF CheckedWithChain
<1>4. \A e \in events' : e \in events \/ e.type = "ack"
  BY DEF CheckedWithChain, Ack
<1>5. x \in t.cand.members => Named(x)
  BY <1>1, WhereNamed DEF MentionsTask
<1>6. \A y \in Devices : MentionsGroup(group'[y], x) => Named(x)
  BY <1>1, <1>3, <1>5, CommitRemoteNamed, WhereNamed
<1>7. \A e \in events' : e \in events \/ ~MentionsMessage(e, x)
  BY <1>4 DEF MentionsMessage
<1>. QED BY <1>2, <1>6, <1>7, SameChainNamed, NamedOnly

LEMMA ForkResolvedNamed ==
    ASSUME TypeOK, NEW t \in tasks, ForkResolved(t), NEW x, Mentions(x)'
    PROVE  Named(x)
<1>1. t.dev \in Devices /\ group[t.dev] \in Groups /\ t.kind = "fork"
  BY TaskKinds DEF ForkResolved
<1>2. tasks' \subseteq tasks /\ UNCHANGED <<chain, saved, events>>
  BY DEF ForkResolved
<1>3. group' = group \/ \E e : Adopt(t.dev, t.update, e)
  BY DEF ForkResolved
<1>4. x \in t.update.added => Named(x)
  BY <1>1, WhereNamed DEF MentionsTask
<1>5. \A y \in Devices : MentionsGroup(group'[y], x) => Named(x)
  BY <1>1, <1>3, <1>4, AdoptNamed, WhereNamed
<1>. QED BY <1>2, <1>5, SameChainNamed, NamedOnly

\* A coroutine that goes on names nobody new.
LEMMA PhaseNamed ==
    ASSUME NEW t \in tasks, t \in Transitions, NEW phase \in {"sent", "accepted", "installed", "told"},
           NEW x
    PROVE  /\ MentionsTask([t EXCEPT !.phase = phase], x) => Named(x)
           /\ x \in t.cand.members \cup t.added => Named(x)
<1>. DEFINE u == [t EXCEPT !.phase = phase]
<1>1. u.kind = "transition" /\ u.cand = t.cand /\ u.added = t.added /\ t.kind = "transition"
  BY PhaseFacts DEF Transitions
<1>. HIDE DEF u
<1>2. MentionsTask(u, x) => x \in t.cand.members \cup t.added
  BY <1>1 DEF MentionsTask
<1>3. x \in t.cand.members \cup t.added => Named(x)
  BY <1>1, WhereNamed DEF MentionsTask
<1>. QED BY <1>2, <1>3 DEF u

LEMMA ChainDecidesNamed ==
    ASSUME TypeOK, NEW t \in tasks, ChainDecides(t), NEW x, Mentions(x)'
    PROVE  Named(x)
<1>. DEFINE c == [Commitment(t.cand) EXCEPT !.epoch = t.base.epoch + 1]
<1>1. t \in Transitions /\ t.cand \in Groups
  BY TaskKinds DEF ChainDecides, Transitions
<1>2. UNCHANGED <<group, saved, events>>
  BY DEF ChainDecides
<1>3. \A v \in tasks' : v \in tasks \/ v = [t EXCEPT !.phase = "accepted"]
  BY DEF ChainDecides, Change
<1>4. \A v \in tasks' : v \in tasks \/ (MentionsTask(v, x) => Named(x))
  BY <1>1, <1>3, PhaseNamed
<1>5. c.members = t.cand.members
  BY <1>1, CommitmentRecord DEF Commitments, Commitment
<1>. HIDE DEF c
<1>6. chain' = chain \/ chain' = Append(chain, c)
  BY DEF ChainDecides, c
<1>7. x \in c.members => Named(x)
  BY <1>1, <1>5, PhaseNamed
<1>8. \A i \in DOMAIN chain' : chain'[i] = c \/ (i \in DOMAIN chain /\ chain'[i] = chain[i])
  <2>1. chain \in Seq(Commitments)
    BY DEF TypeOK, ChainTyped
  <2>2. \A i \in DOMAIN Append(chain, c) :
           Append(chain, c)[i] = c \/ (i \in DOMAIN chain /\ Append(chain, c)[i] = chain[i])
    BY <2>1
  <2>. QED BY <1>6, <2>2
<1>9. \A i \in DOMAIN chain' : x \in chain'[i].members => Named(x)
  BY <1>7, <1>8, WhereNamed
<1>. QED BY <1>2, <1>4, <1>9, NamedOnly

LEMMA InstallNamed ==
    ASSUME TypeOK, NEW t \in tasks, Install(t), NEW x, Mentions(x)'
    PROVE  Named(x)
<1>1. t \in Transitions /\ t.dev \in Devices
  BY TaskKinds DEF Install
<1>2. UNCHANGED <<chain, saved, events>> /\ group' = [group EXCEPT ![t.dev] = t.cand]
  BY DEF Install
<1>3. \A v \in tasks' : v \in tasks \/ v = [t EXCEPT !.phase = "installed"]
  BY DEF Install, Change
<1>4. \A v \in tasks' : v \in tasks \/ (MentionsTask(v, x) => Named(x))
  BY <1>1, <1>3, PhaseNamed
<1>5. \A y \in Devices : group'[y] \in {group[y], t.cand}
  BY <1>2 DEF TypeOK, PhonesTyped
<1>6. \A y \in Devices : group'[y] = group[y] \/ (MentionsGroup(group'[y], x) => Named(x))
  BY <1>1, <1>5, PhaseNamed DEF MentionsGroup
<1>. QED BY <1>2, <1>4, <1>6, SameChainNamed, NamedOnly

LEMMA AnnounceNamed ==
    ASSUME TypeOK, NEW t \in tasks, Announce(t), NEW x, Mentions(x)'
    PROVE  Named(x)
<1>1. t \in Transitions /\ t.dev \in Devices
  BY TaskKinds DEF Announce
<1>2. UNCHANGED <<chain, group>> /\ saved' = [saved EXCEPT ![t.dev] = t.cand]
  BY DEF Announce
<1>3. \A v \in tasks' : v \in tasks \/ v = [t EXCEPT !.phase = "told"]
  BY DEF Announce, Change
<1>4. \A v \in tasks' : v \in tasks \/ (MentionsTask(v, x) => Named(x))
  BY <1>1, <1>3, PhaseNamed
<1>5. \A y \in Devices : saved'[y] \in {saved[y], t.cand}
  BY <1>2 DEF TypeOK, PhonesTyped
<1>6. \A y \in Devices : saved'[y] = saved[y] \/ (MentionsGroup(saved'[y], x) => Named(x))
  BY <1>1, <1>5, PhaseNamed DEF MentionsGroup
<1>7. \A e \in events' : \/ e \in events \/ e.type \in {"notice", "envelope"}
                         \/ (e.type = "update" /\ e.added = t.added)
  BY DEF Announce, StateUpdate, RemovalNotice, Envelope
<1>8. \A e \in events' : e \in events \/ (MentionsMessage(e, x) => Named(x))
  BY <1>1, <1>7, PhaseNamed DEF MentionsMessage
<1>. QED BY <1>2, <1>4, <1>6, <1>8, SameChainNamed, NamedOnly

LEMMA NextNamed ==
    ASSUME TypeOK, [Next]_vars, NEW x, Mentions(x)'
    PROVE  Named(x)
<1>1. ASSUME NEW d \in Devices, NEW r \in pending[d], ResendPendingRekeys(d, r) PROVE Named(x)
  <2>1. UNCHANGED <<chain, group, saved, tasks>>
    BY <1>1 DEF ResendPendingRekeys
  <2>2. \A e \in events' : e \in events \/ e.type = "envelope"
    BY <1>1 DEF ResendPendingRekeys, Envelope
  <2>3. \A e \in events' : e \in events \/ ~MentionsMessage(e, x)
    BY <2>2 DEF MentionsMessage
  <2>. QED BY <2>1, <2>3, SameChainNamed, NamedOnly
<1>2. ASSUME UNCHANGED <<chain, group, saved>>, tasks' \subseteq tasks, events' \subseteq events
      PROVE  Named(x)
  BY <1>2, SameChainNamed, NamedOnly
<1>3. ASSUME NEW d \in Devices, NEW r \in pending[d], ExpirePendingRekey(d, r) PROVE Named(x)
  BY <1>2, <1>3 DEF ExpirePendingRekey
<1>4. ASSUME NEW t \in tasks, AnswerLost(t) \/ SavePendingRekey(t) PROVE Named(x)
  BY <1>2, <1>4 DEF AnswerLost, SavePendingRekey
<1>5. ASSUME NEW ev \in events, LoseEnvelope(ev) PROVE Named(x)
  BY <1>2, <1>5 DEF LoseEnvelope
<1>6. CASE UNCHANGED vars
  BY <1>2, <1>6 DEF vars
<1>. QED
  BY <1>1, <1>3, <1>4, <1>5, <1>6, RemoveSomeoneNamed, RotateGroupKeyNamed, RestartNamed,
     InviteNamed, AcceptInvitationNamed, HearNamed, OpenEnvelopeNamed, ChainDecidesNamed,
     InstallNamed, AnnounceNamed, CheckedWithChainNamed, ForkResolvedNamed DEF Next

-------------------------------------------------------------------------------
(* What a step does to the groups, to the numbers and to the chain.        *)

LEMMA TransitionKeepsGroups ==
    ASSUME TypeOK, NEW d \in Devices, NEW cand \in Groups, NEW added, NEW gone,
           Transition(d, cand, added, gone), NEW x \in Devices, group[x] # NoGroup
    PROVE  group'[x] # NoGroup
BY AbsentAssumption DEF Transition, TypeOK, PhonesTyped

LEMMA CommitRemoteKeepsGroups ==
    ASSUME TypeOK, NEW d \in Devices, NEW cand \in Groups, NEW sender,
           CommitRemote(d, cand, sender), NEW x \in Devices, group[x] # NoGroup
    PROVE  group'[x] # NoGroup
BY AbsentAssumption DEF CommitRemote, TypeOK, PhonesTyped

LEMMA AdoptKeepsGroups ==
    ASSUME TypeOK, NEW d \in Devices, NEW update \in Updates, NEW e \in Nat, group[d] \in Groups,
           Adopt(d, update, e), NEW x \in Devices, group[x] # NoGroup
    PROVE  group'[x] # NoGroup
<1>1. Updated(group[d], update, e) \in Groups
  BY UpdatedFacts
<1>. QED BY <1>1, AbsentAssumption DEF Adopt, TypeOK, PhonesTyped

LEMMA HearKeepsGroups ==
    ASSUME TypeOK, NEW d \in Devices, NEW ev \in events, Hear(d, ev),
           NEW x \in Devices, group[x] # NoGroup
    PROVE  group'[x] # NoGroup
<1>1. group[d] \in Groups /\ group[d] # NoGroup
  BY HeardFacts DEF Hear
<1>2. CASE ev.type = "joined" /\ MemberJoined(d, ev)
  <2>1. ev.member \in Devices
    BY <1>2, EventTypes DEF Joined
  <2>2. AddMember(group[d], ev.member) \in Groups
    BY <1>1, <2>1, AddMemberFacts
  <2>. QED BY <1>2, <2>2, TransitionKeepsGroups DEF MemberJoined
<1>3. CASE ev.type = "update" /\ ApplyStateUpdate(d, ev)
  <2>1. ev \in Updates /\ ev.epoch \in Nat /\ group[d].epoch + 1 \in Nat
    BY <1>1, <1>3, EventTypes, GroupRecord DEF Updates
  <2>2. Updated(group[d], ev, ev.epoch) \in Groups
    BY <1>1, <2>1, UpdatedFacts
  <2>. QED BY <1>1, <1>3, <2>1, <2>2, AdoptKeepsGroups, CommitRemoteKeepsGroups
           DEF ApplyStateUpdate, SameEpoch, LaterEpoch
<1>4. CASE ev.type = "notice" /\ RemovalNoticed(d, ev)
  <2>. DEFINE g == [group[d] EXCEPT !.epoch = ev.epoch, !.members = @ \ {d}]
  <2>1. ev.epoch \in Nat
    BY <1>4, EventTypes DEF Notices
  <2>2. g \in Groups
    BY <1>1, <2>1 DEF Groups
  <2>3. group' = [group EXCEPT ![d] = g]
    BY <1>4 DEF RemovalNoticed, TypeOK, PhonesTyped
  <2>. HIDE DEF g
  <2>. QED BY <2>2, <2>3, AbsentAssumption DEF TypeOK, PhonesTyped
<1>5. CASE ev.type = "ack" /\ RekeyAcked(d, ev)
  BY <1>5 DEF RekeyAcked
<1>. QED BY <1>2, <1>3, <1>4, <1>5 DEF Hear

\* No device loses its group.
LEMMA GroupsAreKept ==
    ASSUME TypeOK, [Next]_vars, NEW x \in Devices, group[x] # NoGroup
    PROVE  group'[x] # NoGroup
<1>1. ASSUME NEW d \in Devices, RemoveSomeone(d) PROVE group'[x] # NoGroup
  <2>1. PICK m \in group[d].members : Transition(d, RemoveMember(group[d], m), {}, {m})
    BY <1>1 DEF RemoveSomeone
  <2>2. group[d] \in Groups /\ m \in Devices /\ starts \in Nat
    BY <1>1, PhoneFacts, GroupRecord DEF RemoveSomeone, IsMember, TypeOK, HistoryTyped
  <2>3. RemoveMember(group[d], m) \in Groups
    BY <2>2, RemoveMemberFacts
  <2>. QED BY <2>1, <2>3, TransitionKeepsGroups
<1>2. ASSUME NEW d \in Devices, RotateGroupKey(d) PROVE group'[x] # NoGroup
  <2>1. group[d] \in Groups /\ starts \in Nat
    BY <1>2, PhoneFacts DEF RotateGroupKey, IsMember, TypeOK, HistoryTyped
  <2>2. RotateKey(group[d]) \in Groups
    BY <2>1, RotateKeyFacts
  <2>. QED BY <1>2, <2>2, TransitionKeepsGroups DEF RotateGroupKey
<1>3. ASSUME NEW d \in Devices, Restart(d) PROVE group'[x] # NoGroup
  BY <1>3 DEF Restart, TypeOK, PhonesTyped
<1>4. ASSUME NEW d \in Devices, NEW ev \in events, AcceptInvitation(d, ev)
      PROVE  group'[x] # NoGroup
  BY <1>4 DEF AcceptInvitation, TypeOK, PhonesTyped
<1>5. ASSUME NEW d \in Devices, NEW ev \in events, OpenEnvelope(d, ev)
      PROVE  group'[x] # NoGroup
  <2>1. group[d] \in Groups /\ ev \in Envelopes
    BY <1>5, PhoneFacts, EventTypes DEF OpenEnvelope
  <2>2. Rekeyed(group[d], ev) \in Groups
    BY <2>1, RekeyedFacts
  <2>. QED BY <1>5, <2>2, CommitRemoteKeepsGroups DEF OpenEnvelope
<1>6. ASSUME NEW t \in tasks, CheckedWithChain(t) PROVE group'[x] # NoGroup
  <2>1. t.dev \in Devices /\ t.cand \in Groups
    BY <1>6, TaskKinds DEF CheckedWithChain, Checks
  <2>. QED BY <1>6, <2>1, CommitRemoteKeepsGroups DEF CheckedWithChain
<1>7. ASSUME NEW t \in tasks, ForkResolved(t) PROVE group'[x] # NoGroup
  <2>1. /\ t.dev \in Devices /\ group[t.dev] \in Groups /\ t.update \in Updates
        /\ t.update.epoch + 1 \in Nat
    BY <1>7, TaskKinds DEF ForkResolved, Forks, Updates
  <2>2. \A view \in Views : view.epoch \in Nat
    BY ChainFacts DEF Commitments
  <2>. QED BY <1>7, <2>1, <2>2, AdoptKeepsGroups DEF ForkResolved
<1>8. ASSUME NEW t \in tasks, Install(t) PROVE group'[x] # NoGroup
  <2>1. t.dev \in Devices /\ t.cand \in Groups
    BY <1>8, TaskKinds DEF Install, Transitions
  <2>. QED BY <1>8, <2>1, AbsentAssumption DEF Install, TypeOK, PhonesTyped
<1>9. UNCHANGED group => group'[x] # NoGroup
  OBVIOUS
<1>. QED BY <1>1, <1>2, <1>3, <1>4, <1>5, <1>6, <1>7, <1>8, <1>9, HearKeepsGroups
         DEF Next, Invite, ResendPendingRekeys, ExpirePendingRekey, ChainDecides, AnswerLost,
             Announce, SavePendingRekey, LoseEnvelope, vars

\* Numbers are given out one at a time.
LEMMA NumbersGrow ==
    ASSUME TypeOK, [Next]_vars
    PROVE  starts \in Nat /\ starts' \in {starts, starts + 1}
<1>1. starts \in Nat
  BY DEF TypeOK, HistoryTyped
<1>2. ASSUME NEW d \in Devices, RemoveSomeone(d) \/ RotateGroupKey(d) \/ Restart(d)
      PROVE  starts' \in {starts, starts + 1}
  BY <1>2 DEF RemoveSomeone, RotateGroupKey, Transition, Restart
<1>3. ASSUME NEW d \in Devices, NEW ev \in events, Hear(d, ev)
      PROVE  starts' \in {starts, starts + 1}
  BY <1>3 DEF Hear, MemberJoined, Transition, ApplyStateUpdate, RemovalNoticed, RekeyAcked, bounds
<1>4. ASSUME NEW d \in Devices, NEW ev \in events, AcceptInvitation(d, ev) \/ OpenEnvelope(d, ev)
      PROVE  starts' = starts
  BY <1>4 DEF AcceptInvitation, OpenEnvelope, bounds
<1>5. ASSUME NEW t \in tasks,
             \/ ChainDecides(t) \/ AnswerLost(t) \/ Install(t) \/ Announce(t)
             \/ SavePendingRekey(t) \/ CheckedWithChain(t) \/ ForkResolved(t)
      PROVE  starts' = starts
  BY <1>5 DEF ChainDecides, AnswerLost, Install, Announce, SavePendingRekey, CheckedWithChain,
              ForkResolved, bounds
<1>6. ASSUME NEW d \in Devices,
             \/ \E m \in Devices : Invite(d, m)
             \/ \E r \in pending[d] : ResendPendingRekeys(d, r) \/ ExpirePendingRekey(d, r)
      PROVE  starts' = starts
  BY <1>6 DEF Invite, ResendPendingRekeys, ExpirePendingRekey, bounds
<1>7. (\E ev \in events : LoseEnvelope(ev)) \/ UNCHANGED vars => starts' = starts
  BY DEF LoseEnvelope, vars, bounds
<1>. QED BY <1>1, <1>2, <1>3, <1>4, <1>5, <1>6, <1>7 DEF Next

\* The chain only grows.
LEMMA ChainGrows ==
    ASSUME TypeOK, [Next]_vars
    PROVE  \A e \in Nat : e < Len(chain) => chain'[e + 1] = chain[e + 1]
<1>1. ASSUME NEW t \in tasks, ChainDecides(t), chain' # chain
      PROVE  \A e \in Nat : e < Len(chain) => chain'[e + 1] = chain[e + 1]
  <2>. DEFINE c == [Commitment(t.cand) EXCEPT !.epoch = t.base.epoch + 1]
  <2>1. chain' = Append(chain, c) /\ t \in Transitions /\ t.base = OnChain
    BY <1>1, TaskKinds DEF ChainDecides, Acceptable
  <2>2. chain \in Seq(Commitments) /\ OnChain \in Commitments
    BY ChainFacts DEF TypeOK, ChainTyped
  <2>3. Commitment(t.cand) \in Commitments /\ t.base.epoch + 1 \in Nat
    BY <2>1, <2>2, CommitmentRecord DEF Transitions, Commitments
  <2>4. c \in Commitments
    BY <2>3 DEF Commitments
  <2>. HIDE DEF c
  <2>5. \A e \in Nat : e < Len(chain) => Append(chain, c)[e + 1] = chain[e + 1]
    BY ONLY <2>2, <2>4, AppendedFacts
  <2>. QED BY <2>1, <2>5
<1>2. ASSUME NEW d \in Devices, RemoveSomeone(d) \/ RotateGroupKey(d) \/ Restart(d)
      PROVE  chain' = chain
  BY <1>2 DEF RemoveSomeone, RotateGroupKey, Transition, Restart
<1>3. ASSUME NEW d \in Devices, NEW ev \in events,
             AcceptInvitation(d, ev) \/ Hear(d, ev) \/ OpenEnvelope(d, ev)
      PROVE  chain' = chain
  BY <1>3 DEF AcceptInvitation, Hear, MemberJoined, Transition, ApplyStateUpdate, RemovalNoticed,
              RekeyAcked, OpenEnvelope
<1>4. ASSUME NEW t \in tasks,
             \/ AnswerLost(t) \/ Install(t) \/ Announce(t)
             \/ SavePendingRekey(t) \/ CheckedWithChain(t) \/ ForkResolved(t)
      PROVE  chain' = chain
  BY <1>4 DEF AnswerLost, Install, Announce, SavePendingRekey, CheckedWithChain, ForkResolved
<1>5. ASSUME NEW d \in Devices,
             \/ \E m \in Devices : Invite(d, m)
             \/ \E r \in pending[d] : ResendPendingRekeys(d, r) \/ ExpirePendingRekey(d, r)
      PROVE  chain' = chain
  BY <1>5 DEF Invite, ResendPendingRekeys, ExpirePendingRekey
<1>6. (\E ev \in events : LoseEnvelope(ev)) \/ UNCHANGED vars => chain' = chain
  BY DEF LoseEnvelope, vars
<1>. QED BY <1>1, <1>2, <1>3, <1>4, <1>5, <1>6 DEF Next

\* Nobody becomes a member without a group.
LEMMA MembersKeepGroups ==
    ASSUME TypeOK, MembersHaveGroups, [Next]_vars
    PROVE  MembersHaveGroups'
<1>1. \A x \in Devices : Mentions(x)' => Named(x)
  BY NextNamed
<1>. QED BY <1>1, GroupsAreKept DEF MembersHaveGroups, Named

-------------------------------------------------------------------------------
(* Where a removal that is not installed yet comes from.                   *)

StartsRemoval(d, v) ==
    /\ group[d] # NoGroup /\ starts' = starts + 1 /\ UNCHANGED <<group, saved, pending, events>>
    /\ tasks' = tasks \cup {v}
    /\ v.kind = "transition" /\ v.phase = "sent" /\ v.gone # {}
    /\ v.dev = d /\ v.from = group[d] /\ v.cand.secret = starts + 1

IsAnswered(t, u) == u.phase = "accepted" /\ u.from = t.from /\ u.cand = t.cand

\* It was there before, or the contract has answered, or it is just started.
UnheardNext ==
    \/ \A u \in tasks' : Unheard(u) => u \in tasks
    \/ \E t \in tasks : \E v : /\ Unheard(t) /\ t.phase = "sent" /\ IsAnswered(t, v)
                               /\ \A u \in tasks' : Unheard(u) => u \in tasks \ {t} \/ u = v
    \/ \E d \in Devices : \E v : StartsRemoval(d, v)

LEMMA TransitionUnheard ==
    ASSUME TypeOK, NEW d \in Devices, NEW cand, NEW added, NEW gone,
           group[d] # NoGroup, Transition(d, cand, added, gone),
           gone # {} => cand.secret = starts + 1
    PROVE  UnheardNext
<1>. DEFINE Task(phase, base) == [kind |-> "transition", dev |-> d, from |-> group[d], cand |-> cand,
                                  added |-> added, gone |-> gone, phase |-> phase, base |-> base]
<1>1. PICK phase \in {"sent", "installed"} : \E base :
          /\ tasks' = tasks \cup {Task(phase, base)}
          /\ phase = "sent" => UNCHANGED group
  BY DEF Transition
<1>. PICK base : tasks' = tasks \cup {Task(phase, base)} /\ (phase = "sent" => UNCHANGED group)
  BY <1>1
<1>. PICK v : v = Task(phase, base)
  OBVIOUS
<1>2. /\ v.kind = "transition" /\ v.phase = phase /\ v.gone = gone /\ v.dev = d
      /\ v.from = group[d] /\ v.cand = cand
  OBVIOUS
<1>3. tasks' = tasks \cup {v} /\ starts' = starts + 1 /\ UNCHANGED <<saved, pending, events>>
  BY DEF Transition
<1>. HIDE DEF Task
<1>4. CASE Unheard(v)
  <2>1. v.phase = "sent" /\ v.gone # {}
    BY <1>1, <1>2, <1>4 DEF Unheard
  <2>2. StartsRemoval(d, v)
    BY <1>2, <1>3, <2>1 DEF StartsRemoval
  <2>. QED BY <2>2 DEF UnheardNext
<1>5. CASE ~Unheard(v)
  BY <1>3, <1>5 DEF UnheardNext
<1>. QED BY <1>4, <1>5

LEMMA ChainDecidesUnheard ==
    ASSUME TypeOK, NEW t \in tasks, ChainDecides(t)
    PROVE  UnheardNext
<1>1. t \in Transitions /\ t.kind = "transition" /\ t.phase = "sent"
  BY TaskKinds DEF ChainDecides
<1>. PICK v : v = [t EXCEPT !.phase = "accepted"]
  OBVIOUS
<1>2. v.phase = "accepted" /\ v.from = t.from /\ v.cand = t.cand /\ v.gone = t.gone
  BY <1>1, PhaseFacts
<1>3. tasks' \subseteq (tasks \ {t}) \cup {v}
  BY DEF ChainDecides, Change
<1>4. CASE t.gone = {}
  BY <1>2, <1>3, <1>4 DEF UnheardNext, Unheard
<1>5. CASE t.gone # {}
  <2>1. Unheard(t) /\ IsAnswered(t, v)
    BY <1>1, <1>2, <1>5 DEF Unheard, IsAnswered
  <2>2. \A u \in tasks' : Unheard(u) => u \in tasks \ {t} \/ u = v
    BY <1>3
  <2>. QED BY <1>1, <2>1, <2>2 DEF UnheardNext
<1>. QED BY <1>4, <1>5

LEMMA NextUnheard ==
    ASSUME TypeOK, [Next]_vars
    PROVE  UnheardNext
<1>1. ASSUME NEW d \in Devices, RemoveSomeone(d) PROVE UnheardNext
  <2>1. PICK m \in group[d].members : Transition(d, RemoveMember(group[d], m), {}, {m})
    BY <1>1 DEF RemoveSomeone
  <2>2. group[d] \in Groups /\ group[d] # NoGroup
    BY <1>1, PhoneFacts DEF RemoveSomeone, IsMember
  <2>3. RemoveMember(group[d], m).secret = starts + 1
    BY <2>2 DEF RemoveMember, Groups
  <2>. QED BY <2>1, <2>2, <2>3, TransitionUnheard
<1>2. ASSUME NEW d \in Devices, RotateGroupKey(d) PROVE UnheardNext
  BY <1>2, TransitionUnheard DEF RotateGroupKey, IsMember
<1>3. ASSUME NEW d \in Devices, NEW ev \in events, Hear(d, ev) PROVE UnheardNext
  <2>1. CASE MemberJoined(d, ev)
    BY <1>3, <2>1, HeardFacts, TransitionUnheard DEF Hear, MemberJoined
  <2>2. CASE ApplyStateUpdate(d, ev)
    <3>1. \A u \in tasks' : u \in tasks \/ u.kind \in {"fork", "check"}
      BY <2>2 DEF ApplyStateUpdate, SameEpoch, LaterEpoch
    <3>. QED BY <3>1 DEF UnheardNext, Unheard
  <2>3. CASE RemovalNoticed(d, ev) \/ RekeyAcked(d, ev)
    BY <2>3 DEF RemovalNoticed, RekeyAcked, UnheardNext
  <2>. QED BY <1>3, <2>1, <2>2, <2>3 DEF Hear
<1>4. ASSUME NEW d \in Devices, NEW ev \in events, OpenEnvelope(d, ev) PROVE UnheardNext
  <2>1. \A u \in tasks' : u \in tasks \/ u.kind = "rekey"
    BY <1>4 DEF OpenEnvelope
  <2>. QED BY <2>1 DEF UnheardNext, Unheard
<1>5. ASSUME NEW t \in tasks, NEW phase \in {"installed", "told"}, t \in Transitions, Change(t, phase)
      PROVE  UnheardNext
  <2>. PICK v : v = [t EXCEPT !.phase = phase]
    OBVIOUS
  <2>1. v.phase = phase /\ \A u \in tasks' : u \in tasks \/ u = v
    BY <1>5, PhaseFacts DEF Change
  <2>. QED BY <2>1 DEF UnheardNext, Unheard
<1>6. ASSUME NEW t \in tasks, Install(t) \/ Announce(t) PROVE UnheardNext
  <2>1. t \in Transitions
    BY <1>6, TaskKinds DEF Install, Announce
  <2>2. Change(t, "installed") \/ Change(t, "told") \/ tasks' = tasks \ {t}
    BY <1>6 DEF Install, Announce
  <2>3. CASE tasks' = tasks \ {t}
    BY <2>3 DEF UnheardNext
  <2>. QED BY <1>5, <2>1, <2>2, <2>3
<1>7. tasks' \subseteq tasks => UnheardNext
  BY DEF UnheardNext
<1>8. ASSUME NEW d \in Devices,
             \/ Restart(d)
             \/ \E m \in Devices : Invite(d, m)
             \/ \E r \in pending[d] : ResendPendingRekeys(d, r) \/ ExpirePendingRekey(d, r)
             \/ \E ev \in events : AcceptInvitation(d, ev)
      PROVE  UnheardNext
  BY <1>7, <1>8 DEF Restart, Invite, ResendPendingRekeys, ExpirePendingRekey, AcceptInvitation
<1>9. ASSUME NEW t \in tasks,
             AnswerLost(t) \/ SavePendingRekey(t) \/ CheckedWithChain(t) \/ ForkResolved(t)
      PROVE  UnheardNext
  BY <1>7, <1>9 DEF AnswerLost, SavePendingRekey, CheckedWithChain, ForkResolved
<1>10. (\E ev \in events : LoseEnvelope(ev)) \/ UNCHANGED vars => UnheardNext
  BY <1>7 DEF LoseEnvelope, vars
<1>. QED BY <1>1, <1>2, <1>3, <1>4, <1>6, <1>8, <1>9, <1>10, ChainDecidesUnheard DEF Next

\* A change that is installed waits no more.
LEMMA InstallEnds ==
    ASSUME TypeOK, NEW t \in tasks, Install(t)
    PROVE  t \notin tasks' /\ starts' = starts /\ chain' = chain /\ t.phase = "accepted"
<1>1. t \in Transitions /\ t.phase = "accepted"
  BY TaskKinds DEF Install
<1>. PICK v : v = [t EXCEPT !.phase = "installed"]
  OBVIOUS
<1>2. v.phase = "installed"
  BY <1>1, PhaseFacts
<1>3. tasks' = (tasks \ {t}) \cup {v}
  BY DEF Install, Change
<1>. QED BY <1>1, <1>2, <1>3 DEF Install, bounds

\* Starting a removal gives nobody a secret.
LEMMA StartsRemovalHolds ==
    ASSUME NEW d \in Devices, NEW v, StartsRemoval(d, v), NEW x \in Devices, NEW s, Holds(x, s)'
    PROVE  Holds(x, s)
<1>1. HoldsTask(v, x, s) => x = d /\ group[d].secret = s
  BY DEF StartsRemoval, HoldsTask, Unheard
<1>2. HoldsTask(v, x, s) => HoldsGroup(group[x], s)
  BY <1>1 DEF StartsRemoval, HoldsGroup
<1>. QED BY <1>2 DEF StartsRemoval, Holds

-------------------------------------------------------------------------------
(* What nobody knows of a removal stays unknown until it is installed.     *)

LEMMA UnheardNumbers ==
    ASSUME TypeOK, NEW t \in tasks, Unheard(t)
    PROVE  t.cand.secret \in Nat /\ t.from.secret \in Nat /\ starts \in Nat
BY TaskKinds, GroupRecord DEF Unheard, Transitions, TypeOK, HistoryTyped

\* The secret of a removal that is not installed by a step stays unknown.
LEMMA StaysUnknown ==
    ASSUME TypeOK, [Next]_vars, NEW sec, NEW top, UnheardIsUnknown(sec, top),
           NEW t \in tasks, Unheard(t), ~Install(t)
    PROVE  \A x \in Devices : ~Holds(x, t.cand.secret)'
<1>. PICK s : s = t.cand.secret
  OBVIOUS
<1>1. /\ s \in Nat /\ starts \in Nat /\ s <= starts /\ \A x \in Devices : ~Holds(x, s)
      /\ \A u \in tasks : Unheard(u) /\ u.cand.secret = s => u = t
  BY UnheardNumbers DEF UnheardIsUnknown
<1>2. ASSUME NEW x \in Devices, Holds(x, s)' PROVE FALSE
  <2>1. Gains(x, s)
    BY <1>2, NextGains
  <2>2. ~(s = starts' /\ starts' = starts + 1)
    BY <1>1
  <2>3. \A u \in tasks : ~(Install(u) /\ Unheard(u) /\ s = u.cand.secret)
    BY <1>1
  <2>. QED BY <1>1, <2>1, <2>2, <2>3 DEF Gains
<1>3. \A x \in Devices : ~Holds(x, s)'
  BY <1>2
<1>. QED BY <1>3

\* What is said of a removal that is not installed yet, after a step.
RemovalApart(u, sec, top) ==
    /\ u.from.secret < u.cand.secret /\ u.cand.secret <= starts'
    /\ \A e \in Nat : e < top => sec[e] # u.cand.secret
    /\ \A x \in Devices : ~Holds(x, u.cand.secret)'
    /\ \A t \in tasks : Install(t) /\ Unheard(t) => t.cand.secret # u.cand.secret

LEMMA OldRemovalApart ==
    ASSUME TypeOK, [Next]_vars, NEW sec, NEW top, UnheardIsUnknown(sec, top),
           NEW t \in tasks, Unheard(t), ~Install(t), NEW u, u.from = t.from, u.cand = t.cand
    PROVE  RemovalApart(u, sec, top)
<1>1. \A x \in Devices : ~Holds(x, t.cand.secret)'
  BY StaysUnknown
<1>2. t.from.secret < t.cand.secret /\ t.cand.secret <= starts'
  <2>. DEFINE a == t.from.secret
              b == t.cand.secret
  <2>1. a \in Nat /\ b \in Nat /\ a < b /\ b <= starts
    BY UnheardNumbers DEF UnheardIsUnknown
  <2>2. starts \in Nat /\ starts' \in {starts, starts + 1}
    BY NumbersGrow
  <2>. HIDE DEF a, b
  <2>3. a < b /\ b <= starts'
    BY <2>1, <2>2
  <2>. QED BY <2>3 DEF a, b
<1>3. \A w \in tasks : Install(w) /\ Unheard(w) => w.cand.secret # t.cand.secret
  BY DEF UnheardIsUnknown
<1>4. \A e \in Nat : e < top => sec[e] # t.cand.secret
  BY DEF UnheardIsUnknown
<1>. QED BY <1>1, <1>2, <1>3, <1>4 DEF RemovalApart

LEMMA NewRemovalApart ==
    ASSUME TypeOK, [Next]_vars, NEW sec \in [Nat -> Nat], NEW top \in Nat, Secrecy(sec, top),
           NEW d \in Devices, NEW u, StartsRemoval(d, u)
    PROVE  RemovalApart(u, sec, top)
<1>1. /\ starts \in Nat /\ starts' = starts + 1 /\ u.cand.secret = starts + 1
      /\ group[d] \in Groups /\ group[d] # NoGroup /\ u.from = group[d]
  BY PhoneFacts DEF StartsRemoval, TypeOK, HistoryTyped
<1>2. u.from.secret < u.cand.secret /\ u.cand.secret <= starts'
  <2>. DEFINE a == group[d].secret
  <2>1. a \in Nat /\ Holds(d, a)
    BY <1>1, GroupRecord DEF Holds, HoldsGroup
  <2>2. a <= starts
    BY <2>1 DEF Secrecy, HoldersEntitled
  <2>. HIDE DEF a
  <2>3. a < starts + 1 /\ starts + 1 <= starts + 1
    BY <1>1, <2>1, <2>2
  <2>. QED BY <1>1, <2>3 DEF a
<1>3. ASSUME NEW e \in Nat, e < top PROVE sec[e] # u.cand.secret
  <2>. DEFINE b == sec[e]
  <2>1. b \in Nat /\ b <= starts
    BY <1>3 DEF Secrecy
  <2>. HIDE DEF b
  <2>2. b # starts + 1
    BY <1>1, <2>1
  <2>. QED BY <1>1, <2>2 DEF b
<1>4. ASSUME NEW x \in Devices, Holds(x, starts + 1) PROVE FALSE
  <2>1. starts + 1 <= starts
    BY <1>1, <1>4 DEF Secrecy, HoldersEntitled
  <2>. QED BY <1>1, <2>1
<1>5. ASSUME NEW x \in Devices PROVE ~Holds(x, u.cand.secret)'
  <2>. PICK s : s = starts + 1
    OBVIOUS
  <2>1. ~Holds(x, s)'
    BY <1>4, StartsRemovalHolds
  <2>. QED BY <1>1, <2>1
<1>6. \A t \in tasks : ~Install(t)
  <2>1. starts' # starts
    BY <1>1
  <2>. QED BY <2>1, InstallEnds
<1>. QED BY <1>2, <1>3, <1>5, <1>6 DEF RemovalApart

\* Removals that are not installed yet stay apart from what is known, and from
\* each other.
LEMMA RemovalsApart ==
    ASSUME TypeOK, [Next]_vars, NEW sec \in [Nat -> Nat], NEW top \in Nat, Secrecy(sec, top)
    PROVE  /\ \A u \in tasks' : Unheard(u) => RemovalApart(u, sec, top)
           /\ \A u, w \in tasks' : Unheard(u) /\ Unheard(w) /\ w.cand.secret = u.cand.secret
                                   => w = u
<1>0. /\ UnheardIsUnknown(sec, top)
      /\ \A t, w \in tasks : Unheard(t) /\ Unheard(w) /\ w.cand.secret = t.cand.secret => w = t
  BY DEF Secrecy, UnheardIsUnknown
<1>1. ASSUME NEW u \in tasks', u \in tasks, Unheard(u) PROVE RemovalApart(u, sec, top)
  BY <1>0, <1>1, InstallEnds, OldRemovalApart
<1>2. CASE \A u \in tasks' : Unheard(u) => u \in tasks
  BY <1>0, <1>1, <1>2
<1>3. ASSUME NEW t \in tasks, NEW v, Unheard(t), t.phase = "sent", IsAnswered(t, v),
             \A u \in tasks' : Unheard(u) => u \in tasks \ {t} \/ u = v
      PROVE  /\ \A u \in tasks' : Unheard(u) => RemovalApart(u, sec, top)
             /\ \A u, w \in tasks' : Unheard(u) /\ Unheard(w) /\ w.cand.secret = u.cand.secret
                                     => w = u
  <2>1. RemovalApart(v, sec, top)
    BY <1>0, <1>3, InstallEnds, OldRemovalApart DEF IsAnswered
  <2>2. \A u \in tasks : Unheard(u) /\ u.cand.secret = v.cand.secret => u = t
    BY <1>0, <1>3 DEF IsAnswered
  <2>. QED BY <1>0, <1>1, <1>3, <2>1, <2>2
<1>4. ASSUME NEW d \in Devices, NEW v, StartsRemoval(d, v)
      PROVE  /\ \A u \in tasks' : Unheard(u) => RemovalApart(u, sec, top)
             /\ \A u, w \in tasks' : Unheard(u) /\ Unheard(w) /\ w.cand.secret = u.cand.secret
                                     => w = u
  <2>1. RemovalApart(v, sec, top)
    BY <1>4, NewRemovalApart
  <2>2. tasks' = tasks \cup {v} /\ v.cand.secret = starts + 1
    BY <1>4 DEF StartsRemoval
  <2>3. ASSUME NEW u \in tasks, Unheard(u) PROVE u.cand.secret # starts + 1
    <3>. DEFINE a == u.cand.secret
    <3>1. a \in Nat /\ starts \in Nat /\ a <= starts
      BY <1>0, <2>3, UnheardNumbers DEF UnheardIsUnknown
    <3>. HIDE DEF a
    <3>2. a # starts + 1
      BY <3>1
    <3>. QED BY <3>2 DEF a
  <2>. QED BY <1>0, <1>1, <2>1, <2>2, <2>3
<1>. QED BY <1>2, <1>3, <1>4, NextUnheard DEF UnheardNext

\* Who holds a number after a step: it is one that has been given out.
LEMMA HeldNumbers ==
    ASSUME TypeOK, [Next]_vars, NEW sec \in [Nat -> Nat], NEW top \in Nat, Secrecy(sec, top),
           NEW x \in Devices, NEW s \in Nat, Holds(x, s)'
    PROVE  s <= starts'
<1>1. starts \in Nat /\ starts' \in {starts, starts + 1}
  BY NumbersGrow
<1>2. Gains(x, s)
  BY NextGains
<1>3. s <= starts => s <= starts'
  BY <1>1
<1>4. s = starts' => s <= starts'
  BY <1>1
<1>5. (\E y \in Devices : Holds(y, s)) => s <= starts
  BY DEF Secrecy, HoldersEntitled
<1>6. \A t \in tasks : Unheard(t) /\ s = t.cand.secret => s <= starts
  BY DEF Secrecy, UnheardIsUnknown
<1>. QED BY <1>2, <1>3, <1>4, <1>5, <1>6 DEF Gains

\* A member of an epoch that has been reached has a group.
LEMMA ChainMembersHaveGroups ==
    ASSUME TypeOK, MembersHaveGroups, NEW top \in Nat, top <= Len(chain), NEW x \in Devices,
           NEW i \in Nat, i < top, x \in chain[i + 1].members
    PROVE  group[x] # NoGroup
<1>. DEFINE last == Len(chain)
<1>1. last \in Nat /\ DOMAIN chain = 1 .. last /\ top <= last
  BY ChainFacts
<1>. HIDE DEF last
<1>2. i + 1 \in DOMAIN chain
  BY <1>1
<1>. QED BY <1>2 DEF MembersHaveGroups, Mentions

\* A step gives no secret of an epoch before top to one who is counted out there.
LEMMA StaysEntitled ==
    ASSUME TypeOK, MembersHaveGroups, [Next]_vars, NEW sec \in [Nat -> Nat], NEW top \in Nat,
           top <= Len(chain), Secrecy(sec, top), NEW x \in Devices, NEW s \in Nat, Holds(x, s)'
    PROVE  Entitled(x, s, chain, sec, top)
<1>1. SUFFICES ASSUME NEW e \in Nat, NEW i \in Nat, e < top, i < top,
                      sec[e] = s, sec[i] < s, x \in chain[i + 1].members
               PROVE  x \in chain[e + 1].members
  BY DEF Entitled
<1>2. Gains(x, s)
  BY NextGains
<1>3. s <= starts /\ starts \in Nat
  BY <1>1, NumbersGrow DEF Secrecy
<1>4. ~(s = starts' /\ starts' = starts + 1)
  BY <1>3
<1>5. group[x] # NoGroup
  BY <1>1, ChainMembersHaveGroups
<1>6. \A t \in tasks : Unheard(t) => t.cand.secret # s
  BY <1>1 DEF Secrecy, UnheardIsUnknown
<1>7. Holds(x, s)
  BY <1>2, <1>4, <1>5, <1>6 DEF Gains
<1>8. Entitled(x, s, chain, sec, top)
  BY <1>7 DEF Secrecy, HoldersEntitled
<1>. QED BY <1>1, <1>8 DEF Entitled

LEMMA SecrecyOfSameTop ==
    ASSUME TypeOK, MembersHaveGroups, [Next]_vars, NEW sec \in [Nat -> Nat],
           NEW sec2 \in [Nat -> Nat], NEW top \in Nat, top <= Len(chain), Secrecy(sec, top),
           \A e \in Nat : e < top => sec2[e] = sec[e]
    PROVE  Secrecy(sec2, top)'
<1>1. \A e \in Nat : e < top => chain'[e + 1] = chain[e + 1]
  <2>. DEFINE last == Len(chain)
  <2>1. last \in Nat /\ top <= last /\ \A e \in Nat : e < last => chain'[e + 1] = chain[e + 1]
    BY ChainFacts, ChainGrows
  <2>. HIDE DEF last
  <2>. QED BY <2>1
<1>2. EpochsInOrder(chain', sec2, top)
  <2>1. SUFFICES ASSUME NEW i \in Nat, NEW e \in Nat, i <= e, e < top
                 PROVE  Succeeds(i, e, chain', sec2)
    BY DEF EpochsInOrder
  <2>2. i < top
    BY <2>1
  <2>3. Succeeds(i, e, chain, sec)
    BY <2>1 DEF Secrecy, EpochsInOrder
  <2>. QED BY <1>1, <2>1, <2>2, <2>3 DEF Succeeds
<1>3. ASSUME NEW e \in Nat, e < top PROVE sec2[e] <= starts'
  <2>. DEFINE b == sec2[e]
  <2>1. b \in Nat /\ b <= starts /\ starts \in Nat /\ starts' \in {starts, starts + 1}
    BY <1>3, NumbersGrow DEF Secrecy
  <2>. HIDE DEF b
  <2>2. b <= starts'
    BY ONLY <2>1
  <2>. QED BY <2>2 DEF b
<1>4. ASSUME NEW x \in Devices, NEW s \in Nat, Holds(x, s)'
      PROVE  s <= starts' /\ Entitled(x, s, chain', sec2, top)
  <2>1. s <= starts' /\ Entitled(x, s, chain, sec, top)
    BY <1>4, HeldNumbers, StaysEntitled
  <2>. QED BY <1>1, <2>1 DEF Entitled
<1>5. UnheardIsUnknown(sec2, top)'
  <2>1. /\ \A u \in tasks' : Unheard(u) => RemovalApart(u, sec, top)
        /\ \A u, w \in tasks' : Unheard(u) /\ Unheard(w) /\ w.cand.secret = u.cand.secret => w = u
    BY RemovalsApart
  <2>. QED BY <2>1 DEF UnheardIsUnknown, RemovalApart
<1>. QED BY <1>2, <1>3, <1>4, <1>5 DEF Secrecy, HoldersEntitled

LEMMA SucceedsTransitively ==
    ASSUME NEW i \in Nat, NEW e \in Nat, NEW n \in Nat, NEW ch, NEW sec \in [Nat -> Nat],
           Succeeds(i, e, ch, sec), Succeeds(e, n, ch, sec)
    PROVE  Succeeds(i, n, ch, sec)
<1>. DEFINE a == sec[i]
            b == sec[e]
            c == sec[n]
<1>1. a \in Nat /\ b \in Nat /\ c \in Nat
  OBVIOUS
<1>2. /\ a < b \/ (a = b /\ ch[i + 1].members \subseteq ch[e + 1].members)
      /\ b < c \/ (b = c /\ ch[e + 1].members \subseteq ch[n + 1].members)
  BY DEF Succeeds
<1>. HIDE DEF a, b, c
<1>3. a < c \/ (a = c /\ ch[i + 1].members \subseteq ch[n + 1].members)
  BY <1>1, <1>2
<1>. QED BY <1>3 DEF Succeeds, a, b, c

\* What the first true device that installs a change knows of it: either the
\* secret stays and members come, or it is a new one that nobody else has.
LEMMA InstallFacts ==
    ASSUME TypeOK, NEW sec \in [Nat -> Nat], NEW top \in Nat, Known(sec, top),
           Secrecy(sec, top), NEW t \in tasks, Install(t), IsTrue(t.dev)
    PROVE  \E p \in Nat :
             /\ p + 1 = top /\ sec[top] = t.cand.secret /\ chain[top + 1].members = t.cand.members
             /\ t.dev \in t.cand.members
             /\ \/ sec[top] = sec[p] /\ chain[p + 1].members \subseteq chain[top + 1].members
                \/ Unheard(t) /\ sec[p] < sec[top] /\ sec[top] <= starts
<1>1. /\ t \in Transitions /\ t.kind = "transition" /\ t.phase = "accepted"
      /\ t.from \in Groups /\ t.cand \in Groups
  BY TaskKinds DEF Install, Transitions
<1>2. TransitionFits(t, chain, sec, top)
  BY InstallMovesUp
<1>. PICK p : p = t.from.epoch
  OBVIOUS
<1>3. /\ p \in Nat /\ t.cand.epoch = p + 1 /\ t.cand.epoch = top
      /\ t.from.secret = sec[p] /\ t.from.members = chain[p + 1].members
  BY <1>1, <1>2, GroupRecord DEF TransitionFits, ShapeFits, Tracks
<1>4. sec[top] = t.cand.secret /\ chain[top + 1].members = t.cand.members
  BY <1>1, <1>2, CommitmentRecord DEF TransitionFits
<1>5. /\ t.dev \in t.cand.members /\ t.cand.members = (t.from.members \ t.gone) \cup t.added
      /\ t.gone = {} => t.cand.secret = t.from.secret
  BY <1>2 DEF TransitionFits, ShapeFits
<1>6. CASE t.gone = {}
  BY <1>3, <1>4, <1>5, <1>6
<1>7. CASE t.gone # {}
  <2>1. Unheard(t)
    BY <1>1, <1>7 DEF Unheard
  <2>2. t.from.secret < t.cand.secret /\ t.cand.secret <= starts
    BY <2>1 DEF Secrecy, UnheardIsUnknown
  <2>. QED BY <1>3, <1>4, <1>5, <2>1, <2>2
<1>. QED BY <1>6, <1>7

LEMMA SecrecyOfNextTop ==
    ASSUME TypeOK, MembersHaveGroups, [Next]_vars, NEW sec \in [Nat -> Nat],
           NEW top \in Nat, top <= Len(chain), Known(sec, top), Secrecy(sec, top),
           NEW t \in tasks, Install(t), IsTrue(t.dev), NEW top2 \in Nat, top2 = top + 1
    PROVE  Secrecy(sec, top2)'
<1>1. chain' = chain /\ starts' = starts /\ t \notin tasks' /\ starts \in Nat
      /\ starts # starts + 1 /\ t.phase = "accepted"
  BY InstallEnds, NumbersGrow
<1>2. PICK p \in Nat :
        /\ p + 1 = top /\ sec[top] = t.cand.secret /\ chain[top + 1].members = t.cand.members
        /\ t.dev \in t.cand.members
        /\ \/ sec[top] = sec[p] /\ chain[p + 1].members \subseteq chain[top + 1].members
           \/ Unheard(t) /\ sec[p] < sec[top] /\ sec[top] <= starts
  BY InstallFacts
<1>3. p < top /\ \A e \in Nat : e < top2 <=> (e < top \/ e = top)
  BY ONLY <1>2, p \in Nat, top \in Nat, top2 \in Nat, top2 = top + 1
<1>4. \A i \in Nat : i < top => i <= p
  BY <1>2
<1>5. Succeeds(p, top, chain, sec)
  BY <1>2 DEF Succeeds
<1>6. EpochsInOrder(chain, sec, top2)
  <2>1. SUFFICES ASSUME NEW i \in Nat, NEW e \in Nat, i <= e, e < top2
                 PROVE  Succeeds(i, e, chain, sec)
    BY DEF EpochsInOrder
  <2>2. CASE e < top
    BY <2>1, <2>2 DEF Secrecy, EpochsInOrder
  <2>3. CASE e = top /\ i = top
    BY <2>3 DEF Succeeds
  <2>4. CASE e = top /\ i < top
    <3>1. Succeeds(i, p, chain, sec)
      BY <1>3, <1>4, <2>4 DEF Secrecy, EpochsInOrder
    <3>. QED BY <1>5, <2>4, <3>1, SucceedsTransitively
  <2>5. e = top => i = top \/ i < top
    BY <2>1
  <2>. QED BY <1>3, <2>1, <2>2, <2>3, <2>4, <2>5
<1>7. ASSUME NEW e \in Nat, e < top2 PROVE sec[e] <= starts'
  <2>1. \A n \in Nat : n < top => sec[n] <= starts
    BY DEF Secrecy
  <2>2. sec[top] <= starts
    BY <1>2, <1>3, <2>1
  <2>. QED BY <1>1, <1>3, <1>7, <2>1, <2>2
<1>8. ASSUME NEW x \in Devices, NEW s \in Nat, Holds(x, s)'
      PROVE  Entitled(x, s, chain, sec, top2)
  <2>1. Entitled(x, s, chain, sec, top)
    BY <1>8, StaysEntitled
  <2>2. SUFFICES ASSUME NEW e \in Nat, NEW i \in Nat, e < top2, i < top2,
                        sec[e] = s, sec[i] < s, x \in chain[i + 1].members
                 PROVE  x \in chain[e + 1].members
    BY DEF Entitled
  <2>3. i < top
    <3>1. SUFFICES ASSUME i = top PROVE FALSE
      BY <1>3, <2>2
    <3>2. e <= top
      BY <1>3, <2>2
    <3>3. Succeeds(e, top, chain, sec)
      BY <1>3, <1>6, <2>2, <3>1, <3>2 DEF EpochsInOrder
    <3>4. sec[e] \in Nat /\ sec[top] \in Nat /\ (sec[e] < sec[top] \/ sec[e] = sec[top])
      BY <3>3 DEF Succeeds
    <3>5. sec[top] < s /\ sec[e] = s
      BY <2>2, <3>1
    <3>. DEFINE a == sec[top]
                b == sec[e]
    <3>6. a \in Nat /\ b \in Nat /\ (b < a \/ b = a) /\ a < b
      BY <3>4, <3>5
    <3>. HIDE DEF a, b
    <3>. QED BY ONLY <3>6
  <2>4. CASE e < top
    BY <2>1, <2>2, <2>3, <2>4 DEF Entitled
  <2>5. CASE e = top /\ sec[top] = sec[p] /\ chain[p + 1].members \subseteq chain[top + 1].members
    BY <1>3, <2>1, <2>2, <2>3, <2>5 DEF Entitled
  <2>6. CASE e = top /\ Unheard(t)
    <3>1. s = t.cand.secret /\ Gains(x, s)
      BY <1>2, <1>8, <2>2, <2>6, NextGains
    <3>2. /\ \A y \in Devices : ~Holds(y, s)
          /\ \A u \in tasks : Unheard(u) /\ u.cand.secret = s => u = t
      BY <2>6, <3>1 DEF Secrecy, UnheardIsUnknown
    <3>3. x = t.dev \/ x \in t.cand.members
      BY <1>1, <3>1, <3>2 DEF Gains
    <3>. QED BY <1>2, <2>6, <3>3
  <2>. QED BY <1>2, <1>3, <2>2, <2>4, <2>5, <2>6
<1>9. UnheardIsUnknown(sec, top2)'
  <2>1. /\ \A u \in tasks' : Unheard(u) => RemovalApart(u, sec, top)
        /\ \A u, w \in tasks' : Unheard(u) /\ Unheard(w) /\ w.cand.secret = u.cand.secret => w = u
    BY RemovalsApart
  <2>2. ASSUME NEW u \in tasks', Unheard(u) PROVE sec[top] # u.cand.secret
    <3>1. CASE sec[top] = sec[p]
      BY <1>3, <2>1, <2>2, <3>1 DEF RemovalApart
    <3>2. CASE Unheard(t)
      BY <1>2, <2>1, <2>2, <3>2 DEF RemovalApart
    <3>. QED BY <1>2, <3>1, <3>2
  <2>. QED BY <1>3, <2>1, <2>2 DEF UnheardIsUnknown, RemovalApart
<1>10. \A x \in Devices, s \in Nat : Holds(x, s)' => s <= starts'
  BY HeldNumbers
<1>11. HoldersEntitled(sec, top2)'
  BY <1>1, <1>8, <1>10 DEF HoldersEntitled
<1>. QED BY <1>1, <1>6, <1>7, <1>9, <1>11 DEF Secrecy

LEMMA SecrecyKept ==
    ASSUME SecrecyInv, [Next]_vars
    PROVE  SecrecyInv'
<1>1. TypeOK /\ MembersHaveGroups /\ TypeOK' /\ MembersHaveGroups'
  BY NextTyped, MembersKeepGroups DEF SecrecyInv
<1>2. PICK sec \in [Nat -> Nat], top \in Nat :
        top <= Len(chain) /\ Known(sec, top) /\ Secrecy(sec, top)
  BY DEF SecrecyInv
<1>3. PICK sec2 \in [Nat -> Nat], top2 \in Nat :
        top2 <= Len(chain') /\ Known(sec2, top2)' /\ Moves(sec, top, sec2, top2)
  BY <1>1, <1>2, NextKnown DEF KnownNext
<1>4. Secrecy(sec2, top2)'
  BY <1>1, <1>2, <1>3, SecrecyOfSameTop, SecrecyOfNextTop DEF Moves
<1>. QED BY <1>1, <1>3, <1>4 DEF SecrecyInv

LEMMA InitSecrecy ==
    ASSUME Init
    PROVE  SecrecyInv
<1>. PICK members \in FirstMembers :
        LET g == [epoch |-> 0, members |-> members, salt |-> <<0>>, secret |-> 0,
                  published |-> TRUE]
        IN  /\ chain = <<Commitment(g)>>
            /\ group = [d \in Devices |-> IF d \in members THEN g ELSE NoGroup]
  BY DEF Init
<1>. DEFINE g == [epoch |-> 0, members |-> members, salt |-> <<0>>, secret |-> 0,
                  published |-> TRUE]
<1>1. members \subseteq Devices
  BY SyncAssumption
<1>2. g \in Groups
  BY <1>1 DEF Groups, Salts
<1>3. /\ chain = <<Commitment(g)>> /\ starts = 0
      /\ \A d \in Devices : d \in members => group[d] = g
      /\ \A d \in Devices : d \notin members => group[d] = NoGroup
      /\ saved = group /\ tasks = {} /\ events = {}
      /\ \A d \in Devices : pending[d] = {}
  BY DEF Init
<1>4. g.epoch = 0 /\ g.members = members /\ g.secret = 0 /\ g # NoGroup
      /\ g.members = Commitment(g).members
  BY <1>2, CommitmentRecord, AbsentAssumption
<1>. HIDE DEF g
<1>5. DOMAIN chain = {1} /\ chain[1] = Commitment(g) /\ Len(chain) = 1
  BY <1>3
<1>6. MembersHaveGroups
  <2>1. ASSUME NEW x \in Devices, Mentions(x) PROVE x \in members
    BY <1>3, <1>4, <1>5, <2>1 DEF Mentions
  <2>. QED BY <1>3, <1>4, <2>1 DEF MembersHaveGroups
<1>7. PICK sec \in [Nat -> Nat], top \in Nat : top <= Len(chain) /\ Known(sec, top)
  BY InitKnown DEF SyncInv
<1>8. \A e \in Nat : e < top => e = 0
  BY <1>5, <1>7
<1>9. sec[0] = 0
  <2>1. PICK d \in Devices : d \in members
    BY <1>1, SyncAssumption
  <2>2. group[d] = g /\ IsTrue(d)
    BY <1>3, <2>1 DEF IsTrue, Init
  <2>3. Tracks(g, chain, sec, top)
    BY <1>4, <1>7, <2>2 DEF Known, DeviceFits, PhoneFits, GroupFits
  <2>. QED BY <1>4, <2>3 DEF Tracks
<1>10. EpochsInOrder(chain, sec, top)
  <2>1. SUFFICES ASSUME NEW i \in Nat, NEW e \in Nat, i <= e, e < top
                 PROVE  Succeeds(i, e, chain, sec)
    BY DEF EpochsInOrder
  <2>2. e = 0 /\ i = 0
    BY <1>8, <2>1
  <2>. QED BY <2>2 DEF Succeeds
<1>11. ASSUME NEW e \in Nat, e < top PROVE sec[e] <= starts
  <2>1. sec[e] = 0 /\ starts = 0
    BY <1>3, <1>8, <1>9, <1>11
  <2>. QED BY ONLY <2>1
<1>12. HoldersEntitled(sec, top)
  <2>1. SUFFICES ASSUME NEW x \in Devices, NEW s \in Nat, Holds(x, s)
                 PROVE  s <= starts /\ Entitled(x, s, chain, sec, top)
    BY DEF HoldersEntitled
  <2>2. s = 0
    BY <1>3, <1>4, <2>1 DEF Holds, HoldsGroup
  <2>3. \A i \in Nat : i < top => ~(sec[i] < s)
    BY <1>8, <1>9, <2>2
  <2>. QED BY <1>3, <2>2, <2>3 DEF Entitled
<1>13. UnheardIsUnknown(sec, top)
  BY <1>3 DEF UnheardIsUnknown
<1>14. Secrecy(sec, top)
  BY <1>10, <1>11, <1>12, <1>13 DEF Secrecy
<1>. QED BY <1>6, <1>7, <1>14, InitTyped DEF SecrecyInv

\* The secrets of the epochs come in the order in which they were made, and
\* whoever has the secret of an epoch, or may be given it by a message or an
\* answer that is on its way, is counted in at that epoch if it ever was at an
\* epoch of an earlier secret.  The secret of a removal is its device's alone until the
\* contract has accepted it and the device installs it.
THEOREM SecretsInvariant == Spec => []SecrecyInv
<1>1. Init => SecrecyInv
  BY InitSecrecy
<1>2. SecrecyInv /\ [Next]_vars => SecrecyInv'
  BY SecrecyKept
<1>. QED BY <1>1, <1>2, PTL DEF Spec

LEMMA SecretsLost ==
    ASSUME SecrecyInv
    PROVE  RemovedMembersLoseTheSecret
<1>1. SUFFICES ASSUME NEW d \in Devices, NEW m \in Devices \ unverified,
                      group[d] # NoGroup, group[m] # NoGroup,
                      NEW i \in 0 .. group[m].epoch, d \in ChainAt(i).members,
                      d \notin ChainAt(group[m].epoch).members
               PROVE  ~Holds(d, group[m].secret)
  <2>1. \A s : \A d \in Devices : group[d] # NoGroup /\ group[d].secret = s => Holds(d, s)
    BY DEF Holds, HoldsGroup
  <2>2. \A s : \A d \in Devices : \A ev \in events :
            ev.type = "envelope" /\ ev.to = d /\ ev.secret = s => Holds(d, s)
    BY DEF Holds, HoldsMessage
  <2>. QED BY <1>1, <2>1, <2>2 DEF RemovedMembersLoseTheSecret
<1>2. PICK sec \in [Nat -> Nat], top \in Nat :
        top <= Len(chain) /\ Known(sec, top) /\ Secrecy(sec, top)
  BY DEF SecrecyInv
<1>3. TypeOK /\ group[m] \in Groups
  BY <1>1, PhoneFacts DEF SecrecyInv
<1>. PICK e : e = group[m].epoch
  OBVIOUS
<1>4. e \in Nat /\ e < top /\ group[m].secret = sec[e]
  BY <1>1, <1>2, <1>3, GroupRecord DEF Known, IsTrue, DeviceFits, PhoneFits, GroupFits, Tracks
<1>5. i \in Nat /\ i <= e
  BY <1>4
<1>6. i < top
  BY <1>4, <1>5
<1>7. d \in chain[i + 1].members /\ d \notin chain[e + 1].members
  BY <1>1 DEF ChainAt
<1>8. Succeeds(i, e, chain, sec)
  BY <1>2, <1>4, <1>5 DEF Secrecy, EpochsInOrder
<1>9. sec[i] < sec[e]
  BY <1>7, <1>8 DEF Succeeds
<1>10. sec[e] \in Nat
  BY <1>4
<1>11. ASSUME Holds(d, sec[e]) PROVE FALSE
  <2>1. Entitled(d, sec[e], chain, sec, top)
    BY <1>2, <1>10, <1>11 DEF Secrecy, HoldersEntitled
  <2>. QED BY <1>4, <1>5, <1>6, <1>7, <1>9, <2>1 DEF Entitled
<1>. QED BY <1>4, <1>11

\* Whoever was a member and is counted out at the epoch of a device that follows
\* the chain has not got that device's secret and is not sent it, by whatever is
\* late, lost or sent again.
THEOREM RemovedMembersLoseTheSecretAlways == Spec => []RemovedMembersLoseTheSecret
BY SecretsInvariant, SecretsLost, PTL
===============================================================================

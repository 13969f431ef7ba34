------------------------------ MODULE PushWatcher ------------------------------
(***************************************************************************)
(* The push notification relay: registrations (pn-relay/src/handler.rs and *)
(* db.rs) against the task that watches the Nostr relay and pushes what it *)
(* hears (nostr_watcher.rs).  Handlers and the watcher share the database  *)
(* and a watch channel that says that the subscriptions have changed.  A   *)
(* step is what happens between two awaits, or one SQL statement.          *)
(*                                                                         *)
(* A row is a filter, a token, and whether a push for it went out so       *)
(* recently that the rate limit holds the next one back.  Encryption and   *)
(* payloads are left out but for the slice of the id that can end the      *)
(* task, and the three gateways are one.  Nothing that the watcher awaits  *)
(* has a timeout: a connect, a REQ, a push and a dead connection that      *)
(* nobody reports may each last for ever.                                  *)
(***************************************************************************)
EXTENDS Naturals, Sequences, FiniteSets, SequencesExt

CONSTANTS
    Ids,                \* subscription ids
    CutIds,             \* the ids whose eighth byte is inside a character
    Tokens,             \* device tokens
    Endpoints,          \* the tokens that are UnifiedPush addresses
    TopicTags, InboxTags,
    Like,               \* the stored tags that the LIKE pattern of each tag matches
    Filters,            \* the sets of tags that a device registers for
    Events,             \* the numbers of the events, in the order of their stamps
    TagsOf,             \* the tags of each
    Ephemeral,          \* those that a relay passes on and does not keep
    NoRow,
    RingSize,           \* events that the watcher remembers
    MaxRequests,        \* bound: requests of devices
    MaxFaults           \* bound: everything that fails or expires

ASSUME PushAssumption ==
    /\ Events \subseteq Nat /\ IsFiniteSet(Events) /\ Ephemeral \subseteq Events
    /\ TagsOf \in [Events -> SUBSET (TopicTags \cup InboxTags)]
    /\ Filters \subseteq SUBSET (TopicTags \cup InboxTags)
    /\ TopicTags \cap InboxTags = {}
    /\ Like \in [TopicTags \cup InboxTags -> SUBSET (TopicTags \cup InboxTags)]
    /\ CutIds \subseteq Ids /\ Endpoints \subseteq Tokens
    /\ RingSize \in Nat \ {0} /\ MaxRequests \in Nat /\ MaxFaults \in Nat

\* A row of the table is never taken for a missing one.
ASSUME NoRowAssumption == NoRow \notin [filter : Filters, token : Tokens, recent : BOOLEAN]

VARIABLES
    rows,           \* the table of subscriptions
    unsignalled,    \* handlers that have written and not signalled yet
    signalled,      \* the watch channel has a change that the watcher has not seen
    published, stored,  \* events that were published, and those that the relay keeps
    up,             \* the watcher's connection is alive
    silent,         \* it is not, and nothing has told the watcher's socket so
    subscribed,     \* the tags of its REQs, as the relay has them
    wire,           \* events on their way to the watcher
    watcher,        \* what the watcher's task is doing
    seen,           \* its ring of event ids, oldest first
    dead,           \* tokens that the gateway does not know any more
    requests, faults,
    pushed,         \* history: how often <<id, event>> was pushed
    forgotten,      \* history: events that the watcher has seen and forgotten
    blurred         \* history: the REQs were built after a query had failed

relay == <<published, stored, up, silent, subscribed, wire>>
history == <<pushed, forgotten, blurred>>
vars == <<rows, unsignalled, signalled, relay, watcher, seen, dead, requests, faults, history>>

Tags == TopicTags \cup InboxTags

Registered == {i \in Ids : rows[i] # NoRow}

\* The rows that the LIKE pattern of a tag matches.  A quote is stripped from the
\* pattern and a backslash is not doubled as it is in the stored JSON, so a tag
\* that has one does not lead to its own row, and may lead to another's.
SubscriptionsFor(tag) == {i \in Registered : rows[i].filter \cap Like[tag] # {}}

Fault == faults < MaxFaults /\ faults' = faults + 1

-------------------------------------------------------------------------------
(* Devices, and the statements that write the table.                       *)

Row(filter, token) == [filter |-> filter, token |-> token, recent |-> FALSE]

\* INSERT OR REPLACE: a row that was there is gone with its stamps.
InsertSubscription(i, row) == rows' = [rows EXCEPT ![i] = row]

UpdateSubscriptionFilter(i, filter) ==
    i \in Registered /\ rows' = [rows EXCEPT ![i].filter = filter]

DeleteSubscription(i) == rows' = [rows EXCEPT ![i] = NoRow]

Request == requests < MaxRequests /\ requests' = requests + 1 /\ unsignalled' = unsignalled + 1

Subscribe(i, token, filter) ==
    /\ Request
    /\ InsertSubscription(i, Row(filter, token))
    /\ UNCHANGED <<signalled, relay, watcher, seen, dead, faults, history>>

\* Mutant: the watcher is not told of an update.
UpdateQuietly(i, filter) ==
    /\ requests < MaxRequests /\ requests' = requests + 1
    /\ UpdateSubscriptionFilter(i, filter)
    /\ UNCHANGED <<unsignalled, signalled, relay, watcher, seen, dead, faults, history>>

Update(i, filter) ==
    /\ Request
    /\ UpdateSubscriptionFilter(i, filter)
    /\ UNCHANGED <<signalled, relay, watcher, seen, dead, faults, history>>

Unsubscribe(i) ==
    /\ i \in Registered
    /\ Request
    /\ DeleteSubscription(i)
    /\ UNCHANGED <<signalled, relay, watcher, seen, dead, faults, history>>

\* Only after the row is written does the handler wake the watcher.
Signal ==
    /\ unsignalled > 0
    /\ unsignalled' = unsignalled - 1
    /\ signalled' = TRUE
    /\ UNCHANGED <<rows, relay, watcher, seen, dead, requests, faults, history>>

TokenDies(token) ==
    /\ token \notin dead
    /\ Fault
    /\ dead' = dead \cup {token}
    /\ UNCHANGED <<rows, unsignalled, signalled, relay, watcher, seen, requests, history>>

\* The rate limit's window of a subscription ends.
WindowEnds(i) ==
    /\ i \in Registered /\ rows[i].recent
    /\ rows' = [rows EXCEPT ![i].recent = FALSE]
    /\ UNCHANGED <<unsignalled, signalled, relay, watcher, seen, dead, requests, faults, history>>

\* The daily cleanup: a row that nobody renewed and nothing was pushed to.
DeleteStale(i) ==
    /\ i \in Registered /\ ~rows[i].recent
    /\ Fault
    /\ rows' = [rows EXCEPT ![i] = NoRow]
    /\ UNCHANGED <<unsignalled, signalled, relay, watcher, seen, dead, requests, history>>

-------------------------------------------------------------------------------
(* The Nostr relay.                                                        *)

\* One REQ asks for the topics and one for the inboxes; an event that both ask
\* for is sent twice.
Copies(e, tags) ==
    IF TagsOf[e] \cap tags \cap TopicTags # {} /\ TagsOf[e] \cap tags \cap InboxTags # {}
    THEN <<e, e>>
    ELSE IF TagsOf[e] \cap tags # {} THEN <<e>> ELSE <<>>

\* What it keeps is sent again to whoever asks, the newest first.
Replay(tags) ==
    LET newest == SetToSortSeq({e \in stored : TagsOf[e] \cap tags # {}}, >)
    IN  FlattenSeq([n \in DOMAIN newest |-> Copies(newest[n], tags)])

Publish(e) ==
    /\ e \notin published
    /\ published' = published \cup {e}
    /\ stored' = stored \cup ({e} \ Ephemeral)
    /\ wire' = wire \o Copies(e, subscribed)
    /\ UNCHANGED <<rows, unsignalled, signalled, up, silent, subscribed, watcher, seen, dead,
                   requests, faults, history>>

\* The watcher's socket hears of it, or does not: the watcher sends no pings.
LinkDies ==
    /\ up
    /\ Fault
    /\ up' = FALSE /\ silent' \in BOOLEAN /\ subscribed' = {}
    /\ wire' \in {wire, <<>>}
    /\ UNCHANGED <<rows, unsignalled, signalled, published, stored, watcher, seen, dead, requests,
                   history>>

\* It hears of it after all, which nothing guarantees.
Notice ==
    /\ silent
    /\ silent' = FALSE
    /\ UNCHANGED <<rows, unsignalled, signalled, published, stored, up, subscribed, wire, watcher,
                   seen, dead, requests, faults, history>>

-------------------------------------------------------------------------------
(* The watcher.                                                            *)

At(pc) == watcher.pc = pc

Idle == [pc |-> "idle"]

\* Mutant: only a refresh sends the REQs.
ConnectOnly ==
    /\ At("connecting")
    /\ up' = TRUE /\ silent' = FALSE /\ subscribed' = {} /\ wire' = <<>>
    /\ watcher' = Idle
    /\ UNCHANGED <<rows, unsignalled, signalled, published, stored, seen, dead, requests, faults,
                   history>>

Connect ==
    /\ At("connecting")
    /\ up' = TRUE /\ silent' = FALSE /\ subscribed' = {} /\ wire' = <<>>
    /\ watcher' = [pc |-> "subscribing"]
    /\ UNCHANGED <<rows, unsignalled, signalled, published, stored, seen, dead, requests, faults,
                   history>>

TagsFor(ids) == UNION {rows[i].filter : i \in ids}

\* The tags of the filters that the lookups find: one for every registered tag,
\* of which any may fail.
Whole == UNION {SubscriptionsFor(tag) : tag \in TagsFor(Registered)}

\* When none is found, all tags are asked for as if they were topics.
SendSubscriptions ==
    /\ At("subscribing")
    /\ \/ /\ up
          /\ \E found \in SUBSET Whole :
                LET tags == IF found = {} THEN TagsFor(Registered) \ InboxTags ELSE TagsFor(found)
                IN  /\ blurred' = (found # Whole)
                    /\ IF blurred' THEN Fault ELSE UNCHANGED faults
                    /\ subscribed' = tags
                    /\ wire' = wire \o Replay(tags)
          /\ watcher' = Idle
       \/ /\ silent
          /\ watcher' = Idle
          /\ UNCHANGED <<subscribed, wire, blurred, faults>>
       \/ /\ IF up THEN Fault ELSE UNCHANGED faults
          /\ watcher' = [pc |-> "connecting"]
          /\ UNCHANGED <<subscribed, wire, blurred>>
    /\ UNCHANGED <<rows, unsignalled, signalled, published, stored, up, silent, seen, dead, requests,
                   pushed, forgotten>>

\* The change is marked as seen, then the REQs are closed and sent again.
Refresh ==
    /\ At("idle") /\ signalled
    /\ signalled' = FALSE
    /\ subscribed' = {}
    /\ watcher' = [pc |-> "subscribing"]
    /\ UNCHANGED <<rows, unsignalled, published, stored, up, silent, wire, seen, dead, requests,
                   faults, history>>

Disconnected ==
    /\ At("idle") /\ ~up /\ ~silent /\ wire = <<>>
    /\ watcher' = [pc |-> "connecting"]
    /\ UNCHANGED <<rows, unsignalled, signalled, relay, seen, dead, requests, faults, history>>

\* An event is remembered before anything is done with it.
Receive ==
    /\ At("idle") /\ wire # <<>>
    /\ wire' = Tail(wire)
    /\ LET e    == Head(wire)
           ring == Append(seen, e)
       IN  IF e \in ToSet(seen)
           THEN UNCHANGED <<watcher, seen, forgotten>>
           ELSE /\ seen' = IF Len(ring) > RingSize THEN Tail(ring) ELSE ring
                /\ forgotten' = forgotten \cup (IF Len(ring) > RingSize THEN {Head(ring)} ELSE {})
                /\ watcher' = [pc |-> "query", event |-> e, tags |-> TagsOf[e], done |-> {},
                               queue |-> {}]
    /\ UNCHANGED <<rows, unsignalled, signalled, published, stored, up, silent, subscribed, dead,
                   requests, faults, pushed, blurred>>

\* The rows of one of the event's tags are read; a query that fails is skipped.
Query(tag) ==
    /\ At("query") /\ tag \in watcher.tags /\ watcher.queue = {}
    /\ \/ /\ watcher' = [watcher EXCEPT !.tags = @ \ {tag},
                          !.queue = {[id |-> i, row |-> rows[i]] : i \in SubscriptionsFor(tag)}]
          /\ UNCHANGED faults
       \/ watcher' = [watcher EXCEPT !.tags = @ \ {tag}] /\ Fault
    /\ UNCHANGED <<rows, unsignalled, signalled, relay, seen, dead, requests, history>>

Skip(sub) ==
    /\ At("query") /\ sub \in watcher.queue
    /\ sub.id \in watcher.done \/ sub.row.recent
    /\ watcher' = [watcher EXCEPT !.queue = @ \ {sub}, !.done = @ \cup {sub.id}]
    /\ UNCHANGED <<rows, unsignalled, signalled, relay, seen, dead, requests, faults, history>>

\* The event with the subscription that is being pushed, and without.
Pushing(sub) ==
    [pc |-> "push", event |-> watcher.event, tags |-> watcher.tags,
     done |-> watcher.done \cup {sub.id}, queue |-> watcher.queue \ {sub}, sub |-> sub]

Dispatching ==
    [pc |-> "query", event |-> watcher.event, tags |-> watcher.tags,
     done |-> watcher.done, queue |-> watcher.queue]

\* The rate limit lets it through.
Due(sub) ==
    /\ At("query") /\ sub \in watcher.queue
    /\ sub.row.recent => sub.id \in Registered /\ ~rows[sub.id].recent

\* The payloads of APNs and FCM name the subscription by the first eight bytes of
\* its id, which panics inside a character.
Cut(sub) == sub.id \in CutIds /\ sub.row.token \notin Endpoints

\* Mutant: a subscription that two tags lead to is pushed for each.
StartPushPerTag(sub) ==
    /\ Due(sub) /\ ~Cut(sub)
    /\ watcher' = Pushing(sub)
    /\ UNCHANGED <<rows, unsignalled, signalled, relay, seen, dead, requests, faults, history>>

StartPush(sub) ==
    /\ Due(sub) /\ ~Cut(sub)
    /\ sub.id \notin watcher.done
    /\ watcher' = Pushing(sub)
    /\ UNCHANGED <<rows, unsignalled, signalled, relay, seen, dead, requests, faults, history>>

\* The watcher's task ends, and nothing starts another.
Panic(sub) ==
    /\ Due(sub) /\ Cut(sub)
    /\ sub.id \notin watcher.done
    /\ watcher' = [pc |-> "ended"]
    /\ up' = FALSE /\ silent' = FALSE /\ subscribed' = {} /\ wire' = <<>>
    /\ UNCHANGED <<rows, unsignalled, signalled, published, stored, seen, dead, requests, faults,
                   history>>

Pushed(n) ==
    /\ At("push")
    /\ watcher' = Dispatching
    /\ pushed' = [pushed EXCEPT ![<<watcher.sub.id, watcher.event>>] = IF @ < 2 THEN @ + n ELSE @]
    /\ UNCHANGED <<unsignalled, signalled, relay, seen, dead, requests, forgotten, blurred>>

\* The stamp is written to whatever row has the id by now, if it can be written.
PushSucceeds ==
    /\ Pushed(1)
    /\ watcher.sub.row.token \notin dead
    /\ LET i == watcher.sub.id
       IN  \/ /\ rows' = IF i \in Registered THEN [rows EXCEPT ![i].recent = TRUE] ELSE rows
              /\ UNCHANGED faults
           \/ UNCHANGED rows /\ Fault

PushFails ==
    /\ Pushed(0)
    /\ Fault
    /\ UNCHANGED rows

\* The gateway does not know the token, or something on the way to it answers
\* as if: whatever row has the id by now is deleted.
PushGone ==
    /\ Pushed(0)
    /\ IF watcher.sub.row.token \in dead THEN UNCHANGED faults ELSE Fault
    /\ DeleteSubscription(watcher.sub.id)

FinishEvent ==
    /\ At("query") /\ watcher.tags = {} /\ watcher.queue = {}
    /\ watcher' = Idle
    /\ UNCHANGED <<rows, unsignalled, signalled, relay, seen, dead, requests, faults, history>>

\* The process stops and starts again with its database.
Restart ==
    /\ Fault
    /\ unsignalled' = 0 /\ signalled' = FALSE
    /\ up' = FALSE /\ silent' = FALSE /\ subscribed' = {} /\ wire' = <<>>
    /\ watcher' = [pc |-> "connecting"]
    /\ seen' = <<>> /\ forgotten' = forgotten \cup ToSet(seen)
    /\ blurred' = FALSE
    /\ UNCHANGED <<rows, published, stored, dead, requests, pushed>>

-------------------------------------------------------------------------------

Init ==
    /\ rows = [i \in Ids |-> NoRow]
    /\ unsignalled = 0 /\ signalled = FALSE
    /\ published = {} /\ stored = {} /\ up = FALSE /\ silent = FALSE
    /\ subscribed = {} /\ wire = <<>>
    /\ watcher = [pc |-> "connecting"] /\ seen = <<>> /\ dead = {}
    /\ requests = 0 /\ faults = 0
    /\ pushed = [p \in Ids \X Events |-> 0] /\ forgotten = {} /\ blurred = FALSE

Devices ==
    \E i \in Ids :
        \/ \E token \in Tokens, filter \in Filters : Subscribe(i, token, filter)
        \/ \E filter \in Filters : Update(i, filter)
        \/ Unsubscribe(i)

\* What the watcher does by itself and what has reached it.
Listen ==
    \/ Refresh \/ Disconnected \/ Receive
    \/ \E tag \in Tags : Query(tag)
    \/ At("query") /\ \E sub \in watcher.queue : Skip(sub) \/ StartPush(sub) \/ Panic(sub)
    \/ FinishEvent

\* What it awaits from others, without a timeout.
Awaited ==
    \/ Connect \/ SendSubscriptions
    \/ PushSucceeds \/ PushFails \/ PushGone

Next ==
    \/ Devices \/ Signal \/ Listen \/ Awaited \/ LinkDies \/ Notice \/ Restart
    \/ \E token \in Tokens : TokenDies(token)
    \/ \E i \in Ids : WindowEnds(i) \/ DeleteStale(i)
    \/ \E e \in Events : Publish(e)

(***************************************************************************)
(* Fairness: both tasks keep being polled, so each step that waits for     *)
(* nobody is taken.  Nothing is assumed of the relay, the gateways, or of  *)
(* a dead connection being noticed.                                        *)
(***************************************************************************)
Spec == Init /\ [][Next]_vars /\ WF_vars(Signal) /\ WF_vars(Listen)

-------------------------------------------------------------------------------
(* Properties.                                                             *)

Rows == [filter : Filters, token : Tokens, recent : BOOLEAN]

\* The type of each variable; the ring never holds an event twice.
TypeOK ==
    /\ rows \in [Ids -> Rows \cup {NoRow}]
    /\ unsignalled \in 0 .. MaxRequests /\ signalled \in BOOLEAN
    /\ stored \subseteq published /\ published \subseteq Events
    /\ up \in BOOLEAN /\ (silent => ~up) /\ subscribed \subseteq Tags /\ ToSet(wire) \subseteq published
    /\ ToSet(seen) \subseteq published /\ Len(seen) <= RingSize
    /\ IsInjective(seen)
    /\ At("push") => watcher.sub.row \in Rows
    /\ faults <= MaxFaults

\* The row is among those that its own tags lead to.
Findable(i) == \E tag \in rows[i].filter : i \in SubscriptionsFor(tag)

\* When nothing is under way the relay has been asked for every tag of every row
\* that its tags lead to: no order of registrations, refreshes and lost connections
\* leaves a device unwatched, unless a query failed (handle_subscribe signals after
\* the INSERT, run_watcher reads the table after the signal or a connect).
RegisteredTagsAreWatched ==
    (At("idle") /\ up /\ ~signalled /\ unsignalled = 0 /\ ~blurred)
        => \A i \in Registered : Findable(i) => rows[i].filter \subseteq subscribed

\* A subscription is pushed an event once, whatever number of its tags leads to
\* it, whatever REQ it came by and however often the relay repeats it, as long as
\* the watcher has not forgotten the event (handle_message's ring and dispatched_subs).
PushedOnce ==
    \A i \in Ids, e \in Events : pushed[i, e] > 1 => e \in forgotten

\* A row that the end of a push deletes has the token that was pushed to, and
\* that the gateway said is gone.
DeletedTokensAreGone ==
    [][At("push") /\ watcher' # watcher =>
          \A i \in Registered :
              rows'[i] = NoRow /\ watcher'.pc = "query"
                  => rows[i].token = watcher.sub.row.token]_vars

\* The watcher waits for ever for an answer, has ended, or is never told that its
\* connection is dead.
Stuck ==
    \/ <>[]At("connecting") \/ <>[]At("subscribing") \/ <>[]At("push") \/ <>[]At("ended")
    \/ <>[]silent

\* An event that the relay keeps, for a tag that a device stays registered for, is
\* heard, whatever refreshes, lost connections, panics and restarts come before:
\* unless a query failed, the row is one that its tags do not lead to, or the watcher
\* is stuck in one of the ways that the code has no timeout and no supervisor for.
KeptEventsAreHeard ==
    \/ Stuck
    \/ \A e \in Events, i \in Ids :
          (e \in stored /\ rows[i] # NoRow /\ TagsOf[e] \cap rows[i].filter # {} /\ Findable(i))
              ~> (\/ e \in ToSet(seen) \cup forgotten \/ blurred
                  \/ rows[i] = NoRow \/ TagsOf[e] \cap rows[i].filter = {} \/ ~Findable(i))

===============================================================================

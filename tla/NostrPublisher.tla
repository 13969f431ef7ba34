---------------------------- MODULE NostrPublisher ----------------------------
(***************************************************************************)
(* The coordinator's event publisher, ceremony-coordinator/src/nostr.rs:   *)
(* handlers sign an event, hand it to an unbounded channel and store its   *)
(* id as published; one task, relay_loop, takes the events from the        *)
(* channel and writes them to a websocket.  Events are numbered in the     *)
(* order in which they are published.                                      *)
(***************************************************************************)
EXTENDS Naturals, Sequences, FiniteSets

CONSTANTS
    MaxEvents,      \* bound: events published
    MaxDrops,       \* bound: times the relay's link goes down
    MaxRestarts     \* bound: restarts of the coordinator

ASSUME PublisherAssumption ==
    MaxEvents \in Nat /\ MaxDrops \in Nat /\ MaxRestarts \in Nat

VARIABLES
    issued,     \* events whose id `publish` has returned
    channel,    \* events in the unbounded channel
    task,       \* where relay_loop is
    inHand,     \* the event it is sending, or 0
    linkUp,     \* whether its websocket still reaches the relay
    unread,     \* replies the relay has sent and the task has not read
    received,   \* events the relay has received, in order
    drops, restarts

publisherVars == <<issued, channel, task, inHand, linkUp, unread, received, drops, restarts>>

PublisherInit ==
    /\ issued = 0 /\ channel = << >> /\ task = "connecting" /\ inHand = 0
    /\ linkUp = FALSE /\ unread = 0 /\ received = << >>
    /\ drops = 0 /\ restarts = 0

\* publish: the id is returned whether or not anyone receives the event.
PublishEvent ==
    /\ issued < MaxEvents
    /\ issued' = issued + 1
    /\ channel' = IF task = "gone" THEN channel ELSE Append(channel, issued + 1)
    /\ UNCHANGED <<task, inHand, linkUp, unread, received, drops, restarts>>

\* A failed attempt sleeps and tries again: only the successful one changes anything.
PublisherConnects ==
    /\ task = "connecting"
    /\ task' = "receiving" /\ linkUp' = TRUE /\ unread' = 0
    /\ UNCHANGED <<issued, channel, inHand, received, drops, restarts>>

TakeEvent ==
    /\ task = "receiving" /\ channel # << >>
    /\ inHand' = Head(channel) /\ channel' = Tail(channel)
    /\ task' = "sending"
    /\ UNCHANGED <<issued, linkUp, unread, received, drops, restarts>>

SendOk ==
    /\ task = "sending" /\ linkUp
    /\ received' = Append(received, inHand) /\ inHand' = 0
    /\ task' = "draining"
    /\ UNCHANGED <<issued, channel, linkUp, unread, drops, restarts>>

\* The link is down and the operating system has not noticed: the write succeeds.
SendLost ==
    /\ task = "sending" /\ ~linkUp
    /\ inHand' = 0 /\ task' = "draining"
    /\ UNCHANGED <<issued, channel, linkUp, unread, received, drops, restarts>>

\* `break`, then close and return: the task ends, and with it the channel's receiver.
SendFails ==
    /\ task = "sending" /\ ~linkUp
    /\ inHand' = 0 /\ task' = "gone" /\ channel' = << >>
    /\ UNCHANGED <<issued, linkUp, unread, received, drops, restarts>>

\* A defect: two messages awaited for every event sent.
DrainTwo ==
    /\ task = "draining"
    /\ unread > 1 \/ ~linkUp
    /\ unread' = IF unread > 1 THEN unread - 2 ELSE 0
    /\ task' = "receiving"
    /\ UNCHANGED <<issued, channel, inHand, linkUp, received, drops, restarts>>

\* Waits for one message from the relay, or for the stream to end.
Drain ==
    /\ task = "draining"
    /\ unread > 0 \/ ~linkUp
    /\ unread' = IF unread > 0 THEN unread - 1 ELSE 0
    /\ task' = "receiving"
    /\ UNCHANGED <<issued, channel, inHand, linkUp, received, drops, restarts>>

\* The relay answers an event it has received with an OK.
Reply ==
    /\ task = "draining" /\ linkUp /\ unread = 0
    /\ unread' = 1
    /\ UNCHANGED <<issued, channel, task, inHand, linkUp, received, drops, restarts>>

\* The link goes down; relay_loop learns of it only by using it.
LinkDrops ==
    /\ drops < MaxDrops /\ linkUp
    /\ linkUp' = FALSE /\ drops' = drops + 1
    /\ UNCHANGED <<issued, channel, task, inHand, unread, received, restarts>>

\* The coordinator restarts with a new task and an empty channel.
CoordinatorRestarts ==
    /\ restarts < MaxRestarts
    /\ restarts' = restarts + 1
    /\ task' = "connecting" /\ channel' = << >> /\ inHand' = 0
    /\ linkUp' = FALSE /\ unread' = 0
    /\ UNCHANGED <<issued, received, drops>>

PublisherNext ==
    \/ PublishEvent \/ PublisherConnects \/ TakeEvent \/ SendOk \/ SendLost \/ SendFails \/ Drain
    \/ Reply \/ LinkDrops \/ CoordinatorRestarts

PublisherSpec == PublisherInit /\ [][PublisherNext]_publisherVars

\* The task runs, the relay accepts connections and answers what it receives.
FairPublisherSpec == PublisherSpec /\ WF_publisherVars(PublisherConnects) /\ WF_publisherVars(TakeEvent) /\ WF_publisherVars(SendOk)
                 /\ WF_publisherVars(SendLost \/ SendFails) /\ WF_publisherVars(Drain) /\ WF_publisherVars(Reply)

-------------------------------------------------------------------------------

PublisherTypeOK ==
    /\ issued \in 0..MaxEvents /\ channel \in Seq(1..MaxEvents)
    /\ task \in {"connecting", "receiving", "sending", "draining", "gone"}
    /\ inHand \in 0..MaxEvents /\ linkUp \in BOOLEAN /\ unread \in 0..1
    /\ received \in Seq(1..MaxEvents)
    /\ drops \in 0..MaxDrops /\ restarts \in 0..MaxRestarts

\* Every published event reaches the relay, if the link never goes down and the
\* coordinator does not restart: the reply read after each send (nostr.rs:
\* 150-153) never makes the task wait for ever.
EventsReachTheRelay ==
    \A e \in 1..MaxEvents :
        (issued >= e) ~>
            (drops > 0 \/ restarts > 0 \/ \E i \in DOMAIN received : received[i] = e)

\* "nostr send failed, reconnecting" (nostr.rs:147): after a failed send the
\* task connects again.
ReconnectsAfterFailure == [](task = "gone" => <>(task = "receiving"))
===============================================================================

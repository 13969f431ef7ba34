---------------------------- MODULE MCPushWatcher ----------------------------
(***************************************************************************)
(* An instance of PushWatcher for TLC: an event for a topic, which is not  *)
(* kept, and one for the topic and an inbox, which is.  The inbox has a    *)
(* quote in its name, without which it is the name of the topic.           *)
(***************************************************************************)
EXTENDS PushWatcher

CONSTANTS topic, inbox

Registrable == {{topic, inbox}, {inbox}}

Matching == topic :> {topic} @@ inbox :> {topic}

EventTags == 1 :> {topic} @@ 2 :> {topic, inbox}

===============================================================================

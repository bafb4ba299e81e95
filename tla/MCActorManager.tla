--------------------------- MODULE MCActorManager ---------------------------
(***************************************************************************)
(* Instances of ActorManager for TLC.                                      *)
(***************************************************************************)
EXTENDS ActorManager

\* Handlers as the comment of treat expects them, and as ReplicaterActor::timeout
\* is: it adds the actors of a set query to its own manager.
PlainHandlers  == {"post", "killSelf"}
AddingHandlers == {"post", "killSelf", "add"}
=============================================================================

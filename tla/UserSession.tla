---------------------------- MODULE UserSession ----------------------------
(***************************************************************************)
(* What SparkWeb promises of XMPP sessions, whatever happens inside: "a    *)
(* user has a singleton xmpp session in Openfire that is created on demand *)
(* and removed when it expires" (README.md:18).  The session of a user is  *)
(* opened when there is none, and a session that was closed never comes    *)
(* back.  SessionRegistry, with the requests of a user one at a time, is   *)
(* shown to implement this.                                                *)
(***************************************************************************)
CONSTANTS User, (* the accounts of the Openfire server                     *)
          Conn  (* the identities an XMPP session may have                 *)

VARIABLES sessions, (* sessions[u]: the XMPP sessions user u has now       *)
          ended     (* the sessions that were closed                       *)

Init == /\ sessions = [u \in User |-> {}]
        /\ ended = {}

\* The session of u is created on demand: only when u has none.
Open(u, c) == /\ sessions[u] = {}
              /\ c \notin ended
              /\ sessions' = [sessions EXCEPT ![u] = {c}]
              /\ UNCHANGED ended

\* The session of u is removed, for good.
Close(u, c) == /\ sessions[u] = {c}
               /\ sessions' = [sessions EXCEPT ![u] = {}]
               /\ ended' = ended \cup {c}

Next == \E u \in User, c \in Conn : Open(u, c) \/ Close(u, c)

Spec == Init /\ [][Next]_<<sessions, ended>>
=============================================================================

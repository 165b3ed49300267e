--------------------------- MODULE MCSwaggerPage ---------------------------
(* An instance of SwaggerPage for TLC: one user in every tab, and another  *)
(* one who signs in in one of them, with an authenticator he has.          *)
EXTENDS SwaggerPage

CONSTANTS Guest,  (* the other one                                         *)
          Shared  (* the tab he uses                                       *)

MCInit == Init /\ registered = {Guest}

\* The bounds: who uses which tab, where somebody registers, and that only the
\* user of all tabs is issued different tokens.
Bound ==
  /\ \A t \in Tab : page'[t].user = Guest => t = Shared
  /\ \A t \in Tab : page'[t].pc \in {"register", "create"}
                      => t = Shared /\ page'[t].user # Guest
  /\ \A k \in tokens' : k[1] = Guest => k[2] = 1

MCSpec ==
  MCInit /\ [][Next /\ Bound]_vars /\ \A t \in Tab : WF_vars(PageStep(t) /\ Bound)
=============================================================================

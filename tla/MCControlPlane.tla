--------------------------- MODULE MCControlPlane ---------------------------
(***************************************************************************)
(* Instance of ControlPlane: one pod, two servers, requests of any kind.   *)
(***************************************************************************)
EXTENDS ControlPlane

CONSTANTS s1, s2, p1

\* Requests that share a table come together; runbooks share none with the rest.
MCScripts == {<<"alert", "alert">>, <<"diagnose", "alert">>, <<"alert", "stream">>,
              <<"diagnose", "retry">>, <<"diagnose", "feedback">>,
              <<"diagnose", "approve", "reject", "approve">>,
              <<"create", "update", "update">>}
=============================================================================

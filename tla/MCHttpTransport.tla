-------------------------- MODULE MCHttpTransport --------------------------
(***************************************************************************)
(* Model-checking instance of HttpTransport.  Threads and tokens are model *)
(* values (set in the .cfg files); the status codes cover every entry of   *)
(* error_map, both sides of each 2xx test (200, 204), a redirect that     *)
(* httpx does not follow (301) and a server error with no entry (500).     *)
(***************************************************************************)
EXTENDS HttpTransport

MCStatuses == {200, 204, 301, 400, 401, 403, 404, 409, 429, 500}

(* A smaller set, for the runs that vary the callers and not the server.   *)
MCFewStatuses == {200, 204, 404, 500}

MCBodies == BodyShapes

=============================================================================

------------------------ MODULE MCServiceRequests -------------------------
(***************************************************************************)
(* Instances of ServiceRequests for TLC: the path arguments a caller       *)
(* passes, given as the segments their text yields in the URL.             *)
(***************************************************************************)
EXTENDS ServiceRequests

(* Ordinary identifiers: non-empty, no "/", no word of any path template. *)
MCPlainIds == {<<"id1">>, <<"id2">>}

(* Identifiers that spell a literal segment of a sibling route.           *)
MCLiteralIds == {<<"id1">>, <<"stats">>, <<"executions">>, <<"current">>,
                 <<"auth-methods">>, <<"by-slug">>, <<"security">>}

(* An identifier containing "/", which the f-string does not escape.       *)
MCSlashIds == {<<"id1">>, <<"id1", "members">>}
=============================================================================

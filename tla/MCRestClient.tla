---------------------------- MODULE MCRestClient ----------------------------
(* Small instances of RestClient; for the liveness properties the pages are *)
(* not declared symmetric.                                                  *)
EXTENDS RestClient
=============================================================================

---------------------------- MODULE MCHttpClient ----------------------------
(* Bounds for model checking HttpClient: four calls, each GET with the     *)
(* three attempts of New, and more ids than the calls can be handed.       *)
EXTENDS HttpClient

MCRetryAttempts == 3
MCCalls == 4
MCRecords == 5
=============================================================================

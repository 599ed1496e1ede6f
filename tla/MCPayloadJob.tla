---------------------------- MODULE MCPayloadJob ----------------------------
(***************************************************************************)
(* Two jobs, two requests, a pipeline of two steps.                        *)
(***************************************************************************)
EXTENDS PayloadJob

CONSTANTS j1, j2, r1, r2

MCJobs == {j1, j2}
MCRequests == {r1, r2}
=============================================================================

---------------------------- MODULE MCDeployment ----------------------------
(***************************************************************************)
(* Deployment with model values. A behaviour has the activities of one     *)
(* mix.                                                                    *)
(***************************************************************************)
EXTENDS Deployment

AllMixes == {{"events", "crash"}, {"jobs", "crash"}, {"feed", "crash"},
             {"jobs", "requests", "shutdown"}, {"feed", "requests", "shutdown"}}
=============================================================================

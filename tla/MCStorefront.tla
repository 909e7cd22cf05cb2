---------------------------- MODULE MCStorefront ----------------------------
(***************************************************************************)
(* Storefront with model values. A behaviour has the activities of one     *)
(* mix.                                                                    *)
(***************************************************************************)
EXTENDS Storefront

AllMixes == {{"pages", "edits"}, {"pages", "keys", "limit"},
             {"pages", "limit", "failures"}, {"keys", "limit", "failures"}}
KeysMix == {{"keys"}}
FailingMix == {{"keys", "limit", "failures"}}
=============================================================================

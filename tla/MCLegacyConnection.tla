-------------------------- MODULE MCLegacyConnection --------------------------
(* Instances of LegacyConnection for TLC. *)
EXTENDS LegacyConnection

MCBatches == {<<"work">>, <<"begin">>, <<"begin", "work", "end">>, <<"end", "begin">>,
              <<"export">>, <<"import">>}
===============================================================================

----------------------------- MODULE MCConfigLoad -----------------------------
(* A small instance of ConfigLoad for TLC.                                 *)
EXTENDS ConfigLoad

MCConfigNames == <<"one", "two">>

=============================================================================

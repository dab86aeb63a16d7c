------------------------------ MODULE MCAnyTls ------------------------------
(* Small instances of AnyTls for TLC. *)
EXTENDS AnyTls

\* One stream with everything a client, its connection and its remote may do, and two
\* streams on two ids with a version 2 client.
MCEnvs == {EnvChoices \ {"second"}, {"v2", "second", "more"}}

\* A version 1 client with one stream.
OneStream == {{"v1"}}
=============================================================================

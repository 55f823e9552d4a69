---------------------------- MODULE MCMigrations ----------------------------
(* Small instances of Migrations for TLC.                                  *)
EXTENDS Migrations

\* Three tickets, two chunks; then an event without tickets in two sections.
TwoEvents == << <<1, 1, 1>>, <<0, 0, 2>> >>
=============================================================================

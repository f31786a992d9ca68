---------------------------- MODULE MCMigrations ----------------------------
(***************************************************************************)
(* Migrations for TLC: releases that differ in the schema they expect.     *)
(***************************************************************************)
EXTENDS Migrations, TLC

CONSTANTS old, new, other

\* Two processes of the later release.
LaterReleases == old :> 1 @@ other :> 2 @@ new :> 2

\* Three releases, one ahead of the other.
ThreeReleases == old :> 1 @@ other :> 2 @@ new :> 3
=============================================================================

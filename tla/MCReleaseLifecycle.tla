------------------------- MODULE MCReleaseLifecycle -------------------------
(* Small instances of ReleaseLifecycle for TLC. *)
EXTENDS ReleaseLifecycle

MCNativeSteps == <<"data-services-ready", "app-configured", "database-migrated", "services-started">>
=============================================================================

----------------------------- MODULE MCStartUp -----------------------------
(* EnsureDatabase: open, create the database, ChangeDatabase, create the tables. *)
EXTENDS StartUp

MCCalls == << <<>>, <<"TrackingEventsStore">>, <<>>, <<"Tracking", "TrackingEvent">> >>
MCRetries == <<5, 5, 0, 5>>
=============================================================================

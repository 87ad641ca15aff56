---------------------------- MODULE MCBuilders ----------------------------
(***************************************************************************)
(* The two builders of the crate for TLC, side by side: a notification or  *)
(* a configuration is built, never both in one behaviour, as they share no *)
(* state and have nothing to interleave.                                   *)
(***************************************************************************)
EXTENDS Notifications, Endpoints

CONSTANTS CustomUrls, Durations

VARIABLES config, provider

Configs == INSTANCE ProviderConfig

MCVars == <<n, config, provider>>

(* One URL of every kind. *)
MCCustomUrls ==
    {Url("https", "push.example"), Url("http", "push.example"),
     Url("http", "localhost"), Url("http", "127.0.0.1"),
     Url("http", "10.0.0.1"), Url("ftp", "::1"), NotAUrl}

MCInit == Init /\ Configs!Init

BuildNotification ==
    /\ config = Configs!NoConfig /\ provider = Configs!NoConfig
    /\ Next
    /\ UNCHANGED <<config, provider>>

BuildProvider ==
    /\ n = New
    /\ Configs!Next
    /\ UNCHANGED n

MCNext == BuildNotification \/ BuildProvider

MCSpec == MCInit /\ [][MCNext]_MCVars

(* The property of ProviderConfig: what a provider sends its credentials   *)
(* to is https, or this machine where the configuration allows it.         *)
NoCredentialInTheClear == Configs!NoCredentialInTheClear
=============================================================================

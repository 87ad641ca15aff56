--------------------------- MODULE ProviderConfig ---------------------------
(***************************************************************************)
(* How a provider comes about: FcmConfig, ApnsConfig and WebPushConfig with*)
(* their constructors and builder methods, called in any order and any     *)
(* number of times, and the constructor of the provider, which checks the  *)
(* URLs that credentials will be sent to and fixes the timeouts of its     *)
(* HTTP client.  Keys and names are left out.                              *)
(***************************************************************************)
EXTENDS Endpoints

CONSTANTS
    CustomUrls,   \* URLs a caller may configure
    Durations     \* timeouts a caller may configure

VARIABLES
    config,     \* the configuration under construction, or NoConfig
    provider    \* the configuration of the provider, or NoConfig

vars == <<config, provider>>

Platforms == {"fcm", "apns", "web"}
Settings  == {"api_base", "token_uri", "allow_insecure_loopback", "timeout",
              "connect_timeout"}

NoConfig == [platform |-> "none"]

DefaultUrl == Url("https", "cdn.example")

(* The default of both timeouts. *)
Default == "default"

(* APNS has one URL, that of its environment, and Web Push has none. *)
UrlSettings(p) ==
    CASE p = "fcm"  -> {"api_base", "token_uri"}
      [] p = "apns" -> {"api_base"}
      [] p = "web"  -> {}

Values(s) ==
    CASE s \in {"api_base", "token_uri"} -> CustomUrls \cup {DefaultUrl}
      [] s = "allow_insecure_loopback"   -> BOOLEAN
      [] OTHER                           -> Durations \cup {Default}

SettingsOf(p) ==
    UrlSettings(p) \cup {"allow_insecure_loopback", "timeout", "connect_timeout"}

Defaults(p) ==
    [s \in SettingsOf(p) |->
        IF s \in UrlSettings(p) THEN DefaultUrl
        ELSE IF s = "allow_insecure_loopback" THEN FALSE
        ELSE Default]

Config(p, set) == [platform |-> p, set |-> set]

-----------------------------------------------------------------------------
Init ==
    /\ config = NoConfig
    /\ provider = NoConfig

New(p) ==
    /\ config = NoConfig
    /\ provider = NoConfig
    /\ config' = Config(p, Defaults(p))
    /\ UNCHANGED provider

(* The service account may name a token URI of its own. *)
FromServiceAccountJson(url) ==
    /\ config = NoConfig
    /\ provider = NoConfig
    /\ config' = Config("fcm", [Defaults("fcm") EXCEPT !["token_uri"] = url])
    /\ UNCHANGED provider

(* A builder method (environment, development and production of APNS are   *)
(* those of its URL). *)
Set(s, value) ==
    /\ config # NoConfig
    /\ s \in SettingsOf(config.platform)
    /\ config' = Config(config.platform, [config.set EXCEPT ![s] = value])
    /\ UNCHANGED provider

(* A definition named Bug... is a fault the property must detect: it is    *)
(* what the definition after it would be with a plausible mistake in it.   *)
BugApiBaseOnly(c) ==
    \A s \in UrlSettings(c.platform) \ {"token_uri"} :
        RequireHttpsOrLoopback(c.set[s], c.set["allow_insecure_loopback"])

(* The URLs the constructor of the provider lets pass. *)
UrlsPass(c) ==
    \A s \in UrlSettings(c.platform) :
        RequireHttpsOrLoopback(c.set[s], c.set["allow_insecure_loopback"])

Build ==
    /\ config # NoConfig
    /\ UrlsPass(config)
    /\ provider' = config
    /\ config' = NoConfig

(* A URL, the HTTP client, the VAPID key, or the first token exchange of   *)
(* FCM; the configuration is consumed.                                     *)
BuildFails ==
    /\ config # NoConfig
    /\ config' = NoConfig
    /\ UNCHANGED provider

Shutdown ==
    /\ provider # NoConfig
    /\ provider' = NoConfig
    /\ UNCHANGED config

Next ==
    \/ \E p \in Platforms : New(p)
    \/ \E url \in CustomUrls : FromServiceAccountJson(url)
    \/ \E s \in Settings : \E value \in Values(s) : Set(s, value)
    \/ Build
    \/ BuildFails
    \/ Shutdown

Spec == Init /\ [][Next]_vars

-----------------------------------------------------------------------------
(* Properties *)

(* A provider that exists sends its credentials over https, or in the      *)
(* clear to nothing but this machine, and then only where the              *)
(* configuration it runs with allows it: for both URLs of FCM, wherever    *)
(* they came from and in whichever order the builder was called.  (Where a *)
(* redirect by such a URL would lead is not modelled.)                     *)
NoCredentialInTheClear ==
    provider # NoConfig =>
        \A s \in UrlSettings(provider.platform) :
            LET url == provider.set[s]
                at  == IF url.host \in IpAddr THEN {url.host}
                       ELSE SystemLookup(url.host, IpAddr) IN
            \/ url.scheme = "https"
            \/ provider.set["allow_insecure_loopback"] /\ \A a \in at : IsPureLoopback(a)
=============================================================================

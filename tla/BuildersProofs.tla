--------------------------- MODULE BuildersProofs ---------------------------
(***************************************************************************)
(* What the two builders of the crate guarantee: the configurations for    *)
(* any URLs and timeouts a caller may set, the notification for any custom *)
(* data and any number of settings.                                        *)
(***************************************************************************)
EXTENDS MCBuilders, TLAPS

(* The two builders share nothing: each behaves as in its own module.      *)
THEOREM SideBySide == MCSpec => Spec /\ Configs!Spec
<1>1. MCInit => Init /\ Configs!Init
  BY DEF MCInit
<1>2. [MCNext]_MCVars => [Next]_n /\ [Configs!Next]_(Configs!vars)
  BY DEF MCNext, MCVars, BuildNotification, BuildProvider, Configs!vars
<1> QED
  BY <1>1, <1>2, PTL DEF MCSpec, Spec, Configs!Spec

-----------------------------------------------------------------------------
(* Configurations *)

(* A configuration has the settings of its platform and no other.          *)
Complete(c) ==
    /\ c.platform \in Configs!Platforms
    /\ DOMAIN c.set = Configs!SettingsOf(c.platform)
    /\ c.set["allow_insecure_loopback"] \in BOOLEAN

(* A provider is only ever made from a configuration whose URLs pass, and  *)
(* nothing changes its configuration afterwards.                           *)
ConfigInv ==
    /\ config # Configs!NoConfig => Complete(config)
    /\ provider # Configs!NoConfig => Complete(provider) /\ Configs!UrlsPass(provider)

LEMMA ConfigParts ==
    ASSUME NEW p, NEW set
    PROVE  /\ Configs!Config(p, set).platform = p
           /\ Configs!Config(p, set).set = set
BY DEF Configs!Config

LEMMA DefaultsComplete ==
    ASSUME NEW p \in Configs!Platforms
    PROVE  Complete(Configs!Config(p, Configs!Defaults(p)))
<1>1. "allow_insecure_loopback" \notin Configs!UrlSettings(p)
  BY DEF Configs!Platforms, Configs!UrlSettings
<1>2. "allow_insecure_loopback" \in Configs!SettingsOf(p)
  BY DEF Configs!SettingsOf
<1>3. /\ DOMAIN Configs!Defaults(p) = Configs!SettingsOf(p)
      /\ Configs!Defaults(p)["allow_insecure_loopback"] = FALSE
  BY <1>1, <1>2 DEF Configs!Defaults
<1>4. FALSE \in BOOLEAN
  OBVIOUS
<1>5. Configs!Defaults(p)["allow_insecure_loopback"] \in BOOLEAN
  BY <1>3, <1>4
<1> QED
  BY <1>3, <1>5, ConfigParts DEF Complete

LEMMA NextConfigInv ==
    ASSUME ConfigInv, [Configs!Next]_(Configs!vars)
    PROVE  ConfigInv'
<1>1. CASE UNCHANGED Configs!vars
  BY <1>1 DEF Configs!vars, ConfigInv, Complete, Configs!UrlsPass
<1>2. ASSUME NEW p \in Configs!Platforms, Configs!New(p) PROVE ConfigInv'
  BY <1>2, DefaultsComplete DEF Configs!New, ConfigInv
<1>3. ASSUME NEW url \in CustomUrls, Configs!FromServiceAccountJson(url)
      PROVE  ConfigInv'
  <2>1. "fcm" \in Configs!Platforms
    BY DEF Configs!Platforms
  <2>2. /\ config'.platform = "fcm"
        /\ config'.set = [Configs!Defaults("fcm") EXCEPT !["token_uri"] = url]
    BY <1>3, ConfigParts DEF Configs!FromServiceAccountJson
  <2>3. /\ DOMAIN Configs!Defaults("fcm") = Configs!SettingsOf("fcm")
        /\ Configs!Defaults("fcm")["allow_insecure_loopback"] \in BOOLEAN
    BY <2>1, DefaultsComplete, ConfigParts DEF Complete
  <2>4. Complete(config')
    BY <2>1, <2>2, <2>3 DEF Complete
  <2> QED
    BY <1>3, <2>4 DEF Configs!FromServiceAccountJson, ConfigInv
<1>4. ASSUME NEW s \in Configs!Settings, NEW value \in Configs!Values(s),
             Configs!Set(s, value)
      PROVE  ConfigInv'
  <2>1. Complete(config) /\ UNCHANGED provider
    BY <1>4 DEF Configs!Set, ConfigInv
  <2>2. /\ config'.platform = config.platform
        /\ config'.set = [config.set EXCEPT ![s] = value]
    BY <1>4, ConfigParts DEF Configs!Set
  <2>3. s = "allow_insecure_loopback" => value \in BOOLEAN
    BY DEF Configs!Values
  <2>4. Complete(config')
    BY <2>1, <2>2, <2>3 DEF Complete, Configs!SettingsOf
  <2> QED
    BY <2>1, <2>4 DEF ConfigInv
<1>5. CASE Configs!Build
  BY <1>5 DEF Configs!Build, ConfigInv
<1>6. CASE Configs!BuildFails \/ Configs!Shutdown
  BY <1>6 DEF Configs!BuildFails, Configs!Shutdown, ConfigInv
<1> QED
  BY <1>1, <1>2, <1>3, <1>4, <1>5, <1>6 DEF Configs!Next

(* A loopback name or literal is this machine, and nothing else: the name  *)
(* localhost in both families.                                             *)
LEMMA LoopbackHostIsHere ==
    ASSUME NEW h, Configs!IsLoopbackHost(h)
    PROVE  \A a \in IF h \in Configs!IpAddr THEN {h}
                 ELSE Configs!SystemLookup(h, Configs!IpAddr) : Configs!IsPureLoopback(a)
<1>1. Configs!IsPureLoopback("127.0.0.1") /\ Configs!IsPureLoopback("::1")
  BY DEF Configs!IsPureLoopback, Configs!V4, Configs!V6, Configs!V4IsLoopback,
     Configs!V6IsLoopback
<1>2. CASE h = "localhost"
  <2>1. h \notin Configs!IpAddr
    BY <1>2 DEF Configs!IpAddr, Configs!V4, Configs!V6
  <2> QED
    BY <1>1, <1>2, <2>1 DEF Configs!SystemLookup
<1>3. CASE h \in {"127.0.0.1", "::1"}
  <2>1. h \in Configs!IpAddr
    BY <1>3 DEF Configs!IpAddr, Configs!V4, Configs!V6
  <2> QED
    BY <1>1, <1>3, <2>1
<1> QED
  BY <1>2, <1>3 DEF Configs!IsLoopbackHost

(* Whatever URLs the caller sets, in whichever order it calls the builder  *)
(* and wherever a URL came from, a provider that was constructed sends its *)
(* credentials over https, or to this machine where its configuration      *)
(* allows that: the constructor checks every URL the provider uses.        *)
THEOREM CredentialsProtected == Configs!Spec => []NoCredentialInTheClear
<1>1. Configs!Init => ConfigInv
  BY DEF Configs!Init, ConfigInv
<1>2. ConfigInv => NoCredentialInTheClear
  <2> SUFFICES ASSUME ConfigInv, provider # Configs!NoConfig,
                      NEW s \in Configs!UrlSettings(provider.platform)
               PROVE  LET url == provider.set[s]
                          at  == IF url.host \in Configs!IpAddr THEN {url.host}
                                 ELSE Configs!SystemLookup(url.host, Configs!IpAddr) IN
                      \/ url.scheme = "https"
                      \/ /\ provider.set["allow_insecure_loopback"]
                         /\ \A a \in at : Configs!IsPureLoopback(a)
    BY DEF NoCredentialInTheClear, Configs!NoCredentialInTheClear
  <2>1. Configs!RequireHttpsOrLoopback(provider.set[s],
                                       provider.set["allow_insecure_loopback"])
    BY DEF ConfigInv, Configs!UrlsPass
  <2> QED
    BY <2>1, LoopbackHostIsHere DEF Configs!RequireHttpsOrLoopback
<1> QED
  BY <1>1, <1>2, NextConfigInv, PTL DEF Configs!Spec

-----------------------------------------------------------------------------
(* Notifications *)

WellFormed(m) ==
    /\ m \in [on : SUBSET Options, bad : SUBSET InHeader, data : SUBSET DataKeys,
              priority : Priorities, urgency : Urgencies]
    /\ m.bad \subseteq m.on

(* A silent notification wakes the app: Silent sets the two together, and  *)
(* no setter takes an option back.                                         *)
NotificationInv ==
    /\ WellFormed(n)
    /\ Has(n, "silent") => Has(n, "content_available")

LEMMA InitNotification == Init => NotificationInv
<1>1. {"silent", "content_available"} \subseteq Options
  BY DEF Options, Flags
<1> QED
  BY <1>1 DEF Init, New, DataOnly, Notification, NotificationInv, WellFormed, Has,
     Priorities, Urgencies

LEMMA NextNotification ==
    ASSUME NotificationInv, [Next]_n
    PROVE  /\ NotificationInv'
           /\ n'.on = n.on \/ n'.data = n.data
<1> DEFINE Kept == /\ NotificationInv'
                   /\ n'.on = n.on \/ n'.data = n.data
<1> SUFFICES Kept
  OBVIOUS
<1> USE DEF NotificationInv, WellFormed, Has
<1>1. CASE n' = n
  BY <1>1
<1>2. ASSUME NEW f \in Plain \cup {"mutable_content", "actions"}, SetOption(f)
      PROVE  Kept
  <2>1. f \in Options /\ f # "silent"
    BY <1>2 DEF Options, Plain, Flags
  <2>2. n' = [n EXCEPT !.on = @ \cup {f}]
    BY <1>2 DEF SetOption, Becomes
  <2> QED
    BY <2>1, <2>2
<1>3. ASSUME NEW f \in InHeader, NEW encodable \in BOOLEAN, SetHeader(f, encodable)
      PROVE  Kept
  <2>1. f \in Options /\ f # "silent"
    BY <1>3 DEF Options, InHeader
  <2>2. n' = [n EXCEPT !.on  = @ \cup {f},
                       !.bad = IF encodable THEN @ \ {f} ELSE @ \cup {f}]
    BY <1>3 DEF SetHeader, Becomes
  <2> QED
    BY <2>1, <2>2
<1>4. ASSUME NEW key \in DataKeys, Data(key) PROVE Kept
  BY <1>4 DEF Data, Becomes
<1>5. ASSUME NEW p \in Priorities, Priority(p) PROVE Kept
  BY <1>5 DEF Priority, Becomes
<1>6. CASE HighPriority
  BY <1>6 DEF HighPriority, Becomes, Priorities, Urgencies
<1>7. ASSUME NEW u \in Urgencies, Urgency(u) PROVE Kept
  BY <1>7 DEF Urgency, Becomes
<1>8. CASE Silent
  <2>1. {"silent", "content_available"} \subseteq Options
    BY DEF Options, Flags
  <2> QED
    BY <1>8, <2>1 DEF Silent, Becomes
<1> QED
  BY <1>1, <1>2, <1>3, <1>4, <1>5, <1>6, <1>7, <1>8 DEF Next

LEMMA NotificationInvariance == Spec => []NotificationInv
<1>1. NotificationInv /\ [Next]_n => NotificationInv'
  BY NextNotification
<1> QED
  BY <1>1, InitNotification, PTL DEF Spec

(* Silent, wherever it stands among the other setters, leaves no alert on  *)
(* either mobile platform, and the push type APNS gets agrees with the     *)
(* payload: background with content-available, alert otherwise.            *)
THEOREM SilentAgrees == Spec => []SilentHasNoAlert
<1>1. NotificationInv => SilentHasNoAlert
  <2> SUFFICES ASSUME NotificationInv PROVE SilentHasNoAlert
    OBVIOUS
  <2>1. Has(n, "silent") => FcmMessage(n).notification = {}
    BY DEF FcmMessage
  <2>2. ~ApnsRefuses(n) =>
           /\ ApnsMessage(n).payload.alert = ~Has(n, "silent")
           /\ ApnsMessage(n).payload.content_available = Has(n, "content_available")
           /\ ApnsMessage(n).headers.push_type =
                 IF Has(n, "silent") THEN "background" ELSE "alert"
    BY DEF ApnsMessage, ApnsPayload, ApnsHeaders
  <2> QED
    BY <2>1, <2>2 DEF SilentHasNoAlert, NotificationInv
<1> QED
  BY <1>1, NotificationInvariance, PTL

-----------------------------------------------------------------------------
(* What two notifications differ in shows in the messages.                 *)

(* A difference, read off the record.                                      *)
LEMMA Difference ==
    ASSUME NEW m, NEW k, WellFormed(m), WellFormed(k), NEW f \in Changed(m, k)
    PROVE  \/ f \in Options /\ (Has(m, f) <=> ~Has(k, f))
           \/ f \in InHeader /\ Has(m, f) /\ Has(k, f) /\ (f \in m.bad <=> f \notin k.bad)
           \/ f = "data" /\ m.data # k.data
           \/ f = "priority" /\ m.priority # k.priority
           \/ f = "urgency" /\ m.urgency # k.urgency
BY DEF Changed, WellFormed, Has

LEMMA Agreement ==
    ASSUME NEW m, NEW k
    PROVE  /\ \A f : f \notin Changed(m, k) => /\ Has(m, f) <=> Has(k, f)
                                               /\ f \in m.bad <=> f \in k.bad
           /\ "data" \notin Changed(m, k) => m.data = k.data
           /\ "priority" \notin Changed(m, k) => m.priority = k.priority
           /\ "urgency" \notin Changed(m, k) => m.urgency = k.urgency
BY DEF Changed, Has

(* The names of the fields are names of one field each.                    *)
LEMMA Fields ==
    /\ "data" \notin Options /\ "priority" \notin Options /\ "urgency" \notin Options
    /\ InHeader = {"topic", "collapse_key"}
    /\ InHeader \subseteq Options
BY DEF Options, Plain, InHeader, Flags

LEMMA FcmShows ==
    ASSUME NEW m, NEW k, WellFormed(m), WellFormed(k),
           NEW f \in Changed(m, k), "fcm" \in HonoredIn(f), ~Masked("fcm", f, m)
    PROVE  Read("fcm", m) # Read("fcm", k)
<1> SUFFICES ASSUME FcmMessage(m) = FcmMessage(k) PROVE FALSE
  BY DEF Read
<1>1. /\ m.data = k.data
      /\ m.priority = k.priority
      /\ Has(m, "ttl") = Has(k, "ttl")
      /\ Text(m, "collapse_key") = Text(k, "collapse_key")
  BY DEF FcmMessage
<1>2. (IF Has(m, "silent") THEN {} ELSE {"alert"} \cup Present(m, {"image"}))
      = (IF Has(k, "silent") THEN {} ELSE {"alert"} \cup Present(k, {"image"}))
  BY DEF FcmMessage
<1>3. {"block"} \cup Present(m, {"icon", "sound", "tag", "click_action", "badge"})
      = {"block"} \cup Present(k, {"icon", "sound", "tag", "click_action", "badge"})
  BY DEF FcmMessage
<1>4. Has(m, "silent") <=> Has(k, "silent")
  BY <1>2
<1>5. ~Has(m, "silent") => (Has(m, "image") <=> Has(k, "image"))
  <2>1. ASSUME ~Has(m, "silent") PROVE Has(m, "image") <=> Has(k, "image")
    <3>1. {"alert"} \cup Present(m, {"image"}) = {"alert"} \cup Present(k, {"image"})
      BY <1>2, <1>4, <2>1
    <3>2. "image" \in Present(m, {"image"}) <=> "image" \in Present(k, {"image"})
      BY <3>1
    <3> QED
      BY <3>2 DEF Present, Has
  <2> QED
    BY <2>1
<1>6. \A g \in {"icon", "sound", "tag", "click_action", "badge"} : Has(m, g) <=> Has(k, g)
  <2>1. \A g \in {"icon", "sound", "tag", "click_action", "badge"} :
           g \in Present(m, {"icon", "sound", "tag", "click_action", "badge"})
           <=> g \in Present(k, {"icon", "sound", "tag", "click_action", "badge"})
    BY <1>3
  <2> QED
    BY <2>1 DEF Present, Has
<1>7. /\ Has(m, "collapse_key") <=> Has(k, "collapse_key")
      /\ Has(m, "collapse_key")
            => ("collapse_key" \in m.bad <=> "collapse_key" \in k.bad)
  BY <1>1 DEF Text
<1>8. /\ f \in {"icon", "image", "data", "ttl", "silent", "badge", "sound",
                "click_action", "tag", "priority", "collapse_key"}
      /\ f = "image" => ~Has(m, "silent")
  <2>1. f \in Options \cup {"data", "priority", "urgency"}
    BY Difference, Fields
  <2> QED
    BY <2>1 DEF HonoredIn, Masked, Readable, Options, Plain, InHeader, Flags
<1> QED
  BY <1>1, <1>4, <1>5, <1>6, <1>7, <1>8, Difference, Fields

LEMMA ApnsShows ==
    ASSUME NEW m, NEW k, WellFormed(m), WellFormed(k), m.on = k.on \/ m.data = k.data,
           NEW f \in Changed(m, k), "apns" \in HonoredIn(f), ~Masked("apns", f, m)
    PROVE  Read("apns", m) # Read("apns", k)
<1> SUFFICES ASSUME ApnsMessage(m) = ApnsMessage(k) PROVE FALSE
  BY DEF Read
<1>1. ~ApnsRefuses(m) /\ (f = "mutable_content" => ~Has(m, "image"))
  BY DEF Masked
<1>2. ~ApnsRefuses(k)
  <2>1. "payload" \in DOMAIN ApnsMessage(m)
    BY <1>1 DEF ApnsMessage
  <2>2. ApnsRefuses(k) => "payload" \notin DOMAIN ApnsMessage(k)
    BY DEF ApnsMessage
  <2> QED
    BY <2>1, <2>2
<1>3. ApnsPayload(m) = ApnsPayload(k) /\ ApnsHeaders(m) = ApnsHeaders(k)
  BY <1>1, <1>2 DEF ApnsMessage
<1>4. /\ Has(m, "silent") <=> Has(k, "silent")
      /\ Has(m, "content_available") <=> Has(k, "content_available")
      /\ (Has(m, "mutable_content") \/ Has(m, "image"))
         <=> (Has(k, "mutable_content") \/ Has(k, "image"))
      /\ ApnsTopLevel(m) = ApnsTopLevel(k)
      /\ Present(m, {"badge", "sound", "click_action", "tag"})
         = Present(k, {"badge", "sound", "click_action", "tag"})
  <2>1. \A x \in {m, k} :
           /\ ApnsPayload(x).alert <=> ~Has(x, "silent")
           /\ ApnsPayload(x).content_available <=> Has(x, "content_available")
           /\ ApnsPayload(x).mutable_content
                <=> Has(x, "mutable_content") \/ Has(x, "image")
    BY DEF ApnsPayload
  <2>2. \A x \in {m, k} :
           /\ ApnsPayload(x).top = ApnsTopLevel(x)
           /\ ApnsPayload(x).members = Present(x, {"badge", "sound", "click_action", "tag"})
    BY DEF ApnsPayload
  <2>3. /\ ApnsTopLevel(m) = ApnsTopLevel(k)
        /\ Present(m, {"badge", "sound", "click_action", "tag"})
           = Present(k, {"badge", "sound", "click_action", "tag"})
    BY <1>3, <2>2
  <2> QED
    BY <1>3, <2>1, <2>3
<1>5. /\ Has(m, "topic") = Has(k, "topic")
      /\ Has(m, "ttl") = Has(k, "ttl")
      /\ Has(m, "collapse_key") = Has(k, "collapse_key")
      /\ (IF m.priority = "high" THEN "10" ELSE "5")
         = (IF k.priority = "high" THEN "10" ELSE "5")
  BY <1>3 DEF ApnsHeaders
<1>6. m.priority = k.priority
  BY <1>5 DEF WellFormed, Priorities
<1>7. \A g \in {"badge", "sound", "click_action", "tag"} : Has(m, g) <=> Has(k, g)
  BY <1>4 DEF Present, Has
<1>8. \A key \in DataKeys :
         (IF key = "aps" \/ (key = "image-url" /\ Has(m, "image")) THEN 1 ELSE 0)
            + (IF key \in m.data THEN 1 ELSE 0)
         = (IF key = "aps" \/ (key = "image-url" /\ Has(k, "image")) THEN 1 ELSE 0)
            + (IF key \in k.data THEN 1 ELSE 0)
  BY <1>4 DEF ApnsTopLevel
<1>9. m.data = k.data /\ (Has(m, "image") <=> Has(k, "image"))
  <2>1. CASE m.on = k.on
    <3>1. Has(m, "image") <=> Has(k, "image")
      BY <2>1 DEF Has
    <3>2. \A key \in DataKeys : key \in m.data <=> key \in k.data
      BY <1>8, <3>1
    <3> QED
      BY <3>1, <3>2 DEF WellFormed
  <2>2. CASE m.data = k.data
    <3>1. "image-url" \in DataKeys
      BY DataKeysAssumption
    <3> QED
      BY <1>8, <2>2, <3>1
  <2> QED
    BY <2>1, <2>2
<1>10. m.bad = {} /\ k.bad = {}
  BY <1>1, <1>2 DEF ApnsRefuses
<1>11. /\ f \in {"image", "data", "ttl", "silent", "badge", "sound", "click_action",
                 "tag", "priority", "collapse_key", "topic", "mutable_content",
                 "content_available"}
  <2>1. f \in Options \cup {"data", "priority", "urgency"}
    BY Difference, Fields
  <2> QED
    BY <2>1 DEF HonoredIn, Readable, Options, Plain, InHeader, Flags
<1> QED
  BY <1>1, <1>4, <1>5, <1>6, <1>7, <1>9, <1>10, <1>11, Difference, Fields

LEMMA WebPushHeadersShow ==
    ASSUME NEW m, NEW k, WellFormed(m), WellFormed(k),
           NEW f \in Changed(m, k), "web headers" \in HonoredIn(f)
    PROVE  Read("web headers", m) # Read("web headers", k)
<1> SUFFICES ASSUME WebPushHeaders(m) = WebPushHeaders(k) PROVE FALSE
  BY DEF Read
<1>1. Has(m, "ttl") = Has(k, "ttl") /\ m.urgency = k.urgency
  BY DEF WebPushHeaders
<1>2. f \in {"ttl", "urgency"}
  <2>1. f \in Options \cup {"data", "priority", "urgency"}
    BY Difference, Fields
  <2> QED
    BY <2>1 DEF HonoredIn, Readable, Options, Plain, InHeader, Flags
<1> QED
  BY <1>1, <1>2, Difference, Fields

(* A field a service does not honor leaves what it reads as it is.         *)
LEMMA FcmIgnores ==
    ASSUME NEW m, NEW k, \A f \in Changed(m, k) : "fcm" \notin HonoredIn(f)
    PROVE  Read("fcm", m) = Read("fcm", k)
<1> DEFINE Honored == {"icon", "image", "data", "ttl", "silent", "badge", "sound",
                       "click_action", "tag", "priority", "collapse_key"}
<1>1. \A f \in Honored : "fcm" \in HonoredIn(f)
  BY DEF HonoredIn, Readable
<1>2. \A f \in Honored : f \notin Changed(m, k)
  BY <1>1
<1>3. /\ \A f \in Honored : Has(m, f) = Has(k, f) /\ (f \in m.bad <=> f \in k.bad)
      /\ m.data = k.data /\ m.priority = k.priority
  BY <1>2, Agreement DEF Has
<1>4. Present(m, {"image"}) = Present(k, {"image"})
  BY <1>3 DEF Present, Has
<1>5. Present(m, {"icon", "sound", "tag", "click_action", "badge"})
      = Present(k, {"icon", "sound", "tag", "click_action", "badge"})
  BY <1>3 DEF Present, Has
<1>6. Text(m, "collapse_key") = Text(k, "collapse_key")
  BY <1>3 DEF Text
<1> QED
  BY <1>3, <1>4, <1>5, <1>6 DEF Read, FcmMessage

LEMMA ApnsIgnores ==
    ASSUME NEW m, NEW k, WellFormed(m), WellFormed(k),
           \A f \in Changed(m, k) : "apns" \notin HonoredIn(f)
    PROVE  Read("apns", m) = Read("apns", k)
<1> DEFINE Honored == {"image", "data", "ttl", "silent", "badge", "sound", "click_action",
                       "tag", "priority", "collapse_key", "topic", "mutable_content",
                       "content_available"}
<1>1. \A f \in Honored : "apns" \in HonoredIn(f)
  BY DEF HonoredIn, Readable
<1>2. \A f \in Honored : f \notin Changed(m, k)
  BY <1>1
<1>3. /\ \A f \in Honored : Has(m, f) = Has(k, f) /\ (f \in m.bad <=> f \in k.bad)
      /\ m.data = k.data /\ m.priority = k.priority
  BY <1>2, Agreement DEF Has
<1>4. m.bad = k.bad
  BY <1>3 DEF WellFormed, InHeader
<1>5. Present(m, {"badge", "sound", "click_action", "tag"})
      = Present(k, {"badge", "sound", "click_action", "tag"})
  BY <1>3 DEF Present, Has
<1>6. ApnsPayload(m) = ApnsPayload(k)
  BY <1>3, <1>5 DEF ApnsPayload, ApnsTopLevel
<1>7. ApnsHeaders(m) = ApnsHeaders(k)
  BY <1>3 DEF ApnsHeaders
<1>8. ApnsRefuses(m) <=> ApnsRefuses(k)
  BY <1>3, <1>4 DEF ApnsRefuses
<1> QED
  BY <1>6, <1>7, <1>8 DEF Read, ApnsMessage

LEMMA SameOption ==
    ASSUME NEW m, NEW k, NEW f, f \notin Changed(m, k)
    PROVE  Has(m, f) = Has(k, f)
BY DEF Changed, Has

LEMMA WebPushHeadersIgnore ==
    ASSUME NEW m, NEW k, \A f \in Changed(m, k) : "web headers" \notin HonoredIn(f)
    PROVE  Read("web headers", m) = Read("web headers", k)
<1>1. "web headers" \in HonoredIn("ttl") /\ "web headers" \in HonoredIn("urgency")
  BY DEF HonoredIn, Readable
<1>2. "ttl" \notin Changed(m, k) /\ "urgency" \notin Changed(m, k)
  BY <1>1
<1>3. Has(m, "ttl") = Has(k, "ttl")
  BY <1>2, SameOption
<1>4. m.urgency = k.urgency
  BY <1>2, Agreement
<1> QED
  BY <1>3, <1>4 DEF Read, WebPushHeaders

(* Every field a setter changes shows in the FCM message, the APNS message *)
(* and the Web Push headers where it is documented as honored, unless      *)
(* another field masks it there, and leaves the others of the three as     *)
(* they were: for any custom data, after any number of settings in any     *)
(* order.                                                                  *)
THEOREM FieldsAreRead == Spec => FieldsReachTheServices
<1> DEFINE Honors ==
       LET changed == Changed(n, n') IN
       \A r \in Readable :
          /\ (\E f \in changed : r \in HonoredIn(f) /\ ~Masked(r, f, n))
                => Read(r, n) # Read(r, n')
          /\ (\A f \in changed : r \notin HonoredIn(f)) => Read(r, n) = Read(r, n')
<1>1. ASSUME NotificationInv, NotificationInv', [Next]_n PROVE Honors
  <2>1. WellFormed(n) /\ WellFormed(n')
    BY <1>1 DEF NotificationInv
  <2>2. n.on = n'.on \/ n.data = n'.data
    BY <1>1, NextNotification
  <2>3. ASSUME NEW r \in Readable,
               NEW f \in Changed(n, n'), r \in HonoredIn(f), ~Masked(r, f, n)
        PROVE  Read(r, n) # Read(r, n')
    BY <2>1, <2>2, <2>3, FcmShows, ApnsShows, WebPushHeadersShow DEF Readable
  <2>4. ASSUME NEW r \in Readable, \A f \in Changed(n, n') : r \notin HonoredIn(f)
        PROVE  Read(r, n) = Read(r, n')
    <3>1. CASE r = "fcm"
      BY <2>4, <3>1, FcmIgnores
    <3>2. CASE r = "apns"
      BY <2>1, <2>4, <3>2, ApnsIgnores
    <3>3. CASE r = "web headers"
      BY <2>4, <3>3, WebPushHeadersIgnore
    <3> QED
      BY <3>1, <3>2, <3>3 DEF Readable
  <2> QED
    BY <2>3, <2>4
<1>2. [Next]_n /\ NotificationInv /\ NotificationInv' => [Honors]_n
  BY <1>1
<1> QED
  BY <1>2, NotificationInvariance, PTL DEF Spec, FieldsReachTheServices
=============================================================================

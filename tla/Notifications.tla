--------------------------- MODULE Notifications ---------------------------
(***************************************************************************)
(* A notification under construction and what the three providers make of  *)
(* it: the builder methods of notification.rs in any order, build_message_ *)
(* body of FCM, build_payload and the headers of APNS, and the payload and *)
(* the headers of Web Push.                                                *)
(*                                                                         *)
(* Text is abstracted to whether it is there, data to its keys, and a      *)
(* string that must become an APNS header to whether it can.  A message is *)
(* written as the members that depend on the notification; title and body  *)
(* are always there and stand for the alert they are in.                   *)
(***************************************************************************)
EXTENDS Naturals, FiniteSets

CONSTANTS
    DataKeys,      \* keys of custom data, "aps" and "image-url" among them
    MaxSettings    \* bound: settings that differ from their default

ASSUME DataKeysAssumption == {"aps", "image-url"} \subseteq DataKeys
ASSUME MaxSettingsAssumption == MaxSettings \in Nat

VARIABLE n         \* the notification

(* The optional fields, those of them that APNS sends as a header, and the *)
(* flags; actions counts as a flag.                                        *)
Plain    == {"icon", "image", "badge", "sound", "click_action", "tag", "ttl"}
InHeader == {"topic", "collapse_key"}
Flags    == {"silent", "mutable_content", "content_available", "actions"}
Options  == Plain \cup InHeader \cup Flags

Priorities == {"normal", "high"}
Urgencies  == {"very-low", "low", "normal", "high"}

(* on are the options that are set, bad those of them that cannot become a *)
(* header.                                                                 *)
Notification(on, bad, data, priority, urgency) ==
    [on |-> on, bad |-> bad, data |-> data, priority |-> priority, urgency |-> urgency]

New      == Notification({}, {}, {}, "normal", "normal")
DataOnly == Notification({"silent", "content_available"}, {}, {}, "normal", "normal")

-----------------------------------------------------------------------------
(* The messages *)

Has(m, f) == f \in m.on

(* The string a caller gave for f, so far as it matters. *)
Text(m, f) == IF ~Has(m, f) THEN "none" ELSE IF f \in m.bad THEN "unencodable" ELSE "encodable"

Present(m, fields) == fields \cap m.on

(* Definitions named Bug... are faults the properties must detect: each is *)
(* what the definition after it would be with a plausible mistake in it.   *)
BugBadgeUnmapped(m) ==
    [notification |-> IF Has(m, "silent") THEN {} ELSE {"alert"} \cup Present(m, {"image"}),
     data         |-> m.data,
     android      |-> [priority     |-> m.priority,
                       ttl          |-> Has(m, "ttl"),
                       collapse_key |-> Text(m, "collapse_key"),
                       notification |-> {"block"} \cup
                           Present(m, {"icon", "sound", "tag", "click_action"})]]

(* The android block always has a notification block, perhaps an empty one.*)
FcmMessage(m) ==
    [notification |-> IF Has(m, "silent") THEN {} ELSE {"alert"} \cup Present(m, {"image"}),
     data         |-> m.data,
     android      |-> [priority     |-> m.priority,
                       ttl          |-> Has(m, "ttl"),
                       collapse_key |-> Text(m, "collapse_key"),
                       notification |-> {"block"} \cup
                           Present(m, {"icon", "sound", "tag", "click_action", "badge"})]]

(* The top level of an APNS payload: how often each member is in it. *)
ApnsTopLevel(m) ==
    [k \in DataKeys |-> (IF k = "aps" \/ (k = "image-url" /\ Has(m, "image")) THEN 1 ELSE 0)
                        + (IF k \in m.data THEN 1 ELSE 0)]

ApnsPayload(m) ==
    [alert             |-> ~Has(m, "silent"),
     members           |-> Present(m, {"badge", "sound", "click_action", "tag"}),
     content_available |-> Has(m, "content_available"),
     mutable_content   |-> Has(m, "mutable_content") \/ Has(m, "image"),
     top               |-> ApnsTopLevel(m)]

(* Without a topic the bundle ID is sent. *)
ApnsHeaders(m) ==
    [topic       |-> Has(m, "topic"),
     push_type   |-> IF Has(m, "silent") THEN "background" ELSE "alert",
     priority    |-> IF m.priority = "high" THEN "10" ELSE "5",
     expiration  |-> Has(m, "ttl"),
     collapse_id |-> Has(m, "collapse_key")]

(* prepare refuses what would not be a valid request. *)
ApnsRefuses(m) == "aps" \in m.data \/ m.bad # {}

ApnsMessage(m) ==
    IF ApnsRefuses(m) THEN [refused |-> "Config"]
    ELSE [payload |-> ApnsPayload(m), headers |-> ApnsHeaders(m)]

(* Without a ttl the default of the configuration is sent, which stands   *)
(* for a value no setter gives; so does the bundle ID of ApnsHeaders.      *)
WebPushHeaders(m) == [ttl |-> Has(m, "ttl"), urgency |-> m.urgency]

(* The payload, which is encrypted for the service worker, is the whole    *)
(* notification.                                                           *)
WebPushMessage(m) == [payload |-> m, headers |-> WebPushHeaders(m)]

-----------------------------------------------------------------------------
(* The builder *)

Init == n \in {New, DataOnly}

(* The settings in which two notifications differ. *)
Changed(m, k) ==
    (m.on \ k.on) \cup (k.on \ m.on) \cup (m.bad \ k.bad) \cup (k.bad \ m.bad)
    \cup (IF m.data = k.data THEN {} ELSE {"data"})
    \cup (IF m.priority = k.priority THEN {} ELSE {"priority"})
    \cup (IF m.urgency = k.urgency THEN {} ELSE {"urgency"})

(* Every setter stores what it is given and returns the notification; the  *)
(* deprecated NotificationBuilder has six of them, on one that it wraps.   *)
Becomes(m) ==
    /\ Cardinality(Changed(m, New)) <= MaxSettings
    /\ n' = m

(* The setters of the plain options, mutable_content and action. *)
SetOption(f) == Becomes([n EXCEPT !.on = @ \cup {f}])

(* topic and collapse_key, with a string that can become a header or not. *)
SetHeader(f, encodable) ==
    Becomes([n EXCEPT !.on  = @ \cup {f},
                      !.bad = IF encodable THEN @ \ {f} ELSE @ \cup {f}])

Data(key) == Becomes([n EXCEPT !.data = @ \cup {key}])

Priority(p) == Becomes([n EXCEPT !.priority = p])

HighPriority == Becomes([n EXCEPT !.priority = "high", !.urgency = "high"])

Urgency(u) == Becomes([n EXCEPT !.urgency = u])

BugSilentWithoutWake == Becomes([n EXCEPT !.on = @ \cup {"silent"}])

Silent == Becomes([n EXCEPT !.on = @ \cup {"silent", "content_available"}])

Next ==
    \/ \E f \in Plain \cup {"mutable_content", "actions"} : SetOption(f)
    \/ \E f \in InHeader : \E encodable \in BOOLEAN : SetHeader(f, encodable)
    \/ \E key \in DataKeys : Data(key)
    \/ \E p \in Priorities : Priority(p)
    \/ HighPriority
    \/ \E u \in Urgencies : Urgency(u)
    \/ Silent

Spec == Init /\ [][Next]_n

-----------------------------------------------------------------------------
(* Properties *)

(* A notification that was made silent, at whatever point of its           *)
(* construction, has no alert on either mobile platform: FCM gets no       *)
(* top-level notification, and on APNS header and payload agree, the push  *)
(* type being background exactly without an alert, and then with           *)
(* content-available.  It says nothing of what else may be set: a badge or *)
(* a sound in aps, a high priority, and the android block stay as they are.*)
SilentHasNoAlert ==
    /\ Has(n, "silent") => FcmMessage(n).notification = {}
    /\ ~ApnsRefuses(n) =>
          LET apns == ApnsMessage(n) IN
          /\ apns.headers.push_type = "background" <=> ~apns.payload.alert
          /\ apns.headers.push_type = "background" => apns.payload.content_available

(* What a push service reads of a notification: the message to FCM, the    *)
(* one to APNS, and the headers of a Web Push request, whose payload it    *)
(* cannot read.                                                            *)
Readable == {"fcm", "apns", "web headers"}

Read(r, m) ==
    CASE r = "fcm"         -> FcmMessage(m)
      [] r = "apns"        -> ApnsMessage(m)
      [] r = "web headers" -> WebPushHeaders(m)

(* Where a field is to be read, by the documentation of the field. *)
HonoredIn(f) ==
    CASE f = "icon"    -> {"fcm"}
      [] f = "actions" -> {}
      [] f = "urgency" -> {"web headers"}
      [] f = "ttl"     -> Readable
      [] f \in {"image", "data", "silent", "badge", "sound", "click_action", "tag",
                "priority", "collapse_key"} -> {"fcm", "apns"}
      [] f \in {"topic", "mutable_content", "content_available"} -> {"apns"}

(* Where a field cannot show: a request APNS refuses, the mutable-content  *)
(* an image implies, and the image in the alert that silent suppresses.    *)
Masked(r, f, m) ==
    \/ r = "apns" /\ ApnsRefuses(m)
    \/ r = "apns" /\ f = "mutable_content" /\ Has(m, "image")
    \/ r = "fcm" /\ f = "image" /\ Has(m, "silent")

(* What a builder call changes shows in the FCM message, in the APNS       *)
(* message and in the Web Push headers where the documentation of the      *)
(* field says that it is honored, whatever was set before, and the others  *)
(* of the three stay as they were.  Nothing is claimed of the Web Push     *)
(* payload, which has every field, also those documented as ignored by Web *)
(* Push.                                                                   *)
FieldsReachTheServices ==
    [][LET changed == Changed(n, n') IN
       \A r \in Readable :
          /\ (\E f \in changed : r \in HonoredIn(f) /\ ~Masked(r, f, n))
                => Read(r, n) # Read(r, n')
          /\ (\A f \in changed : r \notin HonoredIn(f)) => Read(r, n) = Read(r, n')]_n

=============================================================================

---------------------------- MODULE PushPayload ----------------------------
(***************************************************************************)
(* Which notifications preparePushPayload of push_notification_service.go  *)
(* turns into a OneSignal request and which it refuses, and which of them  *)
(* the notifications table can hold.  A notification is reduced to what    *)
(* these decisions look at; the remaining fields are copied into the       *)
(* request or left out of it, and are not modelled.                        *)
(***************************************************************************)
EXTENDS Integers

\* The fields that count as targeting.
Mechanisms ==
  {"target_user_id", "included_segments", "excluded_segments",
   "include_player_ids", "include_external_user_ids", "include_email_tokens",
   "include_phone_numbers", "include_ios_tokens", "include_wp_wns_uris",
   "include_amazon_reg_ids", "include_chrome_reg_ids",
   "include_chrome_web_reg_ids", "include_android_reg_ids"}

\* A JSON field is absent, does not decode into the type the code asks for,
\* or does; a text by language has an English entry or has only others.
JSONFields == {"absent", "bad", "decodes"}
Texts == {"absent", "bad", "others", "en"}

\* targets: the mechanisms that are set.  ttl: no value or one.  send_after:
\* whether a date is set; whether it has passed is for the clock to say.
\* fits: whether every text is as short as the column of its row, such as the
\* seven characters of android_accent_color.
Notifications ==
  [targets : SUBSET Mechanisms, headings : Texts, subtitle : Texts,
   contents : Texts, data : JSONFields, buttons : JSONFields,
   ttl : SUBSET Int, send_after : BOOLEAN, fits : BOOLEAN]

\* The notifications table takes a row for it.
Storable(n) == n.fits

hasTargeting(n) == n.targets # {}

maxTTL == 2592000

validateTTL(ttl) == 0 < ttl /\ ttl <= maxTTL

\* The English heading is required, the English contents are not.
ValidTexts(n) ==
  /\ n.headings = "en"
  /\ n.subtitle # "bad"
  /\ n.contents \notin {"absent", "bad"}

\* sendAfter.Before(time.Now()), at every attempt anew.
validateSendAfter(n, overdue) == n.send_after => ~overdue

ValidOptions(n, overdue) ==
  /\ \A ttl \in n.ttl : validateTTL(ttl)
  /\ validateSendAfter(n, overdue)
  /\ n.buttons # "bad"

\* TRUE where the code returns a payload, FALSE where it returns an error.
preparePushPayload(n, overdue) ==
  /\ hasTargeting(n)
  /\ ValidTexts(n)
  /\ n.data # "bad"
  /\ ValidOptions(n, overdue)

=============================================================================

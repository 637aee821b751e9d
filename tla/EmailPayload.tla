---------------------------- MODULE EmailPayload ----------------------------
(***************************************************************************)
(* Which emails the database stores and emailToResendEmailRequest of       *)
(* email_service.go turns into a Resend request.  An email is reduced to   *)
(* what these two decisions look at.                                       *)
(***************************************************************************)

\* A JSON field is absent, does not decode into the type the code asks for,
\* or does.
JSONFields == {"absent", "bad", "decodes"}

\* from: blank, with the suffix of an allowed sender domain, or another.
\* to: null in the message, an empty list, or not empty.  copies: cc or bcc
\* is not empty.  subject, template: not blank.  body: html or text is given.
Emails ==
  [from : {"blank", "allowed", "foreign"}, to : {"null", "empty", "some"},
   copies : BOOLEAN, subject : BOOLEAN, template : BOOLEAN, body : BOOLEAN,
   attachments : JSONFields, template_vars : JSONFields]

\* to_addresses is NOT NULL, and a missing list is written as NULL.
Storable(e) == e.to # "null"

HasRecipient(e) == e.to = "some" \/ e.copies

\* template_vars are looked at only where there is a template.
ValidContent(e) ==
  /\ e.template # e.body
  /\ e.attachments # "bad"
  /\ e.template => e.template_vars # "bad"

\* TRUE where the code returns a request, FALSE where it returns an error.
emailToResendEmailRequest(e) ==
  /\ e.from = "allowed"
  /\ HasRecipient(e)
  /\ e.subject
  /\ ValidContent(e)

=============================================================================

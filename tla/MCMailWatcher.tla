--------------------------- MODULE MCMailWatcher ---------------------------
(* Constants of the TLC runs of MailWatcher.                               *)
EXTENDS MailWatcher, TLC

CONSTANTS old, a, b, c, idOld, idA, idB

\* One message is there from the start.
OldMail == <<old>>

\* b and c have the same Message-ID: a mail to oneself, sent and received.
Ids == (old :> idOld) @@ (a :> idA) @@ (b :> idB) @@ (c :> idB)

Places == (old :> "INBOX") @@ (a :> "Spam") @@ (b :> "Sent") @@ (c :> "INBOX")
=============================================================================

----------------------------- MODULE MCSidecar -----------------------------
(* Constants of the TLC run of Sidecar.                                    *)
EXTENDS Sidecar, TLC

CONSTANTS a1, w1, w2, mail, draft, idMail, idDraft

NoBacklog == <<>>

\* draft is only in Drafts.
Ids == (mail :> idMail) @@ (draft :> idDraft)
Places == (mail :> "INBOX") @@ (draft :> "Drafts")

File(read, token, channel, n) ==
    [read |-> read, botToken |-> token, channelID |-> channel, window |-> n]

Files == {File("absent", FALSE, FALSE, 0), File("malformed", TRUE, TRUE, 0),
          File("parsed", TRUE, FALSE, DefaultWindow), File("parsed", TRUE, TRUE, -1)}

WatcherSymmetry == Permutations({w1, w2})
=============================================================================

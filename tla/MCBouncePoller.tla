---------------------------- MODULE MCBouncePoller ----------------------------
(***************************************************************************)
(* Two replicas and two mails about a delivery x of the first tenant, sent *)
(* through the shared relay, in a POP3 mailbox of that tenant, of another  *)
(* or of the platform.  The run that is expected to fail has an IMAP       *)
(* mailbox and a second delivery y, the other tenant's probe.              *)
(***************************************************************************)
EXTENDS BouncePoller

CONSTANTS r1, r2, t1, t2, x, y

TwoReplicas == {r1, r2}

TwoTenants == {t1, t2}

OnlyX == {x}

OnlyY == {y}

TwoDeliveries == {x, y}

OwnerOfX == [d \in OnlyX |-> t1]

Owners == [d \in TwoDeliveries |-> IF d = x THEN t1 ELSE t2]

Pop3 == {"delete", "keep"}

Imap == {"seen"}

Verp(d, key) == <<[delivery |-> d, key |-> key]>>

Header(t, d) == <<[tenant |-> t, delivery |-> d]>>

Failure == [PlainMail EXCEPT !.report = TRUE,
                             !.blocks = <<Block("delayed", <<4, 4, 7>>, <<>>), Block("failed", <<5, 1, 1>>, <<>>)>>]

LettersOfX ==
  <<[Failure EXCEPT !.verp = Verp(x, t1)],
    [Failure EXCEPT !.verp = Verp(x, None), !.headers = Header(t1, x)],
    [PlainMail EXCEPT !.feedback = "abuse", !.headers = Header(t1, x)]>>

SomeLetters == LettersOfX \o <<[Failure EXCEPT !.headers = Header(t2, y)]>>
=============================================================================

----------------------------- MODULE BounceParse -----------------------------
(***************************************************************************)
(* What a mail in a bounce mailbox says (internal/bounce/parse.go and      *)
(* classify.go): the kind of bounce, and the delivery it is about.         *)
(*                                                                         *)
(* A mail is what the MIME walk collects from it: the feedback type of an  *)
(* ARF part, the recipient blocks of a delivery status part, the code and  *)
(* the kinds of phrases found in free text, and the traces of the original *)
(* that came back.  A code is an enhanced status (a triple), a reply code  *)
(* (a singleton) or <<>>.                                                  *)
(***************************************************************************)
EXTENDS Integers, Sequences, FiniteSetsExt

CONSTANTS
  None,   \* no delivery, no tenant, no key
  AnyKey  \* the correlation carries no signature

Types == {"hard", "soft", "complaint", "unknown"}

\* A mail of which nothing but the given parts was found.
PlainMail ==
  [readable |-> TRUE,
   feedback |-> "absent",   \* Feedback-Type of a message/feedback-report part
   report   |-> FALSE,      \* a message/delivery-status part
   blocks   |-> <<>>,       \* its recipients: action, status, diagnostic code
   auto     |-> FALSE,      \* an auto-reply header or subject
   subject  |-> "other",    \* or complaint, or bounce (a mailer daemon's)
   code     |-> <<>>,       \* the code in the text
   phrases  |-> {},         \* hard, soft
   verp     |-> <<>>,       \* VERP addresses: delivery, and whose key signed it
   headers  |-> <<>>,       \* X-Sendplane-ID: tenant, delivery
   replies  |-> <<>>]       \* deliveries named by Message-IDs

Block(action, status, diagnostic) ==
  [action |-> action, status |-> status, diagnostic |-> diagnostic]

\* softStatusPrefixes.
SoftStatus(code) ==
  \/ SubSeq(code, 1, 2) \in {<<5, 3>>, <<5, 4>>, <<5, 5>>, <<5, 7>>}
  \/ SubSeq(code, 1, 2) = <<5, 2>> /\ (code[3] \in {2, 3} \/ code[3] \div 10 \in {2, 3}
                                         \/ code[3] \div 100 \in {2, 3})

\* typeFromStatus.
TypeFromStatus(code) ==
  CASE code[1] = 4 -> "soft"
    [] code[1] = 5 -> IF SoftStatus(code) THEN "soft" ELSE "hard"
    [] OTHER       -> "unknown"

\* statusFromText: an enhanced status wins over a reply code.
StatusFromText(code) ==
  CASE code = <<>>    -> "unknown"
    [] Len(code) = 3  -> TypeFromStatus(code)
    [] OTHER          -> IF code[1] \div 100 = 4 THEN "soft" ELSE "hard"

\* recipientBlock: the first failure, else the first block that says anything,
\* else the first.
RecipientBlock(blocks) ==
  LET failed == {i \in DOMAIN blocks : blocks[i].action = "failed"}
      saying == {i \in DOMAIN blocks : blocks[i].status # <<>> \/ blocks[i].action # ""}
  IN CASE blocks = <<>> -> Block("", <<>>, <<>>)
       [] failed # {}   -> blocks[Min(failed)]
       [] OTHER         -> blocks[IF saying # {} THEN Min(saying) ELSE 1]

ClassifyFeedback(mail) ==
  IF mail.feedback \in {"abuse", "fraud", ""} THEN "complaint" ELSE "unknown"

ClassifyDSN(mail) ==
  LET block == RecipientBlock(mail.blocks)
  IN CASE block.action = "delayed"                              -> "soft"
       [] block.action \in {"delivered", "relayed", "expanded"} -> "unknown"
       [] OTHER -> IF block.status = <<>> THEN StatusFromText(block.diagnostic)
                                          ELSE TypeFromStatus(block.status)

\* classifyHeuristic, for a mail without a report; an auto-reply says nothing.
ClassifyHeuristic(mail) ==
  LET found == StatusFromText(mail.code)
      bySubject == [complaint |-> "complaint", other |-> "unknown"]
      byText == IF "hard" \in mail.phrases THEN "hard"
                ELSE IF "soft" \in mail.phrases THEN "soft" ELSE "unknown"
  IN IF mail.auto THEN "unknown"
     ELSE IF mail.subject # "bounce" THEN bySubject[mail.subject]
     ELSE IF found = "unknown" THEN byText
     ELSE IF found = "hard" /\ mail.phrases = {"soft"} THEN "soft"
     ELSE found

\* classify, and the drop of a mail that is no bounce (IsBounce).
Classify(mail) ==
  IF ~mail.readable THEN "unknown"
  ELSE IF mail.feedback # "absent" THEN ClassifyFeedback(mail)
  ELSE IF mail.report THEN ClassifyDSN(mail)
  ELSE ClassifyHeuristic(mail)

Correlation(delivery, tenant, key) == [delivery |-> delivery, tenant |-> tenant, key |-> key]

\* The traces in the returned headers: no signature, nothing to verify.
CorrelateHeaders(mail) ==
  CASE mail.headers # <<>> -> Correlation(mail.headers[1].delivery, mail.headers[1].tenant, AnyKey)
    [] mail.headers = <<>> -> IF mail.replies # <<>> THEN Correlation(mail.replies[1], None, AnyKey)
                                                     ELSE Correlation(None, None, None)

\* Mutant: a VERP address without a signature is passed over for the headers.
CorrelateAnyway(mail) ==
  IF mail.verp # <<>> /\ mail.verp[1].key # None
    THEN Correlation(mail.verp[1].delivery, None, mail.verp[1].key)
    ELSE CorrelateHeaders(mail)

\* correlate: the first VERP address decides, verified or not.
Correlate(mail) ==
  IF mail.verp # <<>> THEN Correlation(mail.verp[1].delivery, None, mail.verp[1].key)
                      ELSE CorrelateHeaders(mail)

\* ParseVERP with the keys of a tenant; Parse has none (None).
Verified(c, tenant) == c.key = AnyKey \/ (c.key # None /\ c.key = tenant)
=============================================================================

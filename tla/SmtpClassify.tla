---------------------------- MODULE SmtpClassify ----------------------------
(***************************************************************************)
(* Classification of a send error (internal/sender/classify.go): an SMTP   *)
(* reply or a network failure becomes one of the error classes, which      *)
(* decide whether a delivery is retried, deferred or failed and whether    *)
(* the transport is blamed.                                                *)
(*                                                                         *)
(* A reply is its code, its enhanced status as a triple (<<>> for none)    *)
(* and the kinds of words its text contains.                               *)
(***************************************************************************)
EXTENDS Integers, Sequences, FiniteSetsExt

Classes == {"none", "transient", "permanent", "policy", "rate_limited", "auth"}

\* What conn.Send or pool.Get returned: nil, a failure without a reply, a reply.
Sent == [kind |-> "nil"]

NetworkFailure(kind) == [kind |-> kind]

SmtpReply(code, enhanced, words) ==
  [kind |-> "reply", code |-> code, enhanced |-> enhanced, words |-> words]

AnyCode == 0..999

AnyStatus == {<<>>}

\* hasAnyPrefix on the dotted text: "4.2.1" is also a prefix of "4.2.12".
HasStatusPrefix(status, prefix) ==
  /\ Len(status) = 3
  /\ SubSeq(status, 1, 2) = SubSeq(prefix, 1, 2)
  /\ \/ Len(prefix) = 2
     \/ status[3] = prefix[3]
     \/ prefix[3] > 0 /\ prefix[3] \in {status[3] \div 10, status[3] \div 100}

Rule(codes, statuses, words, class) ==
  [codes |-> codes, statuses |-> statuses, words |-> words, class |-> class]

\* rules: the first that matches wins.
Rules == <<
  Rule({530, 534, 535, 538}, AnyStatus, {}, "auth"),
  Rule(AnyCode, {<<5, 7, 8>>, <<5, 7, 9>>, <<4, 7, 8>>}, {}, "auth"),
  Rule({421}, AnyStatus, {}, "rate_limited"),
  Rule({450, 451, 452}, AnyStatus, {"throttle"}, "rate_limited"),
  Rule(AnyCode, {<<4, 7, 0>>, <<4, 7, 28>>, <<4, 2, 1>>}, {}, "rate_limited"),
  Rule(AnyCode, {<<5, 7>>}, {}, "policy"),
  Rule(500..599, AnyStatus, {"reputation"}, "policy"),
  Rule(500..599, AnyStatus, {}, "permanent"),
  Rule(400..499, AnyStatus, {}, "transient") >>

\* rule.match: every condition the rule states holds.
RuleMatches(rule, reply) ==
  /\ reply.code \in rule.codes
  /\ rule.statuses # AnyStatus =>
       \E prefix \in rule.statuses : HasStatusPrefix(reply.enhanced, prefix)
  /\ rule.words # {} => reply.words \cap rule.words # {}

\* Classify, with classifyNetwork; a reply no rule matches is transient.
Classify(result) ==
  CASE result.kind = "nil"                                  -> "none"
    [] result.kind = "tls"                                  -> "auth"
    [] result.kind \in {"timeout", "connection", "unknown"} -> "transient"
    [] result.kind = "reply" ->
         LET matching == {i \in DOMAIN Rules : RuleMatches(Rules[i], result)}
         IN IF matching = {} THEN "transient" ELSE Rules[Min(matching)].class
=============================================================================

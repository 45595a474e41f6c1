----------------------------- MODULE MCProbeRuns -----------------------------
(***************************************************************************)
(* No mailbox, a webhook mailbox, an IMAP mailbox or both; two runs in     *)
(* all: two of one mailbox or one of each.                                 *)
(***************************************************************************)
EXTENDS ProbeRuns

CONSTANTS hook, imap, h1

OneHook == {hook}

OneImap == {imap}

OneHandler == {h1}

NoneOneOrBoth ==
  {<<{}, "red">>, <<{hook}, "off">>, <<{imap}, "red">>, <<{hook, imap}, "green">>}

Good == [spf |-> "pass", dkim |-> "pass", dmarc |-> "pass", trusted |-> TRUE, folder |-> "unknown",
         dmarcPolicy |-> "reject", tls |-> TRUE, ptr |-> "unchecked"]

OnlyGood == {Good}
=============================================================================

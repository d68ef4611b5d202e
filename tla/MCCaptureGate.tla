----------------------------- MODULE MCCaptureGate -----------------------------
(***************************************************************************)
(* Small instances of CaptureGate.                                         *)
(***************************************************************************)
EXTENDS CaptureGate, TLC

CONSTANTS c1, c2, text, twin, other, src, h1, h2, intent, fam, none

Mcp(content, source, hash, intents, family) ==
  [via |-> "mcp", content |-> content, source |-> source, hash |-> hash,
   intents |-> intents, family |-> family, vector |-> FALSE]
Record(content, source, family, vector) ==
  [via |-> "consumer", content |-> content, source |-> source, hash |-> h1,
   intents |-> none, family |-> family, vector |-> vector]

TwoClients == {c1, c2}
Texts == {text, twin}
Srcs == {src, other}
TwoHashes == {h1, h2}
OneIntent == {intent}
OneFamily == {fam}
Twins == {<<text, twin>>, <<twin, text>>}

\* One source event: two texts under one payload hash, which the caller chooses,
\* and another hash and intents.
KeyedRequests ==
  {Mcp(text, src, h1, none, none), Mcp(twin, src, h1, none, none), Mcp(text, src, h2, intent, none)}

\* A source event with intents, its text without them, and a text of the family.
CrossedRequests ==
  {Mcp(text, src, h1, intent, fam), Mcp(text, none, h1, none, none), Mcp(twin, src, h1, none, fam)}

\* The consumer brings two texts that may stand for one another.
TwinRecords ==
  {Record(text, src, fam, TRUE), Record(twin, other, fam, TRUE), Record(text, other, fam, FALSE)}

MixedRequests == CrossedRequests \cup TwinRecords

ClientSymmetry == Permutations(Clients)
==============================================================================

---------------------------- MODULE MCInvocation ----------------------------
(***************************************************************************)
(* A small deployment for TLC: capabilities that share a provider-wide     *)
(* rate limit, one of each refusal, and requests of every surface.         *)
(***************************************************************************)
EXTENDS Invocation

CONSTANTS c1, c2, alice, bob, nobody, noTool

MCCalls == {c1, c2}
MCPrincipals == {alice, bob}

Rule(id, allow, deny, max, window) ==
  [id |-> id, keys |-> {"id", "allow", "deny", "rateLimit"}, illTyped |-> {},
   allow |-> allow, deny |-> deny, max |-> max, window |-> window]

ProviderRule == Rule("provider", {}, {}, 1, 2)
OwnRule == Rule("own", {alice, bob}, {bob}, 1, 1)
FutureRule == [Rule("future", {}, {}, 0, 1) EXCEPT !.keys = {"id", "constraints"}]
BrokenRule == [Rule("broken", {}, {}, 0, 1) EXCEPT !.illTyped = {"rateLimit"}]

ToolOf(lifecycle, tokens, rules, connector, mapped) ==
  [lifecycle |-> lifecycle, tokens |-> tokens, tokensReadable |-> TRUE, rules |-> rules,
   rulesShape |-> IF rules = {} THEN "absent" ELSE "array",
   connector |-> connector, mapped |-> mapped]

MCTools ==
  [search  |-> ToolOf("stable", {}, {ProviderRule}, "rest", TRUE),
   book    |-> ToolOf("beta", {"authenticated"}, {ProviderRule, OwnRule}, "rest", FALSE),
   report  |-> ToolOf("experimental", {}, {}, "sql", FALSE),
   unbound |-> ToolOf("deprecated", {}, {}, "none", FALSE),
   old     |-> ToolOf("retired", {}, {OwnRule}, "rest", FALSE),
   newer   |-> ToolOf("preview", {}, {}, "rest", FALSE),
   future  |-> ToolOf("stable", {}, {FutureRule, BrokenRule}, "rest", FALSE),
   garbled |-> [ToolOf("stable", {}, {}, "rest", FALSE) EXCEPT !.rulesShape = "malformed"]]

As(who, credential) == [principal |-> who, credential |-> credential]

Req(surface, tool, resolver, caller) ==
  [surface |-> surface, tool |-> tool, bearer |-> TRUE, resolver |-> resolver, caller |-> caller]

MCRequests ==
  {Req("http", "search", "none", NoCaller),
   Req("http", "book", "returns", As(alice, TRUE)),
   Req("http", "book", "returns", As(alice, FALSE)),
   Req("http", "search", "throws", NoCaller),
   [Req("http", "search", "returns", As(alice, TRUE)) EXCEPT !.bearer = FALSE],
   Req("stdio", "search", "none", NoCaller),
   Req("embedded", "book", "none", As(bob, TRUE)),
   Req("embedded", "report", "none", As(alice, FALSE)),
   Req("embedded", "search", "none", As(alice, FALSE)),
   Req("stdio", "unbound", "none", NoCaller),
   Req("stdio", "old", "none", NoCaller),
   Req("stdio", "newer", "none", NoCaller),
   Req("stdio", "future", "none", NoCaller),
   Req("stdio", "garbled", "none", NoCaller),
   Req("embedded", noTool, "none", NoCaller)}

(* The compiler's artifacts satisfy it, and so does this one. *)
ASSUME ArtifactAssumption == OneRulePerId

MCHosts ==
  {[counter |-> TRUE, sink |-> TRUE, full |-> TRUE, caller |-> As(bob, TRUE)],
   [counter |-> TRUE, sink |-> FALSE, full |-> FALSE, caller |-> As(alice, TRUE)],
   [counter |-> FALSE, sink |-> TRUE, full |-> FALSE, caller |-> As(alice, TRUE)]}
=============================================================================

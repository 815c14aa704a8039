--------------------------- MODULE MCModelDirectory ---------------------------
(* A small instance of ModelDirectory.                                         *)
EXTENDS ModelDirectory

CONSTANTS a1, a2, q1, f1, f2, gpt, opus

BothOffered == [f \in Files |-> IF f = f1 THEN {gpt, opus} ELSE {opus}]

Rated(input, output, cacheRead, mode) ==
  [ZeroPrice EXCEPT !.input = input, !.output = output, !.cacheRead = cacheRead,
                    !.mode = mode]
TokenPrice ==
  [Rated(3, 5, 1, "input_includes_cache") EXCEPT !.cacheCreation = 2]
CachedPrice == [Rated(3, 0, 0, "") EXCEPT !.cached = 2, !.cacheCreation = 5]
ImagePrice == [ZeroPrice EXCEPT !.perImage = 7, !.billing = "per_image"]
Default == Rated(2, 1, 0, "input_excludes_cache")
OverInput(rate) == [ZeroPrice EXCEPT !.input = rate]

Tiers ==
  <<[kind |-> "context", threshold |-> 4, services |-> {}, price |-> OverInput(6)],
    [kind |-> "", threshold |-> -1, services |-> {}, price |-> ZeroPrice],
    [kind |-> "service", threshold |-> 0, services |-> {"priority"},
     price |-> OverInput(7)],
    [kind |-> "context", threshold |-> 8, services |-> {}, price |-> OverInput(9)]>>
BadTiers ==
  <<[kind |-> "context", threshold |-> 0, services |-> {}, price |-> OverInput(6)]>>

SmallPrices == {TokenPrice, CachedPrice, ImagePrice}
SmallPriceTiers == {Tiers[i] : i \in DOMAIN Tiers} \cup {BadTiers[i] : i \in DOMAIN BadTiers}

Rule(kind, covers, priority, enabled, price, tiers) ==
  [kind |-> kind, covers |-> covers, priority |-> priority, enabled |-> enabled,
   price |-> price, tiers |-> tiers]
All == {gpt, opus}
EmptyTable == [id \in RuleIds |-> None]
TokenTable ==
  [id \in RuleIds |->
     IF id = 1 THEN Rule("pattern", All, 1, TRUE, CachedPrice, <<>>)
     ELSE Rule("exact", {gpt}, 2, TRUE, TokenPrice, NormalizeTiers(Tiers))]
GuessedTable ==
  [id \in RuleIds |->
     IF id = 1 THEN Rule("pattern", All, 1, TRUE, CachedPrice, NormalizeTiers(Tiers))
     ELSE None]

SmallPuts ==
  {Rule("exact", {gpt}, 2, None, ImagePrice, None),
   Rule("exact", {gpt}, 2, TRUE, TokenPrice, Tiers),
   Rule("pattern", {opus}, 3, FALSE, CachedPrice, None),
   Rule("pattern", {opus}, 1, TRUE, CachedPrice, BadTiers)}

Usage(input, output, cached, creation) ==
  [NoUsage EXCEPT !.input = input, !.output = output, !.cached = cached,
                  !.cacheCreation = creation]
SmallUsages ==
  {Usage(5, 3, 2, 1), Usage(1, 0, 3, 0), Usage(8, 1, 0, 0), Usage(0, 0, 4, 1),
   Usage(2, 60, 0, 0), [Usage(3, 0, 2, 0) EXCEPT !.cacheRead = 1],
   [Usage(0, 2, 0, 0) EXCEPT !.images = 1], Usage(-1, 4, 0, 0)}
SmallBodies ==
  {[size |-> 3, limit |-> 0, images |-> 0, service |-> ""],
   [size |-> 9, limit |-> 2, images |-> 5, service |-> "priority"],
   [size |-> 2, limit |-> 12, images |-> 2, service |-> "default"]}

SmallTables == {EmptyTable, TokenTable, GuessedTable}
None0 == [policy |-> "default", callers |-> {}, files |-> {},
          requests |-> {}, tables |-> {TokenTable},
          changes |-> 0, configures |-> 0, edits |-> 0, faults |-> 0, late |-> 0,
          directories |-> {{}}]

(* Two administrators beside an operator; one with failures and restarts; one  *)
(* who changes rules twice, with failures; requests whose rules change; cards  *)
(* that guess at the accounting; the policies for unknown models.              *)
SmallBounds ==
  {[None0 EXCEPT !.callers = {a1, a2}, !.files = {f1}, !.changes = 2, !.edits = 1,
                 !.directories = {{opus}}],
   [None0 EXCEPT !.callers = {a1}, !.files = {f1, f2}, !.changes = 1,
                 !.configures = 1, !.edits = 1, !.faults = 1],
   [None0 EXCEPT !.callers = {a1}, !.files = {f2}, !.changes = 2, !.faults = 1],
   [None0 EXCEPT !.callers = {a1}, !.requests = {q1}, !.changes = 1, !.late = 1],
   [None0 EXCEPT !.callers = {a1}, !.requests = {q1}, !.late = 1,
                 !.tables = {EmptyTable, GuessedTable}],
   [None0 EXCEPT !.policy = "allow", !.callers = {a1}, !.requests = {q1},
                 !.changes = 1, !.late = 1, !.tables = {EmptyTable}],
   [None0 EXCEPT !.policy = "deny", !.callers = {a1}, !.requests = {q1},
                 !.configures = 1,
                 !.tables = {EmptyTable, TokenTable}]}

================================================================================

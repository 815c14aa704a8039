---------------------------- MODULE ModelDirectory ----------------------------
(* The table of pricing rules and what follows from it: which models are       *)
(* disabled, kept out of the public directory and of the auth files            *)
(* (internal/service/models.go, excluded_models.go, internal/plugin/           *)
(* host_models.go), and what requests are held for and charged                 *)
(* (internal/service/reserve.go), with the arithmetic of Pricing.              *)
EXTENDS Pricing, FiniteSets

CONSTANTS
  Models,
  Claude,        \* the models whose name says that they are Anthropic's
  RuleIds,       \* numbers, in the order of the ids
  Files,         \* auth files of the host
  Offers,        \* the models that an auth of a file serves
  Callers,       \* management handlers and configures
  Requests,
  Prices, PriceTiers, \* of rules
  Puts,          \* what an administrator may put, see PutPricing
  Tables,        \* pricing rules to begin with
  DefaultPrice,  \* pricing.default
  Bodies,        \* bodies of requests, with the service tier they ask for
  Usages,        \* usage that is reported
  Services,      \* service tiers that are reported
  Bounds,        \* how far behaviours go: a behaviour keeps to one of these
  None

ASSUME ModelAssumption == Claude \subseteq Models /\ Offers \in [Files -> SUBSET Models]
(* Service tiers go by the names that NormalizeServiceTier gives them, but for *)
(* the one that stands for none.                                               *)
Normal(service) == NormalizeServiceTier(service) = service
ASSUME ServiceAssumption ==
  Services \subseteq STRING /\ \A s \in Services : s = "default" \/ Normal(s)
ASSUME RequestAssumption ==
  /\ Bodies \subseteq [size : Nat, limit : Int64, images : Int64, service : Services]
  /\ Usages \subseteq UsageRecords
  /\ DefaultPrice \in PriceRecords

ASSUME RuleAssumption ==
  /\ RuleIds \subseteq Nat /\ Prices \subseteq PriceRecords
  /\ PriceTiers \subseteq [kind : {"", "context", "service"}, threshold : Int64,
                            services : SUBSET STRING, price : PriceRecords]
  /\ \A tier \in PriceTiers : \A s \in tier.services : Normal(s) /\ s # ""
TierLists == Seq(PriceTiers)

(* Rows of pricing_rules: the models that a pattern matches stand for it.      *)
Kinds == {"exact", "pattern"}
Rows == [kind : Kinds, covers : SUBSET Models, priority : Int64, enabled : BOOLEAN,
         price : Prices, tiers : TierLists]
ASSUME PutAssumption ==
  Puts \subseteq [kind : Kinds, covers : SUBSET Models, priority : Int64,
                 enabled : BOOLEAN \cup {None}, price : Prices,
                 tiers : TierLists \cup {None}]
ASSUME TableAssumption == Tables \subseteq [RuleIds -> Rows \cup {None}]
(* What an auth file excludes.                                                 *)
ExcludedLists ==
  [excluded : SUBSET Models, alternate : SUBSET Models, managed : SUBSET Models]
ASSUME NoneAssumption ==
  /\ None \notin RuleIds /\ None \notin Files
  /\ None \notin BOOLEAN /\ None \notin TierLists /\ None \notin Rows
  /\ None \notin [RuleIds -> Rows \cup {None}] /\ None \notin ExcludedLists
(* policy: pricing.unknown_policy.                                             *)
ASSUME BoundAssumption ==
  Bounds \subseteq [policy : {"deny", "allow", "default"}, callers : SUBSET Callers,
                   files : SUBSET Files, requests : SUBSET Requests,
                   tables : SUBSET Tables, changes : Nat, configures : Nat, edits : Nat,
                   faults : Nat, late : Nat, directories : SUBSET SUBSET Models]

VARIABLES
  rules,            \* pricing_rules
  lastDirectoryIDs, \* of the service: the models of the last listing
  directory,        \* the last listing a client got
  files,            \* the host: what auth files exclude
  pc,               \* where a caller is in putPricing or RefreshModelDirectory
  work,             \* what a caller has read
  requests,         \* requests and their rows in usage_ledger
  bound,            \* the bounds that this behaviour keeps to
  used,             \* how much of them it has used
  operator,         \* what operators have excluded by hand
  everDisabled,     \* models that some refresh found disabled
  raced,            \* edits of a file between the last read and the save
  quiet,            \* refreshes with no other and no edit beside them
  clean             \* the rules are as they were at the last quiet refresh

tableVars == <<rules, requests>>
hostVars == <<files, operator, raced>>
jobVars == <<pc, work, quiet, everDisabled>>
listVars == <<lastDirectoryIDs, directory>>
auxVars == <<bound, used>>
vars == <<tableVars, hostVars, jobVars, listVars, auxVars, clean>>

(* Which rule applies to a model: a rule covers the models that its pattern    *)
(* matches, and disabled rules take part.                                      *)
Matching(table, model) ==
  {id \in RuleIds : table[id] # None /\ model \in table[id].covers}
Before(table, i, j) ==
  \/ table[i].priority > table[j].priority
  \/ table[i].priority = table[j].priority /\ i <= j
Resolve(table, model) ==
  IF Matching(table, model) = {} THEN None
  ELSE CHOOSE i \in Matching(table, model) :
         \A j \in Matching(table, model) : Before(table, i, j)

DisabledByRules(table, model) ==
  Resolve(table, model) # None /\ ~table[Resolve(table, model)].enabled

ValidRule(row) == row.covers # {} /\ ValidPrice(row.price) /\ ValidTiers(row.tiers)
ExactPatterns(table) ==
  UNION {table[id].covers :
           id \in {i \in RuleIds :
                     table[i] # None /\ ~table[i].enabled /\ table[i].kind = "exact"}}
(* A disabled exact rule hides its model even where another rule wins.         *)
HiddenModels(table, catalog) ==
  {m \in catalog : DisabledByRules(table, m)} \cup ExactPatterns(table)

(* An auth file lists what it excludes under one of two keys, the second of    *)
(* which counts while the first is empty, and what of this the plugin manages. *)
Excluded(file) == IF file.excluded # {} THEN file.excluded ELSE file.alternate

(* Mutant of UserExcluded: what the plugin has put there stays for good. *)
KeepsManaged(file) == Excluded(file)

UserExcluded(file) == Excluded(file) \ file.managed
Unchanged(file, disabled) ==
  /\ Excluded(file) = UserExcluded(file) \cup disabled
  /\ file.managed = disabled
(* Mutant of Merged: what is in the list is the plugin's. *)
OnlyDisabled(file, disabled) ==
  [excluded |-> disabled, alternate |-> {}, managed |-> disabled]

Merged(file, disabled) ==
  [excluded |-> UserExcluded(file) \cup disabled, alternate |-> {}, managed |-> disabled]
MergeAuthExcludedModels(file, disabled) ==
  IF Unchanged(file, disabled) THEN file ELSE Merged(file, disabled)

(* The models that the host lists, of all auths that it may use.               *)
HostCatalog == UNION {Offers[f] \ Excluded(files[f]) : f \in bound.files}

Stages == {"idle", "put", "rules", "ids", "list", "load", "reload", "save"}
Active(c) == pc[c] \notin {"idle", "put"}
NoWork == [id |-> None, put |-> None, rules |-> None, disabled |-> {}, todo |-> {},
           file |-> None, next |-> None, failed |-> FALSE]
NoRequest == [stage |-> "new", model |-> None]

Work == [id : RuleIds \cup {None}, put : Rows \cup {None},
         rules : [RuleIds -> Rows \cup {None}] \cup {None}, disabled : SUBSET Models,
         todo : SUBSET Files, file : Files \cup {None},
         next : ExcludedLists \cup {None}, failed : BOOLEAN]
Spent == [changes : Nat, configures : Nat, edits : Nat, faults : Nat]

Cards == [rule : RuleIds \cup {None}, price : PriceRecords, tiers : TierLists]
ServiceNames == Services \cup {""}
LedgerRows ==
  [usage : UsageRecords, cost : Int, service : ServiceNames, fallback : BOOLEAN,
   card : Cards, claude : BOOLEAN, whole : BOOLEAN, late : Nat]
RequestRecords ==
  [stage : {"new", "lost", "refused", "released"}, model : Models \cup {None}]
  \cup [stage : {"admitted"}, model : Models, card : Cards, body : Bodies, hold : Int]
  \cup [stage : {"booked"}, model : Models, rule : RuleIds \cup {None},
        row : LedgerRows]

TypeOK ==
  /\ rules \in [RuleIds -> Rows \cup {None}]
  /\ requests \in [Requests -> RequestRecords]
  /\ lastDirectoryIDs \in SUBSET Models /\ directory \in SUBSET Models
  /\ files \in [Files -> ExcludedLists]
  /\ pc \in [Callers -> Stages]
  /\ work \in [Callers -> Work]
  /\ \A c \in Callers :
       /\ pc[c] = "put" => work[c].id # None /\ work[c].put # None
       /\ pc[c] = "ids" => work[c].rules # None
       /\ pc[c] \in {"reload", "save"} => work[c].file # None
       /\ pc[c] = "save" => work[c].next # None
  /\ bound \in Bounds /\ used \in Spent
  /\ operator \in [Files -> SUBSET Models] /\ raced \in [Files -> SUBSET Models]
  /\ everDisabled \in SUBSET Models
  /\ quiet \in [Callers -> BOOLEAN] /\ clean \in BOOLEAN

Init ==
  /\ bound \in Bounds
  /\ rules \in bound.tables
  /\ lastDirectoryIDs = {} /\ directory = {}
  /\ \E listed \in [Files -> bound.directories] :
       /\ files = [f \in Files |->
                     [excluded |-> {}, alternate |-> listed[f], managed |-> {}]]
       /\ operator = listed
  /\ pc = [c \in Callers |-> "idle"]
  /\ work = [c \in Callers |-> NoWork]
  /\ requests = [q \in Requests |-> NoRequest]
  /\ used = [changes |-> 0, configures |-> 0, edits |-> 0, faults |-> 0]
  /\ everDisabled = {}
  /\ raced = [f \in Files |-> {}]
  /\ quiet = [c \in Callers |-> FALSE]
  /\ clean = FALSE

Spend(what) ==
  /\ used[what] < bound[what]
  /\ used' = [used EXCEPT ![what] = @ + 1]
  /\ UNCHANGED bound

--------------------------------------------------------------------------------
(* Administration of the rules.  Each change is followed by a refresh of the   *)
(* directory, and nothing keeps those of two callers apart.                    *)

(* A caller begins RefreshModelDirectory.                                      *)
BeginRefresh(c) ==
  /\ pc' = [pc EXCEPT ![c] = "rules"]
  /\ work' = [work EXCEPT ![c] = NoWork]
  /\ quiet' = [d \in Callers |-> d = c /\ \A e \in Callers : ~Active(e)]
  /\ UNCHANGED everDisabled

ChangeRules(c, table) ==
  /\ rules' = table
  /\ clean' = FALSE
  /\ BeginRefresh(c)
  /\ UNCHANGED <<requests, hostVars, listVars, auxVars>>

(* putPricing reads the rule: what the request leaves out, whether the rule is *)
(* enabled and its tiers, stays as it is, or as it was then.                   *)
Completed(put, old) ==
  [put EXCEPT !.enabled = IF @ # None THEN @ ELSE IF old = None THEN TRUE ELSE old.enabled,
              !.tiers = IF @ # None THEN @ ELSE IF old = None THEN <<>> ELSE old.tiers]

PutPricing(c, id, put) ==
  /\ c \in bound.callers /\ pc[c] = "idle"
  /\ Spend("changes")
  /\ pc' = [pc EXCEPT ![c] = "put"]
  /\ work' = [work EXCEPT ![c] =
                [NoWork EXCEPT !.id = id, !.put = Completed(put, rules[id])]]
  /\ UNCHANGED <<tableVars, hostVars, listVars, quiet, everDisabled, clean>>

PutPricingRule(c) ==
  /\ pc[c] = "put"
  /\ IF ValidRule(work[c].put)
       THEN ChangeRules(c, [rules EXCEPT ![work[c].id] =
              [work[c].put EXCEPT !.tiers = NormalizeTiers(work[c].put.tiers)]])
       ELSE /\ pc' = [pc EXCEPT ![c] = "idle"]
            /\ work' = [work EXCEPT ![c] = NoWork]
            /\ UNCHANGED <<tableVars, hostVars, listVars, auxVars, quiet,
                           everDisabled, clean>>

SetPricingEnabled(c, id, enabled) ==
  /\ c \in bound.callers /\ pc[c] = "idle"
  /\ rules[id] # None
  /\ Spend("changes")
  /\ rules' = [rules EXCEPT ![id].enabled = enabled]
  /\ clean' = FALSE
  /\ BeginRefresh(c)
  /\ UNCHANGED <<requests, hostVars, listVars>>

DeletePricing(c, id) ==
  /\ c \in bound.callers /\ pc[c] = "idle"
  /\ rules[id] # None
  /\ Spend("changes")
  /\ rules' = [rules EXCEPT ![id] = None]
  /\ clean' = FALSE
  /\ BeginRefresh(c)
  /\ UNCHANGED <<requests, hostVars, listVars>>

(* The host configures the plugin again; the service that it replaces hands on *)
(* the models that it remembers.                                               *)
Reconfigure(c) ==
  /\ c \in bound.callers /\ pc[c] = "idle"
  /\ Spend("configures")
  /\ BeginRefresh(c)
  /\ UNCHANGED <<tableVars, hostVars, listVars, clean>>

(* The process ends wherever it is and another begins, which remembers no      *)
(* models.  Plans of requests are gone with it.                                *)
Restart(c) ==
  /\ c \in bound.callers
  /\ Spend("configures")
  /\ pc' = [d \in Callers |-> IF d = c THEN "rules" ELSE "idle"]
  /\ work' = [d \in Callers |-> NoWork]
  /\ quiet' = [d \in Callers |-> d = c]
  /\ lastDirectoryIDs' = {}
  /\ requests' = [q \in Requests |->
                    IF requests[q].stage = "admitted"
                      THEN [NoRequest EXCEPT !.stage = "lost"] ELSE requests[q]]
  /\ UNCHANGED <<rules, hostVars, directory, everDisabled, clean>>

--------------------------------------------------------------------------------
(* RefreshModelDirectory, SyncExcludedModels and, file by file,                *)
(* syncAuthExcludedModels.                                                     *)

Stay == UNCHANGED <<tableVars, listVars, clean>>

ListRules(c) ==
  /\ pc[c] = "rules"
  /\ pc' = [pc EXCEPT ![c] = "ids"]
  /\ work' = [work EXCEPT ![c].rules = rules]
  /\ Stay /\ UNCHANGED <<hostVars, auxVars, quiet, everDisabled>>

DisabledModels(c) ==
  /\ pc[c] = "ids"
  /\ LET disabled == HiddenModels(work[c].rules, lastDirectoryIDs)
     IN /\ work' = [work EXCEPT ![c].disabled = disabled, ![c].rules = None]
        /\ everDisabled' = everDisabled \cup disabled
  /\ pc' = [pc EXCEPT ![c] = "list"]
  /\ Stay /\ UNCHANGED <<hostVars, auxVars, quiet>>

ListAuthFiles(c) ==
  /\ pc[c] = "list"
  /\ pc' = [pc EXCEPT ![c] = "load"]
  /\ work' = [work EXCEPT ![c].todo = bound.files]
  /\ Stay /\ UNCHANGED <<hostVars, auxVars, quiet, everDisabled>>

LoadFile(c, f) ==
  /\ pc[c] = "load" /\ f \in work[c].todo
  /\ IF Unchanged(files[f], work[c].disabled)
       THEN /\ work' = [work EXCEPT ![c].todo = @ \ {f}]
            /\ UNCHANGED pc
       ELSE /\ work' = [work EXCEPT ![c].file = f]
            /\ pc' = [pc EXCEPT ![c] = "reload"]
  /\ Stay /\ UNCHANGED <<hostVars, auxVars, quiet, everDisabled>>

(* Mutant of NextFile: back to the second read. *)
SameFile(c, failed) ==
  /\ pc' = [pc EXCEPT ![c] = "reload"]
  /\ work' = [work EXCEPT ![c].todo = @ \ {work[c].file}, ![c].file = None,
                          ![c].next = None, ![c].failed = @ \/ failed]

(* A file is done, whether or not that went well; the others are next.         *)
NextFile(c, failed) ==
  /\ pc' = [pc EXCEPT ![c] = "load"]
  /\ work' = [work EXCEPT ![c].todo = @ \ {work[c].file}, ![c].file = None,
                          ![c].next = None, ![c].failed = @ \/ failed]

(* The file is read again and merged again should it have changed.             *)
ReloadFile(c) ==
  /\ pc[c] = "reload"
  /\ IF Unchanged(files[work[c].file], work[c].disabled)
       THEN NextFile(c, FALSE)
       ELSE /\ work' = [work EXCEPT ![c].next =
                 MergeAuthExcludedModels(files[work[c].file], work[c].disabled)]
            /\ pc' = [pc EXCEPT ![c] = "save"]
  /\ Stay /\ UNCHANGED <<hostVars, auxVars, quiet, everDisabled>>

SaveFile(c) ==
  /\ pc[c] = "save"
  /\ files' = [files EXCEPT ![work[c].file] = work[c].next]
  /\ NextFile(c, FALSE)
  /\ Stay /\ UNCHANGED <<operator, raced, auxVars, quiet, everDisabled>>

(* Reading the rules or listing the files fails, which ends the refresh; or a  *)
(* call for a file, which is left alone.                                       *)
FailList(c) ==
  /\ pc[c] \in {"rules", "list"}
  /\ Spend("faults")
  /\ pc' = [pc EXCEPT ![c] = "idle"]
  /\ work' = [work EXCEPT ![c] = NoWork]
  /\ Stay /\ UNCHANGED <<hostVars, quiet, everDisabled>>

FailFile(c, f) ==
  /\ \/ pc[c] = "load" /\ f \in work[c].todo
     \/ pc[c] \in {"reload", "save"} /\ f = work[c].file
  /\ Spend("faults")
  /\ pc' = [pc EXCEPT ![c] = "load"]
  /\ work' = [work EXCEPT ![c].todo = @ \ {f}, ![c].file = None, ![c].next = None,
                          ![c].failed = TRUE]
  /\ Stay /\ UNCHANGED <<hostVars, quiet, everDisabled>>

FinishRefresh(c) ==
  /\ pc[c] = "load" /\ work[c].todo = {}
  /\ pc' = [pc EXCEPT ![c] = "idle"]
  /\ work' = [work EXCEPT ![c] = NoWork]
  /\ clean' = (clean \/ (quiet[c] /\ ~work[c].failed))
  /\ UNCHANGED <<tableVars, listVars, hostVars, auxVars, quiet, everDisabled>>

--------------------------------------------------------------------------------
(* The host and the clients.                                                   *)

(* An operator excludes a model in a file by hand, or no longer does, in the   *)
(* list that counts.                                                           *)
Edited(file, list) ==
  IF file.excluded # {} \/ file.alternate = {}
    THEN [file EXCEPT !.excluded = list]
    ELSE [file EXCEPT !.alternate = list]

Saving(f) == \E c \in Callers : pc[c] = "save" /\ work[c].file = f

EditFile(f, m) ==
  /\ f \in bound.files
  /\ Spend("edits")
  /\ IF m \in Excluded(files[f])
       THEN /\ files' = [files EXCEPT ![f] = Edited(@, Excluded(@) \ {m})]
            /\ operator' = [operator EXCEPT ![f] = @ \ {m}]
       ELSE /\ files' = [files EXCEPT ![f] = Edited(@, Excluded(@) \cup {m})]
            /\ operator' = [operator EXCEPT ![f] = @ \cup {m}]
  /\ raced' = IF Saving(f) THEN [raced EXCEPT ![f] = @ \cup {m}] ELSE raced
  /\ quiet' = [c \in Callers |-> FALSE]
  /\ clean' = (clean /\ \A c \in Callers : ~Active(c))
  /\ UNCHANGED <<tableVars, listVars, pc, work, everDisabled>>

(* A client lists the models: the plugin remembers what the host lists and     *)
(* takes the disabled ones out of the answer.                                  *)
FilterModelDirectory ==
  /\ lastDirectoryIDs' = HostCatalog
  /\ directory' = {m \in HostCatalog : ~DisabledByRules(rules, m)}
  /\ UNCHANGED <<tableVars, hostVars, jobVars, auxVars, clean>>

(* The rules cannot be read after that: the client gets an error.              *)
FailFilter ==
  /\ Spend("faults")
  /\ lastDirectoryIDs' = HostCatalog
  /\ UNCHANGED <<tableVars, hostVars, jobVars, directory, clean>>

--------------------------------------------------------------------------------
(* Requests: what they are held for and what their rows in usage_ledger cost.  *)

CardOf(table, id) ==
  [rule |-> id, price |-> table[id].price, tiers |-> table[id].tiers]
UnknownCard ==
  [rule |-> None, tiers |-> <<>>,
   price |-> IF bound.policy = "default" THEN DefaultPrice ELSE ZeroPrice]

(* The rule of an entry as it is now, or else the one that applies now.        *)
CardNow(table, rule, model) ==
  IF rule # None /\ table[rule] # None THEN CardOf(table, rule)
  ELSE IF Resolve(table, model) # None THEN CardOf(table, Resolve(table, model))
  ELSE UnknownCard

CostUnder(card, usage, service, claude) ==
  CostFor(usage, SelectPrice(card.price, card.tiers, usage, service), claude)

EstimateOf(card, body) ==
  IF IsPerImage(card.price)
    THEN [NoUsage EXCEPT !.images = ImageCount(body)]
    ELSE EstimateTokens(body)
(* A hold is no guess at the size of the context.                              *)
Hold(card, model, body) ==
  CostUnder([card EXCEPT !.tiers = ServiceTiers(@)], EstimateOf(card, body),
            body.service, model \in Claude)

(* An unknown model that is allowed is not estimated: its hold is zero.        *)
Unpriced(card) == card.rule = None /\ bound.policy = "allow"

Denied(card, model, body) ==
  \/ DisabledByRules(rules, model)
  \/ card.rule = None /\ bound.policy = "deny"
  \/ /\ ~Unpriced(card) /\ ~IsPerImage(card.price)
     /\ ~ValidEstimate(EstimateTokens(body))
  \/ Hold(card, model, body) = Refused

(* BuildReservePlan.  An unknown model that is allowed has a price of zero.    *)
BuildReservePlan(q, model, body) ==
  /\ q \in bound.requests /\ requests[q].stage = "new"
  /\ LET card == CardNow(rules, None, model)
     IN requests' = [requests EXCEPT ![q] =
          IF Denied(card, model, body)
            THEN [stage |-> "refused", model |-> model]
            ELSE [stage |-> "admitted", model |-> model, card |-> card, body |-> body,
                  hold |-> Hold(card, model, body)]]
  /\ UNCHANGED <<rules, hostVars, jobVars, listVars, auxVars, clean>>

(* A row: its usage and cost, the service tier, whether it stands for usage    *)
(* that is missing, and (as history) the card that its cost is from, whose     *)
(* input that takes to be, whether tier and usage are still those, and how     *)
(* often the host has reported it.                                             *)
LedgerRow(usage, cost, service, fallback, card, claude) ==
  [usage |-> usage, cost |-> cost, service |-> service, fallback |-> fallback,
   card |-> card, claude |-> claude, whole |-> TRUE, late |-> 0]

Book(q, usage, service) ==
  LET card == requests[q].card
      claude == requests[q].model \in Claude
      cost == CostUnder(card, usage, service, claude)
  IN requests' = [requests EXCEPT ![q] =
       IF cost = Refused
         THEN [stage |-> "released", model |-> requests[q].model]
         ELSE [stage |-> "booked", model |-> requests[q].model, rule |-> card.rule,
               row |-> LedgerRow(usage, cost, service, FALSE, card, claude)]]

(* Usage was found: the price is the one of the plan, whatever became of its   *)
(* rule.                                                                       *)
SettleResolved(q, usage, service) ==
  /\ requests[q].stage = "admitted"
  /\ Book(q, IF IsPerImage(requests[q].card.price) /\ usage.images <= 0
               THEN [usage EXCEPT !.images = ImageCount(requests[q].body)]
               ELSE usage, service)
  /\ UNCHANGED <<rules, hostVars, jobVars, listVars, auxVars, clean>>

(* No usage was found: images are charged as planned, tokens not at all.       *)
SettleMissing(q, service) ==
  /\ requests[q].stage = "admitted"
  /\ IF IsPerImage(requests[q].card.price)
       THEN Book(q, [NoUsage EXCEPT !.images = ImageCount(requests[q].body)], service)
       ELSE requests' = [requests EXCEPT ![q] =
              [stage |-> "booked", model |-> requests[q].model,
               rule |-> requests[q].card.rule,
               row |-> LedgerRow(NoUsage, 0, service, TRUE, requests[q].card,
                           requests[q].model \in Claude)]]
  /\ UNCHANGED <<rules, hostVars, jobVars, listVars, auxVars, clean>>

(* The service tier that a report of the host is priced by.                    *)
ReportedTier(row, service) ==
  IF service # "" THEN service ELSE IF row.fallback THEN "" ELSE row.service

(* What a report makes of a row.  The tier is written first and stays when the *)
(* cost cannot be computed; where the card is now one per image, the usage     *)
(* goes in and the cost stays.                                                 *)
Reported(row, card, usage, service, claude) ==
  IF IsPerImage(card.price)
    THEN [row EXCEPT !.usage = [usage EXCEPT !.images = row.usage.images],
                     !.service = service, !.fallback = FALSE, !.late = @ + 1,
                     !.whole = @ /\ IsPerImage(row.card.price)]
  ELSE IF CostUnder(card, usage, service, claude) = Refused
    THEN [row EXCEPT !.service = service, !.late = @ + 1,
                     !.whole = @ /\ service = row.service]
  ELSE [LedgerRow(usage, CostUnder(card, usage, service, claude), service, FALSE, card,
            claude) EXCEPT !.late = row.late + 1]

ApplyHostUsageRecord(q, usage, service, anthropic) ==
  /\ requests[q].stage = "booked" /\ requests[q].row.late < bound.late
  /\ HasTokens(usage)
  /\ requests' = [requests EXCEPT ![q].row =
       Reported(@, CardNow(rules, requests[q].rule, requests[q].model),
                [usage EXCEPT !.images = 0], ReportedTier(@, service),
                requests[q].model \in Claude \/ anthropic)]
  /\ UNCHANGED <<rules, hostVars, jobVars, listVars, auxVars, clean>>

Next ==
  \/ \E c \in Callers :
       \/ \E id \in RuleIds, put \in Puts : PutPricing(c, id, put)
       \/ PutPricingRule(c)
       \/ \E id \in RuleIds, enabled \in BOOLEAN : SetPricingEnabled(c, id, enabled)
       \/ \E id \in RuleIds : DeletePricing(c, id)
       \/ Reconfigure(c)
       \/ Restart(c)
       \/ ListRules(c)
       \/ DisabledModels(c)
       \/ ListAuthFiles(c)
       \/ \E f \in Files : LoadFile(c, f)
       \/ ReloadFile(c)
       \/ SaveFile(c)
       \/ FailList(c)
       \/ \E f \in Files : FailFile(c, f)
       \/ FinishRefresh(c)
  \/ \E f \in Files, m \in Models : EditFile(f, m)
  \/ FilterModelDirectory
  \/ FailFilter
  \/ \E q \in Requests :
       \/ \E m \in Models, body \in Bodies : BuildReservePlan(q, m, body)
       \/ \E usage \in Usages, service \in Services : SettleResolved(q, usage, service)
       \/ \E service \in Services : SettleMissing(q, service)
       \/ \E usage \in Usages, service \in Services, anthropic \in BOOLEAN :
            ApplyHostUsageRecord(q, usage, service, anthropic)

Spec == Init /\ [][Next]_vars

--------------------------------------------------------------------------------
(* Properties.                                                                 *)

(* However many refreshes run beside each other, and whatever of them fails or *)
(* is cut off: what an operator has excluded by hand in an auth file stays     *)
(* excluded there, as long as no refresh has found the model disabled (then    *)
(* the plugin counts it as its own) and the edit did not come between the last *)
(* read of the file and the save (MergeAuthExcludedModels and the second read  *)
(* of syncAuthExcludedModels).                                                 *)
UserExclusionsSurvive ==
  \A f \in Files :
    operator[f] \ (everDisabled \cup raced[f]) \subseteq Excluded(files[f])

(* A listing never shows a model whose winning rule is disabled; and once a    *)
(* refresh that met no failure and no other one has followed the last change   *)
(* of a rule, it shows every model that some auth serves and nobody wants      *)
(* hidden, also those that were disabled before (RefreshModelDirectory and     *)
(* FilterModelDirectory together).                                             *)
Wins(table, id, model) ==
  /\ table[id] # None /\ model \in table[id].covers
  /\ \A other \in RuleIds \ {id} :
       table[other] # None /\ model \in table[other].covers =>
         \/ table[id].priority > table[other].priority
         \/ table[id].priority = table[other].priority /\ id < other
Hidden(table, m) == \E id \in RuleIds : Wins(table, id, m) /\ ~table[id].enabled
Wanted(m) ==
  /\ \E f \in bound.files : m \in Offers[f] \ (operator[f] \cup raced[f])
  /\ ~Hidden(rules, m)
  /\ m \notin ExactPatterns(rules)
DirectoryReflectsRules ==
  [][FilterModelDirectory =>
       /\ \A m \in directory' : ~Hidden(rules, m)
       /\ clean => \A m \in Models : Wanted(m) => m \in directory']_vars

(* Every hold and every row has the cost of its usage under one rate card: no  *)
(* token is charged twice or not at all, what costs anything is never free,    *)
(* rounding adds less than one micro-USD per class, and the tier is the one    *)
(* that the usage reached (money.Cost, SelectPrice, applyHostUsage).           *)
Prompt(usage, mode) ==
  LET cache == CacheReadOf(usage) + usage.cacheCreation
  IN IF mode = "input_excludes_cache" THEN usage.input + cache
     ELSE IF usage.input = 0 THEN cache ELSE usage.input
Charged(usage, price, mode) ==
  LET cache == CacheReadOf(usage) + usage.cacheCreation
  IN <<price.input * (IF mode = "input_excludes_cache" THEN usage.input
                      ELSE IF usage.input > cache THEN usage.input - cache ELSE 0),
       price.output * usage.output,
       (IF price.cacheRead = 0 THEN price.cached ELSE price.cacheRead)
         * CacheReadOf(usage),
       price.cacheCreation * usage.cacheCreation>>
Covers(cost, charged) ==
  LET exact == charged[1] + charged[2] + charged[3] + charged[4]
      part(i) == IF charged[i] > 0 THEN 1 ELSE 0
      classes == part(1) + part(2) + part(3) + part(4)
  IN /\ cost * TokensPerMTok >= exact
     /\ IF exact = 0 THEN cost = 0
        ELSE cost * TokensPerMTok < exact + classes * TokensPerMTok
Reaches(tier, usage, service, mode) ==
  \/ /\ tier.kind = "service"
     /\ service \notin {"", "default"} /\ service \in tier.services
  \/ tier.kind = "context" /\ Prompt(usage, mode) >= tier.threshold
Outranks(tiers, i, j) ==
  IF tiers[i].kind = tiers[j].kind
    THEN IF tiers[i].kind = "service" THEN i < j
         ELSE tiers[i].threshold > tiers[j].threshold
    ELSE tiers[i].kind = "service"
FairCost(cost, usage, card, service, claude) ==
  LET mode == ResolveAccountingMode(card.price.mode, claude)
      reached == {i \in DOMAIN card.tiers : Reaches(card.tiers[i], usage, service, mode)}
      best == {i \in reached : \A j \in reached : ~Outranks(card.tiers, j, i)}
  IN IF IsPerImage(card.price)
       THEN cost = usage.images * card.price.perImage
       ELSE IF best = {} THEN Covers(cost, Charged(usage, card.price, mode))
       ELSE \E i \in best :
              Covers(cost, Charged(usage, OverlayRates(card.price, card.tiers[i].price),
                                   mode))
(* The tier of a card that leaves Anthropic's accounting to be guessed may be  *)
(* missed: ContextTokens takes the input to include the cache.                 *)
ModeIsKnown(card, claude) ==
  \/ card.price.mode # "" \/ ~claude
  \/ \A i \in DOMAIN card.tiers : card.tiers[i].kind # "context"
Fair(cost, usage, card, service, claude) ==
  ModeIsKnown(card, claude) => FairCost(cost, usage, card, service, claude)
CostIsFair ==
  \A q \in Requests :
    /\ requests[q].stage = "admitted" =>
         Fair(requests[q].hold, EstimateOf(requests[q].card, requests[q].body),
              [requests[q].card EXCEPT !.tiers = ServiceTiers(@)],
              requests[q].body.service, requests[q].model \in Claude)
    /\ requests[q].stage = "booked" /\ requests[q].row.whole =>
         LET row == requests[q].row
         IN Fair(row.cost, row.usage, row.card, row.service, row.claude)

================================================================================

------------------------------- MODULE Pricing -------------------------------
(* What usage costs (internal/money) and what a request is estimated to use   *)
(* (internal/service/request.go).  Amounts are micro-USD, rates micro-USD per *)
(* TokensPerMTok tokens.  The reasoning rate is left out: nothing is billed by *)
(* it.  Names and texts are members of small sets.                            *)
EXTENDS Integers, Sequences

CONSTANTS
  TokensPerMTok,    \* a million
  MaxInt64,         \* the largest amount or number of tokens
  MaxPriceTiers,    \* maxPriceTiers
  DefaultOutput,    \* limits.default_output_reserve
  MaxTokenEstimate, \* limits.max_token_estimate
  MaxImages         \* the most images that a request is estimated to make

ASSUME ScaleAssumption == TokensPerMTok \in Nat \ {0}
ASSUME WidthAssumption == MaxInt64 \in Nat \ {0}
ASSUME LimitAssumption ==
  /\ MaxPriceTiers \in Nat /\ DefaultOutput \in Nat
  /\ MaxTokenEstimate \in 1 .. MaxInt64 /\ MaxImages \in 1 .. MaxInt64

Refused == -1     \* an error in place of an amount

AccountingModes == {"input_includes_cache", "input_excludes_cache"}
BillingModes == {"token", "per_image"}

Rates == {"input", "output", "cached", "cacheRead", "cacheCreation"}
ZeroPrice ==
  [input |-> 0, output |-> 0, cached |-> 0, cacheRead |-> 0, cacheCreation |-> 0,
   perImage |-> 0, mode |-> "", billing |-> "token"]
NoUsage ==
  [input |-> 0, output |-> 0, cached |-> 0, cacheRead |-> 0, cacheCreation |-> 0,
   images |-> 0]

(* Rate cards and usage as they come from requests, tables and upstream, valid *)
(* or not.                                                                     *)
Int64 == (-MaxInt64 - 1) .. MaxInt64
PriceRecords ==
  [input : Int64, output : Int64, cached : Int64, cacheRead : Int64,
   cacheCreation : Int64, perImage : Int64, mode : AccountingModes \cup {""},
   billing : BillingModes]
UsageRecords ==
  [input : Int64, output : Int64, cached : Int64, cacheRead : Int64,
   cacheCreation : Int64, images : Int64]

HasTokens(usage) == \E counter \in DOMAIN usage : usage[counter] > 0
ValidUsage(usage) == \A counter \in DOMAIN usage : usage[counter] >= 0
ValidPrice(price) ==
  /\ \A rate \in Rates \cup {"perImage"} : price[rate] >= 0
  /\ price.mode \in AccountingModes \cup {""}
  /\ price.billing \in BillingModes
IsPerImage(price) == price.billing = "per_image"

--------------------------------------------------------------------------------
(* 64-bit arithmetic.                                                          *)

NonNegative(n) == IF n < 0 THEN 0 ELSE n

SaturatingAdd(left, right) ==
  IF NonNegative(left) > MaxInt64 - NonNegative(right)
    THEN MaxInt64
    ELSE NonNegative(left) + NonNegative(right)

(* a * b / TokensPerMTok rounded up, in two parts that are checked for         *)
(* overflow each.                                                              *)
Whole(a, b) == (a \div TokensPerMTok) * b
Fraction(a, b) == (a % TokensPerMTok) * b

(* Mutant of RoundedUp: rounds down. *)
RoundedDown(n) == n \div TokensPerMTok

RoundedUp(n) ==
  n \div TokensPerMTok + (IF n % TokensPerMTok = 0 THEN 0 ELSE 1)
Overflows(a, b) ==
  \/ a \div TokensPerMTok > MaxInt64 \div b
  \/ a % TokensPerMTok > MaxInt64 \div b
  \/ RoundedUp(Fraction(a, b)) > MaxInt64 - Whole(a, b)

MulDivCeil(a, b) ==
  IF a < 0 \/ b < 0 THEN Refused
  ELSE IF a = 0 \/ b = 0 THEN 0
  ELSE IF Overflows(a, b) THEN Refused
  ELSE Whole(a, b) + RoundedUp(Fraction(a, b))

--------------------------------------------------------------------------------
(* Usage and its cost.  claude: whether the model or the provider is           *)
(* Anthropic's, whose input tokens do not include the cached ones.             *)

DefaultAccountingMode(claude) ==
  IF claude THEN "input_excludes_cache" ELSE "input_includes_cache"
ResolveAccountingMode(mode, claude) ==
  IF mode \in AccountingModes THEN mode ELSE DefaultAccountingMode(claude)

CacheReadOf(usage) == IF usage.cacheRead = 0 THEN usage.cached ELSE usage.cacheRead

Billable(usage, mode) ==
  [input |-> IF mode = "input_includes_cache"
               THEN NonNegative(usage.input
                      - SaturatingAdd(CacheReadOf(usage), usage.cacheCreation))
               ELSE usage.input,
   output |-> usage.output,
   cacheRead |-> CacheReadOf(usage),
   cacheCreation |-> usage.cacheCreation]

Total(parts) ==
  IF \/ \E i \in DOMAIN parts : parts[i] = Refused
     \/ parts[1] + parts[2] + parts[3] + parts[4] > MaxInt64
    THEN Refused
    ELSE parts[1] + parts[2] + parts[3] + parts[4]

CostOfTokens(billable, price) ==
  Total(<<MulDivCeil(billable.input, price.input),
          MulDivCeil(billable.output, price.output),
          MulDivCeil(billable.cacheRead,
                     IF price.cacheRead = 0 THEN price.cached ELSE price.cacheRead),
          MulDivCeil(billable.cacheCreation, price.cacheCreation)>>)

AtLeastOne(images) == IF images <= 0 THEN 1 ELSE images
CostPerImage(images, price) ==
  IF price > MaxInt64 \div AtLeastOne(images)
    THEN Refused
    ELSE AtLeastOne(images) * price

Cost(usage, price) ==
  IF ~ValidUsage(usage) \/ ~ValidPrice(price) THEN Refused
  ELSE IF IsPerImage(price) THEN CostPerImage(usage.images, price.perImage)
  ELSE CostOfTokens(Billable(usage, ResolveAccountingMode(price.mode, FALSE)), price)

CostFor(usage, price, claude) ==
  Cost(usage, [price EXCEPT !.mode = ResolveAccountingMode(price.mode, claude)])

--------------------------------------------------------------------------------
(* Price tiers: a sequence of records of kind "context", from a threshold on,  *)
(* and "service", for some service tiers.                                      *)

IsEmptyTier(tier) ==
  tier.kind = "" /\ tier.threshold <= 0 /\ tier.services = {} /\ tier.price = ZeroPrice
ValidTier(tier) ==
  /\ \/ tier.kind = "context" /\ tier.threshold > 0
     \/ tier.kind = "service" /\ tier.services # {}
  /\ ValidPrice(tier.price)
ValidTiers(tiers) ==
  /\ Len(tiers) <= MaxPriceTiers
  /\ \A i \in DOMAIN tiers : IsEmptyTier(tiers[i]) \/ ValidTier(tiers[i])
(* What a sequence has at some of its places, in order.                        *)
At(seq, places) ==
  LET kept[n \in 0 .. Len(seq)] ==
        IF n = 0 THEN <<>>
        ELSE IF n \in places THEN Append(kept[n - 1], seq[n]) ELSE kept[n - 1]
  IN kept[Len(seq)]

NormalizeTiers(tiers) == At(tiers, {i \in DOMAIN tiers : ~IsEmptyTier(tiers[i])})

NormalizeServiceTier(value) ==
  CASE value \in {"default", "auto", "standard", "on-demand", "scale"} -> ""
    [] value = "prio" -> "priority"
    [] OTHER -> value
ServiceMatches(services, service) ==
  /\ NormalizeServiceTier(service) # ""
  /\ \E part \in services : NormalizeServiceTier(part) = NormalizeServiceTier(service)

(* Whether claude's input excludes the cache is not known here unless the      *)
(* price says so.                                                              *)
ContextTokens(usage, mode) ==
  LET cache == SaturatingAdd(CacheReadOf(usage), usage.cacheCreation)
  IN IF ResolveAccountingMode(mode, FALSE) = "input_excludes_cache"
       THEN SaturatingAdd(usage.input, cache)
       ELSE IF usage.input > 0 THEN usage.input ELSE cache

OverlayRates(base, overlay) ==
  [base EXCEPT !.input = IF overlay.input = 0 THEN @ ELSE overlay.input,
               !.output = IF overlay.output = 0 THEN @ ELSE overlay.output,
               !.cached = IF overlay.cached = 0 THEN @ ELSE overlay.cached,
               !.cacheRead = IF overlay.cacheRead = 0 THEN @ ELSE overlay.cacheRead,
               !.cacheCreation =
                  IF overlay.cacheCreation = 0 THEN @ ELSE overlay.cacheCreation]

First(places) == CHOOSE i \in places : \A j \in places : i <= j
ForService(tiers, service) ==
  {i \in DOMAIN tiers : /\ tiers[i].kind = "service"
                        /\ ServiceMatches(tiers[i].services, service)}
ForContext(tiers, tokens) ==
  {i \in DOMAIN tiers : tiers[i].kind = "context" /\ tokens >= tiers[i].threshold}
Highest(tiers, places) ==
  {i \in places : \A j \in places : tiers[j].threshold <= tiers[i].threshold}

SelectPrice(base, tiers, usage, service) ==
  IF IsPerImage(base) THEN base
  ELSE IF ForService(tiers, service) # {}
    THEN OverlayRates(base, tiers[First(ForService(tiers, service))].price)
  ELSE LET reached == ForContext(tiers, ContextTokens(usage, base.mode))
       IN IF reached = {} THEN base
          ELSE OverlayRates(base, tiers[First(Highest(tiers, reached))].price)

ServiceTiers(tiers) == At(tiers, {i \in DOMAIN tiers : tiers[i].kind = "service"})

--------------------------------------------------------------------------------
(* The estimate of a request, of its body only the size in tokens (input), the *)
(* limit it states on the output (0: none) and the images it asks for (0:      *)
(* none).  The floor of one comes after the clamp.                             *)

Smaller(m, n) == IF m < n THEN m ELSE n

EstimateTokens(body) ==
  LET output == Smaller(IF body.limit > 0 THEN body.limit ELSE DefaultOutput,
                        MaxTokenEstimate)
      input == Smaller(body.size, MaxTokenEstimate - output)
  IN [NoUsage EXCEPT !.input = AtLeastOne(input), !.output = AtLeastOne(output)]
ValidEstimate(estimate) == estimate.input + estimate.output <= MaxTokenEstimate

ImageCount(body) == Smaller(AtLeastOne(body.images), MaxImages)

================================================================================
